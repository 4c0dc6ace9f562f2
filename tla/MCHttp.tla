------------------------------- MODULE MCHttp -------------------------------
(* Requests for the run of HttpServer: limits of a few bytes. *)
EXTENDS HttpServer

Post(head, lengths, size) == [method |-> "POST", head |-> head, lengths |-> lengths, size |-> size]

MCRequests ==
  { Post(2, <<2>>, 4),         \* the longest body
    Post(2, <<1>>, 5),         \* more bytes than declared
    Post(2, <<0>>, 2),         \* an empty body
    Post(3, <<1>>, 4),         \* the longest header
    Post(2, <<3>>, 3),         \* too long a body
    Post(7, <<1>>, 6),         \* a header without end
    Post(2, <<>>, 3),
    Post(2, <<None, 1, 0>>, 3),
    [Post(2, <<0>>, 2) EXCEPT !.method = "GET"],
    [Post(2, <<0>>, 2) EXCEPT !.method = None] }

=============================================================================
