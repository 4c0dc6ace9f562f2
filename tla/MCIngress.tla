----------------------------- MODULE MCIngress -----------------------------
(***************************************************************************)
(* Instances of the recording process for TLC.                             *)
(***************************************************************************)
EXTENDS SessionReplay

\* An empty body is legal (Content-Length: 0); a body of ten bytes has a size
\* that a torn row can cut short.
MCBodySizes == {0, 10}

\* Providers differ in nothing but their identity.
ProviderSymmetry == Permutations(Providers)

=============================================================================
