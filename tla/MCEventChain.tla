---------------------------- MODULE MCEventChain ----------------------------
(***************************************************************************)
(* The older files that the runs of EventChain start from.                 *)
(***************************************************************************)
EXTENDS EventChain

CONSTANTS plain, secret

AllTexts == {plain, secret}
Secrets == {secret}
PlainIds == {plain}
AnyIds == {plain, secret}

\* No older file; one of version 0 without numbers; one of version 1 of which a
\* release with numbers wrote the last event.
NoFile      == [version |-> 2, sequences |-> <<>>]
Unnumbered  == [version |-> 0, sequences |-> <<0, 0>>]
PartlyNumbered == [version |-> 1, sequences |-> <<0, 2>>]
OnlyNew == {NoFile}
AnyFile == {NoFile, Unnumbered, PartlyNumbered}
=============================================================================
