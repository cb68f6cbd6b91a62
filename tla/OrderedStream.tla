--------------------------- MODULE OrderedStream ---------------------------
(***************************************************************************)
(* What a TLS session expects of the channel below it, in one direction:   *)
(* one byte stream per key epoch, read in the order in which it was        *)
(* written, with nothing added, repeated or taken from another epoch.  A   *)
(* stream may end early: a rekey leaves the rest of it unread.             *)
(***************************************************************************)
EXTENDS Naturals, Sequences

CONSTANT Epoch

VARIABLES
  written,  \* how many records the writer has handed over in each epoch
  got       \* the records the reader has taken in each epoch, by number

Init ==
  /\ written = [e \in Epoch |-> 0]
  /\ got = [e \in Epoch |-> <<>>]

Write(e) ==
  /\ written' = [written EXCEPT ![e] = @ + 1]
  /\ UNCHANGED got

\* A read may take several records at once, when one fills a gap before the others.
Read(e) ==
  /\ \E n \in Len(got[e]) + 1 .. written[e] :
       got' = [got EXCEPT ![e] = [i \in 1 .. n |-> i]]
  /\ UNCHANGED written

Next == \E e \in Epoch : Write(e) \/ Read(e)

Spec == Init /\ [][Next]_<<written, got>>
=============================================================================
