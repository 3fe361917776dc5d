---------------------------- MODULE AttemptBook ----------------------------
(***************************************************************************)
(* What the trainer promises of its attempts: they are started one after   *)
(* the other, and each is graded at most once, for good.                   *)
(***************************************************************************)
EXTENDS Naturals, Sequences

VARIABLE book  \* for every attempt: {}, or the set of the one result it was given

Start == book' = Append(book, {})

Submit(a) ==
  /\ book[a] = {}
  /\ \E result \in book'[a] : book' = [book EXCEPT ![a] = {result}]

Spec == book = <<>> /\ [][Start \/ \E a \in DOMAIN book : Submit(a)]_book
=============================================================================
