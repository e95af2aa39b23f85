-------------------------- MODULE FastImageService --------------------------
(***************************************************************************)
(* FastImage with a history of what its users have been promised, to state  *)
(* that it implements ViewService.  No step depends on the history.         *)
(***************************************************************************)
EXTENDS FastImage, SequencesExt

VARIABLE
  promised        (* Tiles asked for at each level, not sent out yet, in   *)
                  (* the order of the calls.                               *)

FirstOf(q, t) == CHOOSE i \in 1..Len(q) : q[i] = t /\ \A j \in 1..i - 1 : q[j] # t

(* A call promises its tiles, unless the users want no views of that level; *)
(* the counter keeps a promise when it sends a view out.                    *)
Promised(u, p, trav) ==
  /\ Request(u, p, trav)
  /\ promised' = IF NbReleasePyramid[p] = 0 THEN promised
                 ELSE [promised EXCEPT ![p] = @ \o trav]

Kept(p) ==
  /\ CounterStep(p)
  /\ promised' = IF output' = output THEN promised
                 ELSE [promised EXCEPT ![p] =
                         RemoveAt(@, FirstOf(@, tile[Last(output')]))]

ServiceNext ==
  \/ \E u \in User, c \in Traversals : Promised(u, c[1], c[2])
  \/ \E p \in Level : Kept(p)
  \/ Moves /\ UNCHANGED promised
  \/ Done /\ UNCHANGED promised

serviceVars == <<vars, promised>>

ServiceInit ==
  /\ Init
  /\ promised = [p \in Level |-> <<>>]

ServiceSpec ==
  /\ ServiceInit
  /\ [][ServiceNext]_serviceVars
  /\ Fairness

(* A FastImage object implements the view service: the views of a request   *)
(* are made once, handed out once, in the order of the calls when the       *)
(* option says so, and their number stays within the memory asked for.      *)
Lent == [p \in Level |-> Cardinality({v \in View : LevelOf(v) = p /\ IsLent(v)})]
Ready == [i \in 1..Len(output) |-> <<LevelOf(output[i]), tile[output[i]]>>]
IsServed(p) == NbReleasePyramid[p] # 0

Service == INSTANCE ViewService WITH
  Calls    <- Traversals,
  Capacity <- MemoryPoolSize,
  Served   <- IsServed,
  InOrder  <- PreserveOrder,
  wanted   <- promised,
  ready    <- Ready,
  lent     <- Lent

ImplementsViewService == Service!ServiceSpec
=============================================================================
