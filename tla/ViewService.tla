---------------------------- MODULE ViewService -----------------------------
(***************************************************************************)
(* What a FastImage object promises its users: every view they ask for is   *)
(* made once and handed out once, in the order it was asked for if they     *)
(* want that, and no more views exist at a time than they allow.            *)
(***************************************************************************)
EXTENDS Naturals, FiniteSets, SequencesExt

CONSTANTS
  Level,          (* Pyramid levels.                                       *)
  Calls,          (* The <<level, list of tiles>> a call may ask for.      *)
  Capacity(_),    (* Views of a level that may exist at a time.            *)
  Served(_),      (* Whether the users want the views of a level at all.   *)
  InOrder         (* Whether they want the views in the order asked.       *)

VARIABLES
  wanted,         (* Tiles asked for at each level, views not made yet.    *)
  ready,          (* Views made: <<level, tile>>, first one first.         *)
  lent            (* How many views of each level the users have.          *)

serviceVars == <<wanted, ready, lent>>

Existing(p) == lent[p] + Cardinality({i \in 1..Len(ready) : ready[i][1] = p})

ServiceInit ==
  /\ wanted = [p \in Level |-> <<>>]
  /\ ready = <<>>
  /\ lent = [p \in Level |-> 0]

Want(p, tiles) ==
  /\ Served(p)
  /\ wanted' = [wanted EXCEPT ![p] = @ \o tiles]
  /\ UNCHANGED <<ready, lent>>

Make(p, i) ==
  /\ InOrder => i = 1
  /\ Existing(p) < Capacity(p)
  /\ ready' = Append(ready, <<p, wanted[p][i]>>)
  /\ wanted' = [wanted EXCEPT ![p] = RemoveAt(@, i)]
  /\ UNCHANGED lent

Take ==
  /\ ready # <<>>
  /\ ready' = Tail(ready)
  /\ lent' = [lent EXCEPT ![Head(ready)[1]] = @ + 1]
  /\ UNCHANGED wanted

GiveBack(p) ==
  /\ lent[p] > 0
  /\ lent' = [lent EXCEPT ![p] = @ - 1]
  /\ UNCHANGED <<wanted, ready>>

ServiceNext ==
  \/ \E c \in Calls : Want(c[1], c[2])
  \/ \E p \in Level : \E i \in 1..Len(wanted[p]) : Make(p, i)
  \/ Take
  \/ \E p \in Level : GiveBack(p)

ServiceSpec == ServiceInit /\ [][ServiceNext]_serviceVars
=============================================================================
