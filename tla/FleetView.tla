-------------------------------- MODULE FleetView --------------------------------
(***************************************************************************)
(* What the client promises its user: the vehicles of the company he is    *)
(* signed in for, each with a state the server has really had, nothing of  *)
(* before the sign-in, and on the live page the present states before      *)
(* long.  No requests, sockets, timers or storage: LiveClient has those.   *)
(***************************************************************************)
EXTENDS Naturals

CONSTANTS
  Companies, NoCompany,
  Devices,
  CompanyOf,   \* the company of each device
  MaxVersion   \* bound on the states a device goes through

VARIABLES
  who,     \* the company signed in, or NoCompany
  screen,  \* "away", "login", "live" or "other"
  now,     \* the number of the state each device is in
  view     \* the state shown of each of who's devices, 0 while there is none

viewVars == <<who, screen, now, view>>

Nothing == [d \in Devices |-> 0]
FleetOf(c) == [d \in Devices |-> IF CompanyOf[d] = c THEN now[d] ELSE 0]

ViewInit ==
  /\ who = NoCompany /\ screen = "away"
  /\ now = [d \in Devices |-> 1] /\ view = Nothing

\* A session begins, ends or is taken up again: nothing is shown yet.
Begin(w, s) ==
  /\ who' = w /\ screen' = s /\ view' = Nothing
  /\ UNCHANGED now

Move(s) ==
  /\ screen # "away"
  /\ screen' = s
  /\ UNCHANGED <<who, now, view>>

Report(d) ==
  /\ now[d] < MaxVersion
  /\ now' = [now EXCEPT ![d] = @ + 1]
  /\ UNCHANGED <<who, screen, view>>

Show ==
  /\ who # NoCompany
  /\ view' \in [Devices -> 0 .. MaxVersion]
  /\ \A d \in Devices : view'[d] <= FleetOf(who)[d]
  /\ UNCHANGED <<who, screen, now>>

CatchUp ==
  /\ who # NoCompany /\ screen = "live"
  /\ view' = FleetOf(who)
  /\ UNCHANGED <<who, screen, now>>

ViewNext ==
  \/ \E w \in Companies \union {NoCompany}, s \in {"away", "login", "live", "other"} :
       Begin(w, s)
  \/ \E s \in {"login", "live", "other"} : Move(s)
  \/ \E d \in Devices : Report(d)
  \/ Show

ViewSafety == ViewInit /\ [][ViewNext]_viewVars

ViewSpec == ViewSafety /\ WF_viewVars(CatchUp)
=============================================================================
