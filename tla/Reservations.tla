----------------------------- MODULE Reservations ---------------------------
(***************************************************************************)
(* The advisory file reservations (files.* handlers of server.ts, the      *)
(* release on disconnect) and their mirror in Neon (syncFiles* of          *)
(* neon.ts).                                                               *)
(*                                                                         *)
(* files.reserve walks through its paths, and for each first looks up the  *)
(* holder and then, in a second statement, overwrites the row.  A row past *)
(* its expires_at is ignored by every query and overwritten by the next    *)
(* reservation, so it is modelled as no row at all; the prune that deletes *)
(* such rows then changes nothing.                                         *)
(***************************************************************************)
EXTENDS Naturals, FiniteSets, TLC, TLAPS

CONSTANTS
    Agents, Paths, None,
    LeaveEarly   \* may a client go before its request is answered?

ASSUME ReservationsAssumption ==
    /\ None \notin Agents \cup Paths
    /\ LeaveEarly \in BOOLEAN

VARIABLES
    holder,  \* the live row of each path: its agent_id, or None
    claims,  \* coordination_file_claims: live <<path, agent>> rows on Neon
    req,     \* the request each agent has in progress
    told,    \* <<path, agent>>: the agent was told it reserved the path, and
             \* neither released it nor reached the end of its time
    missed   \* <<path, agent>>: the last claim of the pair failed on Neon

vars == <<holder, claims, req, told, missed>>

Steps   == {"idle", "lookup", "write", "mirror", "delete", "unmirror"}
Request == [at : Steps, left : SUBSET Paths, path : Paths \cup {None},
            done : SUBSET Paths, over : SUBSET Paths]
Idle    == [at |-> "idle", left |-> {}, path |-> None, done |-> {}, over |-> {}]

TypeOK ==
    /\ holder \in [Paths -> Agents \cup {None}]
    /\ claims \subseteq Paths \X Agents
    /\ req \in [Agents -> Request]
    /\ told \subseteq Paths \X Agents
    /\ missed \subseteq Paths \X Agents

Init ==
    /\ holder = [p \in Paths |-> None]
    /\ claims = {}
    /\ req = [a \in Agents |-> Idle]
    /\ told = {}
    /\ missed = {}

Set(a, r)   == req' = [req EXCEPT ![a] = r]
Drop(ps, a) == [p \in Paths |-> IF p \in ps /\ holder[p] = a THEN None ELSE holder[p]]

-----------------------------------------------------------------------------
(* files.reserve.                                                          *)

AskReserve(a, ps) ==
    /\ req[a].at = "idle" /\ ps # {}
    /\ Set(a, [Idle EXCEPT !.at = "lookup", !.left = ps])
    /\ UNCHANGED <<holder, claims, told, missed>>

\* The SELECT of one path; a conflict is reported and the path skipped.
Free(p, a) == holder[p] \in {a, None}

Lookup(a) ==
    /\ req[a].at = "lookup"
    /\ \E p \in req[a].left :
          LET rest == [req[a] EXCEPT !.left = @ \ {p}] IN
          Set(a, IF Free(p, a) THEN [rest EXCEPT !.at = "write", !.path = p] ELSE rest)
    /\ UNCHANGED <<holder, claims, told, missed>>

\* ON CONFLICT (file_path) DO UPDATE: whoever holds the row by now loses it.
Write(a) ==
    LET p == req[a].path IN
    /\ req[a].at = "write"
    /\ holder' = [holder EXCEPT ![p] = a]
    /\ Set(a, [req[a] EXCEPT !.at = "lookup", !.path = None, !.done = @ \cup {p}])
    /\ UNCHANGED <<claims, told, missed>>

\* All paths seen: nothing reserved, or on to the mirror.
EndOfPaths(a) ==
    /\ req[a].at = "lookup" /\ req[a].left = {}
    /\ Set(a, IF req[a].done = {} THEN Idle ELSE [req[a] EXCEPT !.at = "mirror"])
    /\ UNCHANGED <<holder, claims, told, missed>>

\* syncFilesReserve claims the paths one by one; the first error ends it.
\* The reply lists every path that was written, whatever Neon did.
ClaimedSwapped(a) == {<<a, p>> : p \in req[a].done}
Claimed(a) == {<<p, a>> : p \in req[a].done}

Mirror(a) ==
    /\ req[a].at = "mirror"
    /\ \E ok \in SUBSET Claimed(a) :
          /\ claims' = claims \cup ok
          /\ missed' = (missed \cup Claimed(a)) \ ok
    /\ told' = told \cup {<<p, a>> : p \in req[a].done \ req[a].over}
    /\ Set(a, Idle)
    /\ UNCHANGED holder

-----------------------------------------------------------------------------
(* files.release, with paths or (ps = Paths) without.                      *)

AskRelease(a, ps) ==
    /\ req[a].at = "idle" /\ ps # {}
    /\ Set(a, [Idle EXCEPT !.at = "delete", !.left = ps])
    /\ told' = told \ {<<p, a>> : p \in ps}
    /\ UNCHANGED <<holder, claims, missed>>

ReleasedFirstOnly(a) == Drop({CHOOSE p \in req[a].left : TRUE}, a)
Released(a) == Drop(req[a].left, a)

Delete(a) ==
    /\ req[a].at = "delete"
    /\ holder' = Released(a)
    /\ Set(a, [req[a] EXCEPT !.at = "unmirror"])
    /\ UNCHANGED <<claims, told, missed>>

UnclaimedByPath(a) == {c \in claims : c[1] \in req[a].left}
Unclaimed(a) == {<<p, a>> : p \in req[a].left}

Unmirror(a) ==
    /\ req[a].at = "unmirror"
    /\ \/ claims' = claims \ Unclaimed(a)
       \/ UNCHANGED claims
    /\ Set(a, Idle)
    /\ UNCHANGED <<holder, told, missed>>

-----------------------------------------------------------------------------
\* The connection of a bound agent closes: its rows go, on this side only.  A
\* request it left behind runs on, and nobody will be told what that reserves.
Disconnect(a) ==
    /\ req[a].at = "idle" \/ LeaveEarly
    /\ holder' = Drop(Paths, a)
    /\ told' = {t \in told : t[2] # a}
    /\ req' = IF req[a].at = "idle" THEN req ELSE [req EXCEPT ![a].over = Paths]
    /\ UNCHANGED <<claims, missed>>

\* The time of an agent's reservation of p is up, here and on Neon.  It may be
\* up before the reply is out: the client has counted from its request.
Expire(p, a) ==
    /\ holder[p] = a \/ <<p, a>> \in told \cup claims
    /\ holder' = Drop({p}, a)
    /\ told' = told \ {<<p, a>>}
    /\ claims' = claims \ {<<p, a>>}
    /\ req' = IF p \in req[a].done THEN [req EXCEPT ![a].over = @ \cup {p}] ELSE req
    /\ UNCHANGED missed

-----------------------------------------------------------------------------
Handler(a) == Lookup(a) \/ Write(a) \/ EndOfPaths(a) \/ Mirror(a) \/ Delete(a) \/ Unmirror(a)

Next ==
    \/ \E a \in Agents, ps \in SUBSET Paths : AskReserve(a, ps) \/ AskRelease(a, ps)
    \/ \E a \in Agents : Handler(a) \/ Disconnect(a)
    \/ \E p \in Paths, a \in Agents : Expire(p, a)

Spec == Init /\ [][Next]_vars
-----------------------------------------------------------------------------
(* Properties.                                                             *)

\* A path is reserved for exclusive editing: two agents are never both told
\* that they have it.
Exclusive == \A p \in Paths, a, b \in Agents : {<<p, a>>, <<p, b>>} \subseteq told => a = b

\* A live row belongs to an agent that knows of it or will be told when its
\* request ends: no path is kept from others by a reservation nobody has.  That
\* is what the release on disconnect is for.
HolderKnows ==
    \A p \in Paths, a \in Agents :
        holder[p] = a => <<p, a>> \in told \/ p \in req[a].done \/ req[a].at = "delete"

\* The fleet sees every live reservation whose claim Neon took, once the request
\* that made it is over, in whatever order the mirrored statements of all agents
\* arrive and whichever of them fail.
FleetSeesHolder ==
    \A p \in Paths, a \in Agents :
        holder[p] = a /\ req[a].at = "idle" => <<p, a>> \in claims \cup missed

\* Which is which makes no difference.
MCSymmetry == Permutations(Agents) \cup Permutations(Paths)
-----------------------------------------------------------------------------
(* Theorems about Reservations: types; that every live row has an agent     *)
(* that knows of it, if clients stay for their answers; and that the fleet  *)
(* sees what is reserved, whatever they do.                                 *)

Reserving(a) == req[a].at \in {"lookup", "write", "mirror"}

\* A request is in the shape its step implies: no path is both done and to do,
\* the one that is being written is neither.
Shaped ==
    \A a \in Agents :
        /\ ~Reserving(a) => req[a].done = {}
        /\ req[a].at = "write" => req[a].path \in Paths /\ req[a].path \notin req[a].done \cup req[a].left
        /\ req[a].done \cap req[a].left = {}

\* A row is on Neon, or its claim failed, or it is still to be claimed; the rows
\* of a release are gone before their claims are.
RowsAreClaimed ==
    \A p \in Paths, a \in Agents : holder[p] = a =>
        /\ <<p, a>> \in claims \cup missed \/ p \in req[a].done
        /\ req[a].at = "unmirror" => p \notin req[a].left

FleetInv == TypeOK /\ Shaped /\ RowsAreClaimed

\* What ran out before the reply is written once, and not any more.
OverIsGone ==
    \A a \in Agents : /\ req[a].over \subseteq req[a].done
                      /\ \A p \in req[a].over : holder[p] # a

\* A row was told, or will be told, or is about to be deleted.
RowsAreTold ==
    \A p \in Paths, a \in Agents : holder[p] = a =>
        <<p, a>> \in told \/ p \in req[a].done \/ (req[a].at = "delete" /\ p \in req[a].left)

HolderInv == FleetInv /\ OverIsGone /\ RowsAreTold

-----------------------------------------------------------------------------
(* Types, and what the fleet sees.                                         *)

\* Nothing is reserved at the start.
LEMMA FleetInit == Init => FleetInv
  BY ReservationsAssumption DEF Init, FleetInv, TypeOK, Shaped, RowsAreClaimed, Reserving, Idle, Request, Steps

\* One step per statement; a statement on one agent's rows or claims leaves those
\* of the others as they are.
LEMMA FleetStep == ASSUME FleetInv, [Next]_vars PROVE FleetInv'
  <1> USE ReservationsAssumption DEF FleetInv
  <1>1. ASSUME NEW a \in Agents, NEW ps \in SUBSET Paths, AskReserve(a, ps) PROVE FleetInv'
    <2>1. TypeOK' BY <1>1 DEF TypeOK, AskReserve, Set, Idle, Request, Steps
    <2>2. Shaped' BY <1>1 DEF TypeOK, Shaped, Reserving, AskReserve, Set, Idle
    <2>3. RowsAreClaimed' BY <1>1 DEF TypeOK, Shaped, Reserving, RowsAreClaimed, AskReserve, Set, Idle
    <2> QED BY <2>1, <2>2, <2>3
  <1>2. ASSUME NEW a \in Agents, NEW ps \in SUBSET Paths, AskRelease(a, ps) PROVE FleetInv'
    <2>1. TypeOK' BY <1>2 DEF TypeOK, AskRelease, Set, Idle, Request, Steps
    <2>2. Shaped' BY <1>2 DEF TypeOK, Shaped, Reserving, AskRelease, Set, Idle
    <2>3. RowsAreClaimed' BY <1>2 DEF TypeOK, Shaped, Reserving, RowsAreClaimed, AskRelease, Set, Idle
    <2> QED BY <2>1, <2>2, <2>3
  <1>3. ASSUME NEW a \in Agents, Lookup(a) PROVE FleetInv'
    <2>1. PICK p \in req[a].left : Set(a, IF Free(p, a)
              THEN [req[a] EXCEPT !.left = @ \ {p}, !.at = "write", !.path = p]
              ELSE [req[a] EXCEPT !.left = @ \ {p}])
      BY <1>3 DEF Lookup
    <2>2. /\ req[a] \in Request /\ p \in Paths /\ req[a].at = "lookup"
          /\ UNCHANGED <<holder, claims, told, missed>>
      BY <1>3 DEF Lookup, TypeOK, Request
    <2>3. TypeOK' BY <2>1, <2>2 DEF TypeOK, Set, Request, Steps
    <2>4. Shaped' BY <2>1, <2>2 DEF TypeOK, Shaped, Reserving, Set, Request
    <2>5. RowsAreClaimed' BY <2>1, <2>2 DEF TypeOK, RowsAreClaimed, Set, Request
    <2> QED BY <2>3, <2>4, <2>5
  <1>4. ASSUME NEW a \in Agents, Write(a) PROVE FleetInv'
    <2>1. req[a] \in Request /\ req[a].path \in Paths /\ req[a].at = "write"
      BY <1>4 DEF Write, TypeOK, Shaped
    <2>2. TypeOK' BY <1>4, <2>1 DEF TypeOK, Write, Set, Request, Steps
    <2>3. Shaped' BY <1>4, <2>1 DEF TypeOK, Shaped, Reserving, Write, Set, Request
    <2>4. RowsAreClaimed' BY <1>4, <2>1 DEF TypeOK, RowsAreClaimed, Write, Set, Request
    <2> QED BY <2>2, <2>3, <2>4
  <1>5. ASSUME NEW a \in Agents, EndOfPaths(a) PROVE FleetInv'
    <2>1. req[a] \in Request
      BY DEF TypeOK
    <2>2. TypeOK' BY <1>5, <2>1 DEF TypeOK, EndOfPaths, Set, Idle, Request, Steps
    <2>3. Shaped' BY <1>5, <2>1 DEF TypeOK, Shaped, Reserving, EndOfPaths, Set, Idle, Request
    <2>4. RowsAreClaimed' BY <1>5, <2>1 DEF TypeOK, RowsAreClaimed, EndOfPaths, Set, Idle, Request
    <2> QED BY <2>2, <2>3, <2>4
  <1>6. ASSUME NEW a \in Agents, Mirror(a) PROVE FleetInv'
    <2>1. /\ req[a] \in Request /\ Claimed(a) \subseteq Paths \X Agents
          /\ \A p \in req[a].done : <<p, a>> \in Claimed(a)
      BY DEF TypeOK, Claimed, Request
    <2>2. PICK ok \in SUBSET Claimed(a) : /\ claims' = claims \cup ok
                                          /\ missed' = (missed \cup Claimed(a)) \ ok
      BY <1>6 DEF Mirror
    <2>3. TypeOK' BY <1>6, <2>1, <2>2 DEF TypeOK, Mirror, Set, Idle, Request, Steps
    <2>4. Shaped' BY <1>6 DEF TypeOK, Shaped, Reserving, Mirror, Set, Idle
    <2>5. RowsAreClaimed' BY <1>6, <2>1, <2>2 DEF TypeOK, RowsAreClaimed, Mirror, Set, Idle
    <2> QED BY <2>3, <2>4, <2>5
  <1>7. ASSUME NEW a \in Agents, Delete(a) PROVE FleetInv'
    <2>1. req[a] \in Request
      BY DEF TypeOK
    <2>2. TypeOK' BY <1>7, <2>1 DEF TypeOK, Delete, Released, Drop, Set, Request, Steps
    <2>3. Shaped' BY <1>7, <2>1 DEF TypeOK, Shaped, Reserving, Delete, Set, Request
    <2>4. RowsAreClaimed' BY <1>7, <2>1 DEF TypeOK, RowsAreClaimed, Delete, Released, Drop, Set, Request
    <2> QED BY <2>2, <2>3, <2>4
  <1>8. ASSUME NEW a \in Agents, Unmirror(a) PROVE FleetInv'
    <2>1. /\ req[a] \in Request /\ req[a].done = {} /\ claims' \subseteq claims
          /\ \A p \in Paths, b \in Agents : <<p, b>> \in claims \ claims' => b = a /\ p \in req[a].left
      BY <1>8 DEF TypeOK, Shaped, Reserving, Unmirror, Unclaimed
    <2>2. TypeOK' BY <1>8, <2>1 DEF TypeOK, Unmirror, Set, Idle, Request, Steps
    <2>3. Shaped' BY <1>8 DEF TypeOK, Shaped, Reserving, Unmirror, Set, Idle
    <2>4. RowsAreClaimed' BY <1>8, <2>1 DEF TypeOK, RowsAreClaimed, Unmirror, Set, Idle
    <2> QED BY <2>2, <2>3, <2>4
  <1>9. ASSUME NEW a \in Agents, Disconnect(a) PROVE FleetInv'
    <2>1. req[a] \in Request
      BY DEF TypeOK
    <2>2. TypeOK' BY <1>9, <2>1 DEF TypeOK, Disconnect, Drop, Request
    <2>3. \A b \in Agents : /\ req'[b].at = req[b].at /\ req'[b].left = req[b].left
                            /\ req'[b].done = req[b].done /\ req'[b].path = req[b].path
      BY <1>9, <2>1 DEF TypeOK, Disconnect, Request
    <2>4. Shaped' /\ RowsAreClaimed'
      BY <1>9, <2>3 DEF TypeOK, Shaped, Reserving, RowsAreClaimed, Disconnect, Drop
    <2> QED BY <2>2, <2>4
  <1>10. ASSUME NEW p \in Paths, NEW a \in Agents, Expire(p, a) PROVE FleetInv'
    <2>1. req[a] \in Request
      BY DEF TypeOK
    <2>2. TypeOK' BY <1>10, <2>1 DEF TypeOK, Expire, Drop, Request
    <2>3. \A b \in Agents : /\ req'[b].at = req[b].at /\ req'[b].left = req[b].left
                            /\ req'[b].done = req[b].done /\ req'[b].path = req[b].path
      BY <1>10, <2>1 DEF TypeOK, Expire, Request
    <2>4. Shaped' /\ RowsAreClaimed'
      BY <1>10, <2>3 DEF TypeOK, Shaped, Reserving, RowsAreClaimed, Expire, Drop
    <2> QED BY <2>2, <2>4
  <1>11. CASE UNCHANGED vars
    BY <1>11 DEF vars, TypeOK, Shaped, Reserving, RowsAreClaimed
  <1> QED
    BY <1>1, <1>2, <1>3, <1>4, <1>5, <1>6, <1>7, <1>8, <1>9, <1>10, <1>11 DEF Next, Handler

\* Rows, claims and requests stay what they are, for all agents and paths.
THEOREM TypeCorrect == Spec => []TypeOK
  BY FleetInit, FleetStep, PTL DEF Spec, FleetInv

\* Whoever leaves early and whatever fails on Neon, the fleet sees each live row
\* whose request is over, unless its claim failed.
THEOREM FleetSeesRows == Spec => []FleetSeesHolder
  <1>1. FleetInv => FleetSeesHolder
    BY DEF FleetInv, Shaped, Reserving, RowsAreClaimed, FleetSeesHolder
  <1> QED BY <1>1, FleetInit, FleetStep, PTL DEF Spec

-----------------------------------------------------------------------------
(* Who knows of a row, if nobody leaves before the answer.                 *)

LEMMA HolderInit == Init => HolderInv
  BY ReservationsAssumption, FleetInit DEF Init, HolderInv, OverIsGone, RowsAreTold, Idle

\* A path is written once per request, so what ran out before the reply has not
\* come back by then.
LEMMA HolderStep == ASSUME ~LeaveEarly, HolderInv, [Next]_vars PROVE HolderInv'
  <1> USE ReservationsAssumption DEF HolderInv
  <1>0. FleetInv' /\ TypeOK
    BY FleetStep DEF FleetInv
  <1>1. ASSUME NEW a \in Agents, NEW ps \in SUBSET Paths, AskReserve(a, ps) PROVE HolderInv'
    <2>1. OverIsGone' BY <1>0, <1>1 DEF TypeOK, OverIsGone, AskReserve, Set, Idle
    <2>2. RowsAreTold'
      BY <1>0, <1>1 DEF TypeOK, FleetInv, Shaped, Reserving, RowsAreTold, AskReserve, Set, Idle
    <2> QED BY <1>0, <2>1, <2>2
  <1>2. ASSUME NEW a \in Agents, NEW ps \in SUBSET Paths, AskRelease(a, ps) PROVE HolderInv'
    <2>1. OverIsGone' BY <1>0, <1>2 DEF TypeOK, OverIsGone, AskRelease, Set, Idle
    <2>2. RowsAreTold'
      BY <1>0, <1>2 DEF TypeOK, FleetInv, Shaped, Reserving, RowsAreTold, AskRelease, Set, Idle
    <2> QED BY <1>0, <2>1, <2>2
  <1>3. ASSUME NEW a \in Agents, Lookup(a) PROVE HolderInv'
    <2>1. \A b \in Agents : req'[b].done = req[b].done /\ req'[b].over = req[b].over
      BY <1>0, <1>3 DEF TypeOK, Request, Lookup, Set
    <2>2. \A b \in Agents : req[b].at = "delete" => req'[b] = req[b]
      BY <1>0, <1>3 DEF TypeOK, Lookup, Set
    <2> QED BY <1>0, <1>3, <2>1, <2>2 DEF OverIsGone, RowsAreTold, Lookup
  <1>4. ASSUME NEW a \in Agents, Write(a) PROVE HolderInv'
    <2>1. /\ req[a] \in Request /\ req[a].path \in Paths /\ req[a].path \notin req[a].done
          /\ holder' = [holder EXCEPT ![req[a].path] = a] /\ told' = told
      BY <1>0, <1>4 DEF Write, TypeOK, FleetInv, Shaped
    <2>2. /\ req'[a].over = req[a].over /\ req'[a].done = req[a].done \cup {req[a].path}
          /\ req[a].at = "write"
          /\ \A b \in Agents : b # a => req'[b] = req[b]
      BY <1>0, <1>4, <2>1 DEF Write, Set, TypeOK, Request
    <2>3. OverIsGone' BY <1>0, <2>1, <2>2 DEF TypeOK, OverIsGone
    <2>4. RowsAreTold' BY <1>0, <2>1, <2>2 DEF TypeOK, RowsAreTold
    <2> QED BY <1>0, <2>3, <2>4
  <1>5. ASSUME NEW a \in Agents, EndOfPaths(a) PROVE HolderInv'
    <2>1. /\ req[a] \in Request /\ req'[a].done = req[a].done /\ req[a].at = "lookup"
          /\ req'[a].over = {} \/ req'[a].over = req[a].over
          /\ \A b \in Agents : b # a => req'[b] = req[b]
      BY <1>0, <1>5 DEF TypeOK, Request, EndOfPaths, Set, Idle
    <2> QED BY <1>0, <1>5, <2>1 DEF OverIsGone, RowsAreTold, EndOfPaths
  <1>6. ASSUME NEW a \in Agents, Mirror(a) PROVE HolderInv'
    <2>1. /\ req'[a] = Idle /\ req[a].at = "mirror" /\ holder' = holder
          /\ \A b \in Agents : b # a => req'[b] = req[b]
          /\ told' = told \cup {<<p, a>> : p \in req[a].done \ req[a].over}
      BY <1>0, <1>6 DEF TypeOK, Mirror, Set
    <2>2. OverIsGone' BY <1>0, <2>1 DEF TypeOK, OverIsGone, Idle
    <2>3. RowsAreTold'
      <3> SUFFICES ASSUME NEW p \in Paths, NEW b \in Agents, holder[p] = b
                   PROVE  <<p, b>> \in told' \/ p \in req'[b].done
                          \/ (req'[b].at = "delete" /\ p \in req'[b].left)
        BY <2>1 DEF RowsAreTold
      <3>1. CASE b = a
        BY <3>1, <2>1 DEF RowsAreTold, OverIsGone
      <3>2. CASE b # a
        BY <3>2, <2>1 DEF RowsAreTold
      <3> QED BY <3>1, <3>2
    <2> QED BY <1>0, <2>2, <2>3
  <1>7. ASSUME NEW a \in Agents, Delete(a) PROVE HolderInv'
    <2>1. /\ req[a] \in Request /\ req[a].at = "delete" /\ told' = told
          /\ holder' = Drop(req[a].left, a)
          /\ req'[a].done = req[a].done /\ req'[a].over = req[a].over
          /\ \A b \in Agents : b # a => req'[b] = req[b]
      BY <1>0, <1>7 DEF TypeOK, Request, Delete, Released, Set
    <2>2. OverIsGone' BY <1>0, <2>1 DEF TypeOK, Request, OverIsGone, Drop
    <2>3. RowsAreTold' BY <1>0, <2>1 DEF TypeOK, RowsAreTold, Drop
    <2> QED BY <1>0, <2>2, <2>3
  <1>8. ASSUME NEW a \in Agents, Unmirror(a) PROVE HolderInv'
    <2>1. /\ req[a].at = "unmirror" /\ req[a].done = {} /\ req'[a] = Idle
          /\ \A b \in Agents : b # a => req'[b] = req[b]
      BY <1>0, <1>8 DEF TypeOK, FleetInv, Shaped, Reserving, Unmirror, Set
    <2> QED BY <1>0, <1>8, <2>1 DEF OverIsGone, RowsAreTold, Unmirror, Idle
  <1>9. ASSUME NEW a \in Agents, Disconnect(a) PROVE HolderInv'
    <2>1. req[a].at = "idle" /\ req' = req
      BY <1>9 DEF Disconnect
    <2>2. OverIsGone' BY <1>0, <1>9, <2>1 DEF TypeOK, Request, OverIsGone, Disconnect, Drop
    <2>3. RowsAreTold' BY <1>0, <1>9, <2>1 DEF TypeOK, RowsAreTold, Disconnect, Drop
    <2> QED BY <1>0, <2>2, <2>3
  <1>10. ASSUME NEW p \in Paths, NEW a \in Agents, Expire(p, a) PROVE HolderInv'
    <2>1. /\ req[a] \in Request /\ holder' = Drop({p}, a) /\ told' = told \ {<<p, a>>}
          /\ \A b \in Agents : /\ req'[b].at = req[b].at /\ req'[b].left = req[b].left
                               /\ req'[b].done = req[b].done
                               /\ req'[b].over \subseteq req[b].over \cup (IF b = a THEN {p} ELSE {})
          /\ req'[a].over \subseteq req[a].over \/ p \in req[a].done
      BY <1>0, <1>10 DEF TypeOK, Request, Expire
    <2>2. OverIsGone' BY <1>0, <2>1 DEF TypeOK, Request, OverIsGone, Drop
    <2>3. RowsAreTold' BY <1>0, <2>1 DEF TypeOK, RowsAreTold, Drop
    <2> QED BY <1>0, <2>2, <2>3
  <1>11. CASE UNCHANGED vars
    BY <1>0, <1>11 DEF vars, OverIsGone, RowsAreTold
  <1> QED
    BY <1>1, <1>2, <1>3, <1>4, <1>5, <1>6, <1>7, <1>8, <1>9, <1>10, <1>11 DEF Next, Handler

\* If clients stay for their answers, the agent of a live row has been told of it,
\* or is about to be, or is giving it up: no reservation is nobody's.
THEOREM HoldersKnow == ASSUME ~LeaveEarly PROVE Spec => []HolderKnows
  <1>1. HolderInv => HolderKnows
    BY DEF HolderInv, RowsAreTold, HolderKnows
  <1>2. HolderInv /\ [Next]_vars => HolderInv'
    BY HolderStep
  <1> QED BY <1>1, <1>2, HolderInit, PTL DEF Spec
=============================================================================
