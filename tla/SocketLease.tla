---------------------------- MODULE SocketLease ----------------------------
(***************************************************************************)
(* Who owns the WhatsApp socket of one session.                            *)
(*                                                                         *)
(* Several gateway processes may have the session in memory.  A row of     *)
(* whatsapp_private.socket_leases names the one that may hold its socket.  *)
(* Inside a process SocketLifecycle numbers the connection attempts: only  *)
(* the socket of the current generation counts.                            *)
(*                                                                         *)
(* An instance is one run of a gateway process (instanceId is a random     *)
(* UUID), so a restarted gateway is another member of Instances.           *)
(*                                                                         *)
(* Every await on the database or the provider is a member of pending: the *)
(* statement and the code after it are one step, the code before it        *)
(* belongs to an earlier step, and anything may happen in between.  The    *)
(* pool has several connections, so statements execute in any order.       *)
(***************************************************************************)
EXTENDS Naturals, FiniteSets

CONSTANTS
    Instances,      \* gateway processes
    NoInstance,     \* there is no row
    Gens,           \* generations; the code counts, only equality is used
    Bound(_, _, _)  \* bound: a failure or request of a kind may happen at an
                    \* instance after those of a bag

Reasons == {"transient", "terminated", "replaced", "loggedOut"}
Kinds   == {"replaced", "acquire", "register", "failure", "refresh", "shutdown", "request"}

ASSUME LeaseAssumption ==
    /\ NoInstance \notin Instances
    /\ 0 \notin Gens
    /\ Gens # {}

VARIABLES
    lease,       \* the row of the session
    registered,  \* gateway_sessions.is_active and stored credentials
    proc,        \* state of each process
    session,     \* the session object of each process
    pending,     \* awaits that have not returned, and start-retry timers
    open,        \* sockets connected to the provider
    lapsed,      \* instances whose row ran out while they were running
    overlapped,  \* instances that began an attempt beside another statement
    stopped,     \* instances told to log the session out or delete it
    happened     \* failures and requests so far, by kind

vars == <<lease, registered, proc, session, pending, open, lapsed,
          overlapped, stopped, happened>>

Gen0    == Gens \cup {0}
Status  == {"RESTORING", "SCAN_QR", "CONNECTED", "CONNECTING", "DISCONNECTED",
            "UNAVAILABLE"}
Delete_ == {"abort", "abortErr", "refresh", "logout", "delete", "close", "closeOut",
            "shutdown"}                   \* await releaseLease(session)
Attempt == {"acquire", "create"}          \* awaits of _connectSocket
Query   == Delete_ \cup Attempt
Op      == Query \cup {"renew", "register", "provider", "clear", "inactive", "inactiveErr",
                       "unlink", "again"}

\* gen: lifecycle.generation   cur: generation of lifecycle._socket
\* sock: session.sock          renew: generation of _leaseRenewTimer
\* retry: _leaseRetryTimer     retries: lease retry timers still armed
Session == [gen : Gens, cur : Gen0, sock : Gen0, reconnect : BOOLEAN,
            renew : Gen0, renewing : BOOLEAN, retry : Gen0, retries : SUBSET Gens,
            status : Status, active : BOOLEAN, loggedOut : BOOLEAN,
            deleted : BOOLEAN]

NoLease == [owner |-> NoInstance, gen |-> 0, live |-> FALSE]

TypeOK ==
    /\ lease \in [owner : Instances \cup {NoInstance}, gen : Gen0, live : BOOLEAN]
    /\ lease.live => lease.owner \in Instances
    /\ registered \in BOOLEAN
    /\ proc \in [Instances -> {"new", "up", "down"}]
    /\ session \in [Instances -> Session]
    /\ pending \in [Instances -> SUBSET [op : Op, gen : Gens, held : Gen0]]
    /\ open \in [Instances -> SUBSET Gens]
    /\ lapsed \subseteq Instances
    /\ overlapped \subseteq Instances
    /\ stopped \subseteq Instances
    /\ happened \in [Kinds -> Nat]

Call(op, g)       == [op |-> op, gen |-> g, held |-> 0]
Awaits(i, op)     == {p \in pending[i] : p.op = op}
Current(i, g)     == session[i].gen = g /\ session[i].cur = g
Live(i)           == Current(i, session[i].gen) /\ session[i].gen \in open[i]
Managed(i)        == proc[i] = "up" /\ ~session[i].deleted

-----------------------------------------------------------------------------
(* SocketLifecycle and the local half of the lease coordinator             *)

InUse(i) == {session[i].gen, session[i].cur, session[i].sock, session[i].renew}
            \cup session[i].retries \cup open[i]
            \cup {p.gen : p \in pending[i]} \cup {p.held : p \in pending[i]}
            \cup {lease.gen}
HasFresh(i)  == Gens \ InUse(i) # {}
NextGen(i)   == CHOOSE g \in Gens : g \notin InUse(i)

BeginAttempt(i, x) == [x EXCEPT !.reconnect = FALSE, !.gen = NextGen(i)]

\* Mutant: the generation is not raised
InvalidateSocket(i, x) == [x EXCEPT !.reconnect = FALSE, !.cur = 0]

Invalidate(i, x) == [x EXCEPT !.reconnect = FALSE, !.gen = NextGen(i), !.cur = 0]

ClearLeaseTimers(x) ==
    [x EXCEPT !.renew = 0, !.renewing = FALSE, !.retry = 0, !.retries = @ \ {x.retry}]

\* Mutant: the DELETE names the session only
ReleasedByAny(i) == NoLease

\* Mutant: the owner is cleared and the expiry kept
ReleasedToNobody(i) == IF lease.owner = i THEN [lease EXCEPT !.owner = NoInstance] ELSE lease

\* DELETE ... WHERE session_id AND instance_id: whatever its generation.
ReleasedBy(i) == IF lease.owner = i THEN NoLease ELSE lease

\* _startSocket up to its first await, from session x and calls p of i
Skips(x) == x.deleted \/ x.reconnect
StartSocket(i, x, p) ==
    /\ HasFresh(i)
    /\ session' = [session EXCEPT ![i] = IF Skips(x) THEN x ELSE
            [ClearLeaseTimers(BeginAttempt(i, x)) EXCEPT !.loggedOut = FALSE]]
    /\ pending' = [pending EXCEPT ![i] = IF Skips(x) THEN p ELSE
            p \cup {Call("acquire", NextGen(i))}]
    /\ overlapped' = IF ~Skips(x) /\ \E q \in p : q.op \in Query
                     THEN overlapped \cup {i} ELSE overlapped

\* the catch of _startSocket; it does not ask which generation failed
StartFailed(i, x, p, g) ==
    /\ session' = [session EXCEPT ![i] =
            IF x.deleted THEN x ELSE [x EXCEPT !.status = "UNAVAILABLE"]]
    /\ pending' = [pending EXCEPT ![i] =
            IF x.deleted THEN p ELSE p \cup {Call("again", g)}]

Happens(i, k) ==
    /\ Bound(i, k, happened)
    /\ happened' = [happened EXCEPT ![k] = @ + 1]

\* releaseLease returns; an error of the DELETE is swallowed.
Released(i) == \/ lease' = ReleasedBy(i) /\ UNCHANGED happened
               \/ Happens(i, "failure") /\ UNCHANGED lease

-----------------------------------------------------------------------------
FreshSession(g) ==
    [gen |-> g, cur |-> 0, sock |-> 0, reconnect |-> FALSE, renew |-> 0,
     renewing |-> FALSE, retry |-> 0, retries |-> {}, status |-> "RESTORING",
     active |-> TRUE, loggedOut |-> FALSE, deleted |-> FALSE]
FirstGen == CHOOSE g \in Gens : TRUE

Init ==
    /\ lease = NoLease
    /\ registered = TRUE
    /\ proc = [i \in Instances |-> "new"]
    /\ session = [i \in Instances |-> FreshSession(FirstGen)]
    /\ pending = [i \in Instances |-> {}]
    /\ open = [i \in Instances |-> {}]
    /\ lapsed = {} /\ overlapped = {} /\ stopped = {}
    /\ happened = [k \in Kinds |-> 0]

\* A process starts: restoreSessions puts the session in memory and starts it.
Restore(i) ==
    /\ proc[i] = "new" /\ registered
    /\ proc' = [proc EXCEPT ![i] = "up"]
    /\ StartSocket(i, session[i], {})
    /\ UNCHANGED <<lease, registered, open, lapsed, stopped, happened>>

(* _connectSocket                                                          *)

\* Mutant: an expired row is not taken over
FreeOrOwn(i) == lease.owner \in {NoInstance, i}

\* ON CONFLICT ... WHERE expires_at <= NOW() OR instance_id = EXCLUDED
Free(i) == ~lease.live \/ lease.owner = i

Acquire(i, c) ==
    /\ c \in Awaits(i, "acquire")
    /\ LET x == session[i]  p == pending[i] \ {c} IN
       IF Free(i)
       THEN /\ lease' = [owner |-> i, gen |-> c.gen, live |-> TRUE]
            /\ lapsed' = lapsed \ {i}
            /\ session' = [session EXCEPT ![i] = IF x.deleted THEN ClearLeaseTimers(x) ELSE x]
            /\ pending' = [pending EXCEPT ![i] =
                    p \cup {Call(IF x.deleted THEN "abort" ELSE "create", c.gen)}]
       ELSE /\ session' = [session EXCEPT ![i] = [x EXCEPT !.status = "RESTORING",
                    !.retry = c.gen, !.retries = @ \cup {c.gen}]]
            /\ pending' = [pending EXCEPT ![i] = p]
            /\ UNCHANGED <<lease, lapsed>>
    /\ UNCHANGED <<registered, proc, open, overlapped, stopped, happened>>

AcquireFails(i, c) ==
    /\ c \in Awaits(i, "acquire") /\ Happens(i, "acquire")
    /\ StartFailed(i, session[i], pending[i] \ {c}, c.gen)
    /\ UNCHANGED <<lease, registered, proc, open, lapsed, overlapped, stopped>>

CreateFails(i, c) ==
    /\ c \in Awaits(i, "create") /\ Happens(i, "failure")
    /\ session' = [session EXCEPT ![i] = ClearLeaseTimers(@)]
    /\ pending' = [pending EXCEPT ![i] = (@ \ {c}) \cup {Call("abortErr", c.gen)}]
    /\ UNCHANGED <<lease, registered, proc, open, lapsed, overlapped, stopped>>

Superseded(x, g) == x.deleted \/ x.gen # g

Attach(i, c) ==
    /\ c \in Awaits(i, "create")
    /\ LET x == session[i]  g == c.gen  p == pending[i] \ {c} IN
       IF Superseded(x, g)
       THEN /\ session' = [session EXCEPT ![i] = ClearLeaseTimers(x)]
            /\ pending' = [pending EXCEPT ![i] = p \cup {Call("abort", g)}]
            /\ open' = open
       ELSE /\ session' = [session EXCEPT ![i] = [x EXCEPT !.cur = g, !.sock = g,
                    !.renew = IF @ = 0 THEN g ELSE @]]
            /\ pending' = [pending EXCEPT ![i] = p]
            /\ open' = [open EXCEPT ![i] = (@ \ {x.cur}) \cup {g}]
    /\ UNCHANGED <<lease, registered, proc, lapsed, overlapped, stopped, happened>>

\* The row of a superseded or failed attempt is deleted.
Aborted(i, c) ==
    /\ c \in Awaits(i, "abort") \cup Awaits(i, "abortErr")
    /\ Released(i)
    /\ IF c.op = "abort"
       THEN session' = session /\ pending' = [pending EXCEPT ![i] = @ \ {c}]
       ELSE StartFailed(i, session[i], pending[i] \ {c}, c.gen)
    /\ UNCHANGED <<registered, proc, open, lapsed, overlapped, stopped>>

\* The timers that start the socket again.
RetryFires(i, g) ==
    /\ proc[i] = "up" /\ g \in session[i].retries
    /\ LET x == [session[i] EXCEPT !.retry = 0, !.retries = @ \ {g}] IN
       IF ~x.deleted /\ x.gen = g
       THEN StartSocket(i, x, pending[i])
       ELSE session' = [session EXCEPT ![i] = x] /\ UNCHANGED <<pending, overlapped>>
    /\ UNCHANGED <<lease, registered, proc, open, lapsed, stopped, happened>>

StartAgain(i, c) ==
    /\ c \in Awaits(i, "again")
    /\ LET x == session[i]  p == pending[i] \ {c} IN
       IF ~x.deleted /\ x.status = "UNAVAILABLE" /\ x.active
       THEN StartSocket(i, x, p)
       ELSE pending' = [pending EXCEPT ![i] = p] /\ UNCHANGED <<session, overlapped>>
    /\ UNCHANGED <<lease, registered, proc, open, lapsed, stopped, happened>>

Reconnect(i) ==
    /\ proc[i] = "up" /\ session[i].reconnect
    /\ StartSocket(i, [session[i] EXCEPT !.reconnect = FALSE], pending[i])
    /\ UNCHANGED <<lease, registered, proc, open, lapsed, stopped, happened>>

(* renewal                                                                 *)

RenewTick(i) ==
    /\ proc[i] = "up"
    /\ LET x == session[i] IN
       /\ x.renew # 0 /\ ~x.renewing /\ Current(i, x.renew)
       /\ session' = [session EXCEPT ![i].renewing = TRUE]
       /\ pending' = [pending EXCEPT ![i] = @ \cup {Call("renew", x.renew)}]
    /\ UNCHANGED <<lease, registered, proc, open, lapsed, overlapped, stopped, happened>>

\* loseLease, in the callback of the renewal of generation g
LoseLease(i, g) ==
    LET x == [session[i] EXCEPT !.renewing = FALSE] IN
    IF Managed(i) /\ Current(i, g)
    THEN /\ HasFresh(i)
         /\ session' = [session EXCEPT ![i] = [ClearLeaseTimers(Invalidate(i, x))
                EXCEPT !.sock = 0, !.status = "UNAVAILABLE"]]
         /\ open' = [open EXCEPT ![i] = @ \ {g}]
    ELSE session' = [session EXCEPT ![i] = x] /\ UNCHANGED open

\* Mutant: the UPDATE names the session and the generation
HoldsAny(i, g) == lease.gen = g

Holds(i, g) == lease.owner = i /\ lease.gen = g

\* UPDATE ... WHERE instance_id AND generation: an expired row is renewed too.
Renewed(i, c) ==
    /\ c \in Awaits(i, "renew")
    /\ pending' = [pending EXCEPT ![i] = @ \ {c}]
    /\ IF Holds(i, c.gen)
       THEN /\ lease' = [lease EXCEPT !.live = TRUE]
            /\ lapsed' = lapsed \ {i}
            /\ session' = [session EXCEPT ![i].renewing = FALSE]
            /\ UNCHANGED open
       ELSE LoseLease(i, c.gen) /\ UNCHANGED <<lease, lapsed>>
    /\ UNCHANGED <<registered, proc, overlapped, stopped, happened>>

\* The query fails.  _leaseValidUntil is not earlier than the row's expiry.
RenewFails(i, c) ==
    /\ c \in Awaits(i, "renew") /\ Happens(i, "failure")
    /\ pending' = [pending EXCEPT ![i] = @ \ {c}]
    /\ \/ session' = [session EXCEPT ![i].renewing = FALSE] /\ UNCHANGED open
       \/ ~(Holds(i, c.gen) /\ lease.live) /\ LoseLease(i, c.gen)
    /\ UNCHANGED <<lease, registered, proc, lapsed, overlapped, stopped>>

\* Time passes expires_at.  Nobody renews for a dead process; for a running
\* one it takes a stall of the database, the process or socket creation.
Expire ==
    /\ lease.live
    /\ lease' = [lease EXCEPT !.live = FALSE]
    /\ IF proc[lease.owner] = "up"
       THEN Happens(lease.owner, "failure") /\ lapsed' = lapsed \cup {lease.owner}
       ELSE UNCHANGED <<happened, lapsed>>
    /\ UNCHANGED <<registered, proc, session, pending, open, overlapped, stopped>>

(* connection.update                                                       *)

Opened(i) ==
    /\ Managed(i) /\ Live(i) /\ session[i].status # "CONNECTED"
    /\ session' = [session EXCEPT ![i].status = "CONNECTED"]
    /\ UNCHANGED <<lease, registered, proc, pending, open, lapsed, overlapped, stopped, happened>>

\* The provider closes the current socket: 440 connectionReplaced, logged out
\* or banned, three closures before any QR, or anything else.
Closed(i, reason) ==
    /\ Managed(i) /\ Live(i) /\ Happens(i, IF reason = "replaced" THEN reason ELSE "failure")
    /\ LET x == session[i] IN
       /\ open' = [open EXCEPT ![i] = @ \ {x.gen}]
       /\ CASE reason = "transient" ->
                /\ session' = [session EXCEPT ![i] =
                        [x EXCEPT !.status = "CONNECTING", !.reconnect = TRUE]]
                /\ UNCHANGED pending
            [] reason = "terminated" ->
                /\ session' = [session EXCEPT ![i] =
                        [x EXCEPT !.status = "DISCONNECTED", !.active = FALSE]]
                /\ UNCHANGED pending
            [] OTHER ->
                /\ session' = [session EXCEPT ![i] = [ClearLeaseTimers(x) EXCEPT
                        !.status = "DISCONNECTED", !.active = FALSE,
                        !.reconnect = IF reason = "replaced" THEN FALSE ELSE @]]
                /\ pending' = [pending EXCEPT ![i] = @ \cup
                        {Call(IF reason = "replaced" THEN "close" ELSE "closeOut", x.gen)}]
    /\ UNCHANGED <<lease, registered, proc, lapsed, overlapped, stopped>>

CloseReleased(i, c) ==
    /\ c \in Awaits(i, "close") \cup Awaits(i, "closeOut")
    /\ Released(i)
    /\ registered' = (registered /\ c.op = "close")
    /\ pending' = [pending EXCEPT ![i] = @ \ {c}]
    /\ UNCHANGED <<proc, session, open, lapsed, overlapped, stopped>>

(* requests                                                                *)

\* (The model lets the registration of one refreshQr return before the next.)
Refresh(i) ==
    /\ Managed(i) /\ Happens(i, "refresh")
    /\ session[i].status # "CONNECTED"
    /\ Awaits(i, "register") = {}
    /\ session' = [session EXCEPT ![i].status = "SCAN_QR"]
    /\ pending' = [pending EXCEPT ![i] = @ \cup {Call("register", session[i].gen)}]
    /\ stopped' = stopped \ {i}
    /\ UNCHANGED <<lease, registered, proc, open, lapsed, overlapped>>

RefreshRegistered(i, c) ==
    /\ c \in Awaits(i, "register") /\ HasFresh(i)
    /\ registered' = TRUE
    /\ session' = [session EXCEPT ![i] = ClearLeaseTimers(Invalidate(i, @))]
    /\ pending' = [pending EXCEPT ![i] = (@ \ {c}) \cup {Call("refresh", NextGen(i))}]
    /\ UNCHANGED <<lease, proc, open, lapsed, overlapped, stopped, happened>>

\* The request fails; the status stays.
RegisterFails(i, c) ==
    /\ c \in Awaits(i, "register") /\ Happens(i, "register")
    /\ pending' = [pending EXCEPT ![i] = @ \ {c}]
    /\ UNCHANGED <<lease, registered, proc, session, open, lapsed, overlapped, stopped>>

RefreshReleased(i, c) ==
    /\ c \in Awaits(i, "refresh")
    /\ Released(i)
    /\ open' = [open EXCEPT ![i] = @ \ {session[i].sock}]
    /\ StartSocket(i, [session[i] EXCEPT !.sock = 0], pending[i] \ {c})
    /\ UNCHANGED <<registered, proc, lapsed, stopped>>

\* A pairing code is requested while no socket is attached.
RequestPairingCode(i) ==
    /\ Managed(i) /\ Happens(i, "request")
    /\ session[i].status # "CONNECTED" /\ session[i].sock = 0
    /\ StartSocket(i, session[i], pending[i])
    /\ stopped' = stopped \ {i}
    /\ UNCHANGED <<lease, registered, proc, open, lapsed>>

LogoutOp == {"logout", "provider", "clear", "inactive", "inactiveErr"}
Logout(i) ==
    /\ Managed(i) /\ HasFresh(i) /\ Happens(i, "request")
    /\ \A c \in pending[i] : c.op \notin LogoutOp
    /\ ~session[i].loggedOut
    /\ session' = [session EXCEPT ![i] = [ClearLeaseTimers(Invalidate(i, @)) EXCEPT
            !.sock = 0, !.status = "DISCONNECTED", !.active = FALSE]]
    /\ pending' = [pending EXCEPT ![i] = @ \cup
            {[op |-> "logout", gen |-> NextGen(i), held |-> session[i].sock]}]
    /\ stopped' = IF Awaits(i, "register") \cup Awaits(i, "refresh") = {} THEN stopped \cup {i} ELSE stopped
    /\ UNCHANGED <<lease, registered, proc, open, lapsed, overlapped>>

\* The row goes first; the provider gets PROVIDER_LOGOUT_TIMEOUT_MS after that.
LogoutReleased(i, c) ==
    /\ c \in Awaits(i, "logout")
    /\ Released(i)
    /\ pending' = [pending EXCEPT ![i] = (@ \ {c}) \cup {[c EXCEPT !.op = "provider"]}]
    /\ UNCHANGED <<registered, proc, session, open, lapsed, overlapped, stopped>>

\* The next statement of a logout, unless something has superseded it
GoesOn(i, c, op) ==
    pending' = [pending EXCEPT ![i] =
            (@ \ {c}) \cup IF Superseded(session[i], c.gen) THEN {} ELSE {Call(op, c.gen)}]

LogoutProvider(i, c) ==
    /\ c \in Awaits(i, "provider")
    /\ open' = [open EXCEPT ![i] = @ \ {c.held}]
    /\ GoesOn(i, c, "clear")
    /\ UNCHANGED <<lease, registered, proc, session, lapsed, overlapped, stopped, happened>>

\* clearAuth: what failed is reported at the end of the logout.
AuthCleared(i, c) ==
    /\ c \in Awaits(i, "clear")
    /\ \/ registered' = FALSE /\ GoesOn(i, c, "inactive") /\ UNCHANGED happened
       \/ Happens(i, "failure") /\ GoesOn(i, c, "inactiveErr") /\ UNCHANGED registered
    /\ UNCHANGED <<lease, proc, session, open, lapsed, overlapped, stopped>>

\* setSessionActive
LogoutDone(i, c) ==
    /\ c \in Awaits(i, "inactive") \cup Awaits(i, "inactiveErr")
    /\ pending' = [pending EXCEPT ![i] = @ \ {c}]
    /\ \/ /\ registered' = FALSE
          /\ session' = [session EXCEPT ![i].loggedOut =
                 @ \/ (c.op = "inactive" /\ ~Superseded(session[i], c.gen))]
          /\ UNCHANGED happened
       \/ Happens(i, "failure") /\ UNCHANGED <<registered, session>>
    /\ UNCHANGED <<lease, proc, open, lapsed, overlapped, stopped>>

Delete(i) ==
    /\ Managed(i) /\ HasFresh(i) /\ Happens(i, "request")
    /\ session' = [session EXCEPT ![i] =
            [ClearLeaseTimers(Invalidate(i, @)) EXCEPT !.deleted = TRUE]]
    /\ pending' = [pending EXCEPT ![i] = @ \cup {Call("delete", NextGen(i))}]
    /\ stopped' = stopped \cup {i}
    /\ UNCHANGED <<lease, registered, proc, open, lapsed, overlapped>>

DeleteReleased(i, c) ==
    /\ c \in Awaits(i, "delete")
    /\ Released(i)
    /\ pending' = [pending EXCEPT ![i] = (@ \ {c}) \cup {[c EXCEPT !.op = "unlink"]}]
    /\ UNCHANGED <<registered, proc, session, open, lapsed, overlapped, stopped>>

DeleteDone(i, c) ==
    /\ c \in Awaits(i, "unlink")
    /\ open' = [open EXCEPT ![i] = @ \ {session[i].sock}]
    /\ pending' = [pending EXCEPT ![i] = @ \ {c}]
    /\ registered' = FALSE
    /\ UNCHANGED <<lease, proc, session, lapsed, overlapped, stopped, happened>>

Shutdown(i) ==
    /\ proc[i] = "up" /\ HasFresh(i) /\ Happens(i, "shutdown")
    /\ Awaits(i, "shutdown") = {}
    /\ session' = [session EXCEPT ![i] = [ClearLeaseTimers(Invalidate(i, @)) EXCEPT !.sock = 0]]
    /\ open' = [open EXCEPT ![i] = @ \ {session[i].sock}]
    /\ pending' = [pending EXCEPT ![i] = @ \cup {Call("shutdown", NextGen(i))}]
    /\ UNCHANGED <<lease, registered, proc, lapsed, overlapped, stopped>>

Gone(i) ==
    /\ proc' = [proc EXCEPT ![i] = "down"]
    /\ pending' = [pending EXCEPT ![i] = {}]
    /\ open' = [open EXCEPT ![i] = {}]
    /\ session' = [session EXCEPT ![i] = FreshSession(FirstGen)]
    /\ UNCHANGED <<registered, lapsed, overlapped, stopped>>

ShutdownReleased(i, c) ==
    /\ c \in Awaits(i, "shutdown")
    /\ Released(i) /\ Gone(i)

Crash(i) == proc[i] = "up" /\ Happens(i, "failure") /\ Gone(i) /\ UNCHANGED lease

-----------------------------------------------------------------------------
Returns(i, c) ==
    \/ Acquire(i, c) \/ Attach(i, c) \/ Aborted(i, c) \/ Renewed(i, c)
    \/ CloseReleased(i, c) \/ RefreshRegistered(i, c) \/ RefreshReleased(i, c)
    \/ LogoutReleased(i, c) \/ LogoutProvider(i, c) \/ AuthCleared(i, c) \/ LogoutDone(i, c)
    \/ DeleteReleased(i, c) \/ DeleteDone(i, c)
    \/ ShutdownReleased(i, c) \/ StartAgain(i, c)
Fails(i, c) == AcquireFails(i, c) \/ CreateFails(i, c) \/ RenewFails(i, c) \/ RegisterFails(i, c)

Next ==
    \/ \E i \in Instances :
        \/ Restore(i) \/ Reconnect(i) \/ RenewTick(i) \/ Opened(i) \/ Crash(i)
        \/ Refresh(i) \/ RequestPairingCode(i) \/ Logout(i) \/ Delete(i) \/ Shutdown(i)
        \/ \E g \in Gens : RetryFires(i, g)
        \/ \E r \in Reasons : Closed(i, r)
        \/ \E c \in pending[i] : Returns(i, c) \/ Fails(i, c)
    \/ Expire

Spec == Init /\ [][Next]_vars
\* Calls return or fail, timers fire, and the row of a dead process runs out.
FairSpec ==
    /\ Spec
    /\ WF_vars(Expire /\ proc[lease.owner] = "down")
    /\ \A i \in Instances :
        /\ WF_vars(RenewTick(i))
        /\ WF_vars(\E g \in Gens : RetryFires(i, g))
        /\ WF_vars(\E c \in pending[i] : Returns(i, c))

-----------------------------------------------------------------------------
\* Two processes have a current, open socket only if the row of one of them ran
\* out first, or one of them had begun an attempt beside another statement of
\* the session (beginAttempt, acquire, release, renew and loseLease together).
OneOwner ==
    \A i, j \in Instances : i # j /\ Live(i) /\ Live(j) =>
        \E k \in {i, j} : k \in lapsed \cup overlapped

\* "At most one socket generation owns a session": no exception
OneSocketPerSession == \A i, j \in Instances : Live(i) /\ Live(j) => i = j

\* After logoutSession or deleteSession no attempt, reconnect or retry that was
\* under way gives the session a current socket, until a user asks for one.  (A
\* logout during a refreshQr is left out: the refresh starts a socket after it.)
StoppedStaysStopped == \A i \in stopped : ~Live(i)

\* A process whose row went to another one closes its socket: the renewal that
\* updates no row calls loseLease.
LostLeaseIsNoticed ==
    \A i \in Instances :
        (Live(i) /\ lease.owner # i /\ i \notin overlapped)
            ~> (~Live(i) \/ lease.owner = i \/ i \in overlapped)

\* A process that waits for the lease takes over when the others are gone, also
\* when its next start fails: the retry looks for UNAVAILABLE and is_active.  It
\* does not find them when a superseded attempt that is told to wait overwrote the
\* status, when a refreshQr did and then failed, or when the provider had closed
\* the session and a refreshQr, which leaves is_active alone, started it again.
Standby(i) == Managed(i) /\ session[i].gen \in session[i].retries
              /\ \A j \in Instances \ {i} : proc[j] # "up"
Retried(i) == session[i].active /\ i \notin overlapped /\ happened["register"] = 0
TakeoverAfterCrash ==
    \A i \in Instances : (Standby(i) /\ Retried(i))
        ~> (lease.owner = i \/ ~Managed(i) \/ ~Retried(i)
            \/ \E j \in Instances \ {i} : proc[j] = "up")
=============================================================================
