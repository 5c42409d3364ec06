--------------------------- MODULE TrustExchange ---------------------------
(***************************************************************************)
(* How a Node worker gets, renews and loses its authenticated session: the  *)
(* WorkerTrustLifecycle that serializes the callers and retries, the        *)
(* four-packet exchange it runs, and the checks every packet of the         *)
(* scheduler passes before its token is believed.                           *)
(*                                                                          *)
(* The scheduler is not part of the repository: it is what the code and the *)
(* protocol chapter on worker trust expect of it. Between the two, answers  *)
(* are lost, late, repeated, given to the wrong exchange, or wrong in one   *)
(* field. The two clocks differ by a constant.                              *)
(*                                                                          *)
(* As in NodeAgent, a step is what an async function does from one await to *)
(* the next, and the event loop takes the network's and the timers' events  *)
(* when no step is ready that waits for neither, which is Quiet. A closed   *)
(* lifecycle reads nothing any more, so what would happen then is left out. *)
(***************************************************************************)
EXTENDS Integers, Sequences

CONSTANTS
    Modes,         \* the worker-trust modes a lifecycle is built with
    Offsets,       \* what the scheduler's clock may be ahead of the worker's
    Skew,          \* WORKER_HANDSHAKE_MAX_SKEW_MS
    MaxLifetime,   \* WORKER_HANDSHAKE_MAX_LIFETIME_MS, of a challenge
    TokenLives,    \* the lifetimes a scheduler gives its sessions
    Retries,       \* settings.retries
    MaxExchanges,  \* bound on the exchanges: the calls that could need more are left out
    MaxFaults,     \* bound on rejections, flawed answers and answers gone astray
    MaxTime        \* bound on the worker's clock

ASSUME ConstantsAssumption ==
    /\ Modes \subseteq {"warn", "enforce"}
    /\ Offsets \subseteq Int
    /\ Skew \in Nat
    /\ MaxLifetime \in 1..Skew
    /\ TokenLives \subseteq Nat \ {0}
    /\ Retries \in Nat \ {0}
    /\ MaxExchanges \in Nat
    /\ MaxFaults \in Nat
    /\ MaxTime \in Nat

VARIABLES
    mode,     \* settings.mode
    offset,   \* scheduler's clock minus worker's
    now,      \* the worker's clock
    current,  \* WorkerTrustLifecycle.current
    last,     \* history: the last token installed, 0 before the first
    closed,   \* WorkerTrustLifecycle.closed
    queue,    \* callers of runSerialized, the head being served
    serving,  \* where exchangeWithRetries is with the head
    attempt,  \* its loop counter
    asked,    \* exchanges begun: the last one's request id, trace id and nonce
    exch,     \* the exchanges by that number, while somebody runs them
    inbox,    \* the worker's packets the scheduler has not answered
    sent,     \* the scheduler's packets the worker has not read
    granted,  \* the sessions the scheduler granted, by token; the last is in force
    faults    \* faults that may still happen

lifecycle == <<current, last, closed, queue, serving, attempt>>
exchanges == <<asked, exch>>
network == <<inbox, sent, faults>>
vars == <<mode, offset, now, lifecycle, exchanges, network, granted>>

Purpose == {"issue", "renew"}
Exchange == 1..MaxExchanges
NoSession == [token |-> 0, expires |-> 0]
NoChallenge == [request |-> 0, who |-> "self", purpose |-> "issue", issued |-> 0, expires |-> 0]
Unasked == [pc |-> "none", purpose |-> "issue", token |-> 0, at |-> 0,
            challenge |-> NoChallenge, session |-> NoSession]

Session == [token : Nat, expires : Int]
Challenge == [request : Nat, who : {"self", "other"}, purpose : Purpose,
              issued : Int, expires : Int]
Letter == [kind : {"request", "authenticate"}, challenge : Challenge, token : Nat]
Packet == [kind : {"challenge", "result"}, from : {"pinned", "other"}, signed : BOOLEAN,
           at : Int, challenge : Challenge, accepted : BOOLEAN, issued : Int,
           token : Nat, expires : Int]
ExchangeState == [pc : {"none", "challenge", "result", "granted", "timedout", "failed"},
                  purpose : Purpose, token : Nat, at : Int, challenge : Challenge,
                  session : Session]

LifecycleTypes ==
    /\ mode \in Modes
    /\ offset \in Offsets
    /\ now \in 0..MaxTime
    /\ current \in Session
    /\ last \in Nat
    /\ closed \in BOOLEAN
    /\ queue \in Seq([purpose : Purpose, token : Nat])
    /\ serving \in {"none", "exchange", "sleep"}
    /\ attempt \in 0..(Retries - 1)

ExchangeTypes ==
    /\ asked \in 0..MaxExchanges
    /\ exch \in [Exchange -> ExchangeState]

NetworkTypes ==
    /\ inbox \subseteq Letter
    /\ sent \subseteq Packet
    /\ granted \in Seq([request : Nat, purpose : Purpose, expires : Int])
    /\ faults \in 0..MaxFaults

TypeOK == LifecycleTypes /\ ExchangeTypes /\ NetworkTypes

Init ==
    /\ mode \in Modes
    /\ offset \in Offsets
    /\ now = 0
    /\ current = NoSession /\ last = 0 /\ closed = FALSE
    /\ queue = <<>> /\ serving = "none" /\ attempt = 0
    /\ asked = 0
    /\ exch = [i \in Exchange |-> Unasked]
    /\ inbox = {} /\ sent = {} /\ granted = <<>> /\ faults = MaxFaults
-----------------------------------------------------------------------------
(* worker-trust-packet.ts: what makes a packet of the scheduler well formed. *)

validateChallenge(c) == c.expires > c.issued /\ c.expires - c.issued <= MaxLifetime

validateResult(p) ==
    /\ validateChallenge(p.challenge)
    /\ IF p.accepted THEN p.token # 0 /\ p.expires > p.issued
       ELSE p.token = 0 /\ p.expires = 0

validateWorkerTrustPacket(p) ==
    IF p.kind = "challenge" THEN validateChallenge(p.challenge) /\ p.token = 0
    ELSE validateResult(p)

(* Fault: one tick more than the allowed skew passes. *)
requireFreshLoosely(at) == at - now <= Skew + 1 /\ now - at <= Skew + 1

(* Fault: a timestamp exactly at the allowed skew is refused. *)
requireFreshStrictly(at) == at - now < Skew /\ now - at < Skew

requireFreshTimestamp(at) == at - now <= Skew /\ now - at <= Skew

(* Fault: the challenge's expiry is not looked at. *)
requireIssuedChallenge(c) == requireFreshTimestamp(c.issued)

requireLiveChallenge(c) == requireFreshTimestamp(c.issued) /\ c.expires > now

verifySchedulerPacket(p) ==
    /\ validateWorkerTrustPacket(p)
    /\ p.from = "pinned"
    /\ requireFreshTimestamp(p.at)
    /\ p.signed

(* The challenge repeats the request of exchange i and names this worker's    *)
(* agent and tenant.                                                          *)
correlateChallenge(i, c) ==
    /\ c.request = i
    /\ c.purpose = exch[i].purpose
    /\ c.who = "self"

verifyChallenge(i, p) ==
    /\ p.kind = "challenge"
    /\ requireFreshTimestamp(exch[i].at)
    /\ verifySchedulerPacket(p)
    /\ correlateChallenge(i, p.challenge)
    /\ requireLiveChallenge(p.challenge)

(* Fault: any challenge of this worker will do. *)
requireAnyChallenge(i, c) == c.who = "self"

requireSameChallenge(i, c) == c = exch[i].challenge

(* Fault: a renewal may return the token it was shown. *)
verifyResultUnrotated(i, p) ==
    /\ p.kind = "result"
    /\ verifySchedulerPacket(p)
    /\ requireSameChallenge(i, p.challenge)
    /\ requireLiveChallenge(p.challenge)
    /\ requireFreshTimestamp(p.issued)
    /\ p.accepted
    /\ p.expires > now

verifyResult(i, p) ==
    /\ p.kind = "result"
    /\ verifySchedulerPacket(p)
    /\ requireSameChallenge(i, p.challenge)
    /\ requireLiveChallenge(p.challenge)
    /\ requireFreshTimestamp(p.issued)
    /\ p.accepted
    /\ p.expires > now
    /\ exch[i].purpose = "renew" => p.token # exch[i].token
-----------------------------------------------------------------------------
(* The steps of exchange() from one await to the next.                       *)

Settled == {"granted", "timedout", "failed"}

Quiet ==
    /\ ~closed
    /\ ~(serving = "none" /\ queue # <<>>)
    /\ ~(serving = "exchange" /\ exch[asked].pc \in Settled)

Set(i, pc) == [exch EXCEPT ![i].pc = pc]

Fault == faults > 0 /\ faults' = faults - 1

(* Exchange i reads p, which is gone; one that the network or the scheduler    *)
(* has changed is a fault.                                                     *)
Read(p) ==
    IF p \in sent THEN sent' = sent \ {p} /\ UNCHANGED faults ELSE Fault /\ UNCHANGED sent

(* The answer to the challenge request: verifyChallenge, buildAuthenticate and *)
(* the second request. What the checks refuse ends the exchange.               *)
OnChallenge(i, p) ==
    /\ Quiet /\ exch[i].pc = "challenge"
    /\ Read(p)
    /\ IF verifyChallenge(i, p)
       THEN /\ exch' = [exch EXCEPT ![i].pc = "result", ![i].challenge = p.challenge]
            /\ inbox' = inbox \cup {[kind |-> "authenticate", challenge |-> p.challenge,
                                     token |-> exch[i].token]}
       ELSE exch' = Set(i, "failed") /\ UNCHANGED inbox
    /\ UNCHANGED <<mode, offset, now, lifecycle, asked, granted>>

OnResult(i, p) ==
    /\ Quiet /\ exch[i].pc = "result"
    /\ Read(p)
    /\ exch' = IF verifyResult(i, p)
               THEN [exch EXCEPT ![i].pc = "granted",
                                 ![i].session = [token |-> p.token, expires |-> p.expires]]
               ELSE Set(i, "failed")
    /\ UNCHANGED <<mode, offset, now, lifecycle, asked, inbox, granted>>

(* What exchange i and the scheduler still had to say to each other is lost... *)
Lost(i) ==
    /\ inbox' = {m \in inbox : m.challenge.request # i}
    /\ sent' = {p \in sent : p.challenge.request # i}

(* ...or, a fault, comes too late. *)
LostOrLate(i) ==
    \/ Lost(i) /\ UNCHANGED faults
    \/ Fault /\ UNCHANGED <<inbox, sent>>

(* Fault: the second request has no timeout. *)
FirstRequestFails(i) ==
    /\ Quiet /\ exch[i].pc = "challenge"
    /\ exch' = Set(i, "timedout")
    /\ LostOrLate(i)
    /\ UNCHANGED <<mode, offset, now, lifecycle, asked, granted>>

(* request() throws: one of OPERATIONAL_NATS_CODES (a timeout, no responders,  *)
(* a closed connection), or an error of another kind, a fault, which is        *)
(* rethrown as it is and ends the exchange like a refused packet.              *)
RequestFails(i) ==
    /\ Quiet /\ exch[i].pc \in {"challenge", "result"}
    /\ \/ exch' = Set(i, "timedout") /\ LostOrLate(i)
       \/ exch' = Set(i, "failed") /\ Lost(i) /\ Fault
    /\ UNCHANGED <<mode, offset, now, lifecycle, asked, granted>>
-----------------------------------------------------------------------------
(* WorkerTrustLifecycle                                                      *)

(* activeSession: an expired session is forgotten by whoever looks. *)
activeSession == IF current.expires > now THEN current ELSE NoSession

(* handleFailure: what is left of the session. *)
AfterFailure(renewal, operational) ==
    IF renewal /\ (mode = "enforce" \/ ~operational) THEN NoSession ELSE activeSession

(* Every caller that waits may still need all its attempts. *)
Room == asked + Retries * (Len(queue) + 1) <= MaxExchanges

(* RuntimeWorkerTrust.authenticate calls it on a new lifecycle, once. *)
authenticate ==
    /\ Room /\ asked = 0 /\ queue = <<>> /\ ~closed
    /\ queue' = Append(queue, [purpose |-> "issue", token |-> 0])
    /\ UNCHANGED <<mode, offset, now, current, last, closed, serving, attempt, exchanges,
                   network, granted>>

reauthenticate ==
    /\ Room /\ asked > 0 /\ ~closed
    /\ current' = NoSession
    /\ queue' = Append(queue, [purpose |-> "issue", token |-> 0])
    /\ UNCHANGED <<mode, offset, now, last, closed, serving, attempt, exchanges, network, granted>>

(* The token is read here and shown when the caller's turn has come. *)
renew ==
    /\ Room /\ asked > 0
    /\ LET token == activeSession.token IN
       IF token = 0
       THEN current' = NoSession /\ UNCHANGED queue
       ELSE /\ current' = activeSession
            /\ queue' = Append(queue, [purpose |-> "renew", token |-> token])
    /\ UNCHANGED <<mode, offset, now, last, closed, serving, attempt, exchanges, network, granted>>

(* Nothing under way is read any more. *)
close ==
    /\ ~closed
    /\ closed' = TRUE
    /\ current' = NoSession
    /\ inbox' = {} /\ sent' = {}
    /\ UNCHANGED <<mode, offset, now, last, queue, serving, attempt, exchanges, granted, faults>>

(* client.exchange() up to its first await: buildChallengeRequest. *)
StartExchange ==
    /\ asked' = asked + 1
    /\ exch' = [exch EXCEPT ![asked + 1] =
                   [Unasked EXCEPT !.pc = "challenge", !.purpose = Head(queue).purpose,
                                   !.token = Head(queue).token, !.at = now]]
    /\ inbox' = inbox \cup {[kind |-> "request", token |-> 0,
                             challenge |-> [NoChallenge EXCEPT !.request = asked + 1,
                                                               !.purpose = Head(queue).purpose]]}
    /\ serving' = "exchange"
    /\ UNCHANGED <<sent, faults>>

(* The caller has its answer. *)
Answered == queue' = Tail(queue) /\ serving' = "none" /\ attempt' = 0

(* Fault: the head's token is not compared with the session in force. *)
ServeUnchecked ==
    /\ serving = "none" /\ queue # <<>>
    /\ current' = activeSession
    /\ StartExchange /\ UNCHANGED <<queue, attempt>>
    /\ UNCHANGED <<mode, offset, now, last, closed, granted>>

(* The head's turn: a renewal of a token that is no longer the one in force   *)
(* succeeds when another took its place, and fails when none did.             *)
Serve ==
    /\ serving = "none" /\ queue # <<>>
    /\ current' = activeSession
    /\ IF Head(queue).purpose = "renew" /\ activeSession.token # Head(queue).token
       THEN Answered /\ UNCHANGED <<exchanges, network>>
       ELSE StartExchange /\ UNCHANGED <<queue, attempt>>
    /\ UNCHANGED <<mode, offset, now, last, closed, granted>>

Installed ==
    /\ serving = "exchange" /\ ~closed
    /\ exch[asked].pc = "granted"
    /\ current' = exch[asked].session
    /\ last' = exch[asked].session.token
    /\ Answered
    /\ exch' = [exch EXCEPT ![asked] = Unasked]
    /\ UNCHANGED <<mode, offset, now, closed, asked, network, granted>>

(* Fault: the number of attempts is not looked at. *)
FailedIsRetried ==
    /\ serving = "exchange" /\ ~closed
    /\ exch[asked].pc \in {"timedout", "failed"}
    /\ IF exch[asked].pc = "timedout"
       THEN serving' = "sleep" /\ UNCHANGED <<current, queue, attempt>>
       ELSE /\ current' = AfterFailure(Head(queue).purpose = "renew", FALSE)
            /\ Answered
    /\ exch' = [exch EXCEPT ![asked] = Unasked]
    /\ UNCHANGED <<mode, offset, now, last, closed, asked, network, granted>>

(* Only what the transport did is tried again. *)
Failed ==
    /\ serving = "exchange" /\ ~closed
    /\ exch[asked].pc \in {"timedout", "failed"}
    /\ LET operational == exch[asked].pc = "timedout" IN
       IF operational /\ attempt + 1 < Retries
       THEN serving' = "sleep" /\ UNCHANGED <<current, queue, attempt>>
       ELSE /\ current' = AfterFailure(Head(queue).purpose = "renew", operational)
            /\ Answered
    /\ exch' = [exch EXCEPT ![asked] = Unasked]
    /\ UNCHANGED <<mode, offset, now, last, closed, asked, network, granted>>

(* The sleep is over, or close() ended it: the next attempt begins either way. *)
Retry ==
    /\ serving = "sleep"
    /\ attempt' = attempt + 1
    /\ StartExchange
    /\ UNCHANGED <<mode, offset, now, current, last, closed, queue, granted>>

(* closeSignal wins the race. The exchange goes on, but nobody reads what it   *)
(* returns, and it is not followed any further.                                *)
Abandoned ==
    /\ serving = "exchange" /\ closed
    /\ Answered
    /\ exch' = [exch EXCEPT ![asked] = Unasked]
    /\ Lost(asked)
    /\ UNCHANGED <<mode, offset, now, current, last, closed, asked, granted, faults>>
-----------------------------------------------------------------------------
(* The scheduler and the network.                                            *)

SchedulerNow == now + offset

SendChallenge(m, life) ==
    /\ Quiet /\ m.kind = "request"
    /\ inbox' = inbox \ {m}
    /\ LET c == [m.challenge EXCEPT !.issued = SchedulerNow, !.expires = SchedulerNow + life]
       IN sent' = sent \cup {[kind |-> "challenge", from |-> "pinned", signed |-> TRUE,
                              at |-> SchedulerNow, challenge |-> c, accepted |-> FALSE,
                              issued |-> SchedulerNow, token |-> 0, expires |-> 0]}
    /\ UNCHANGED <<mode, offset, now, lifecycle, exchanges, granted, faults>>

Result(c, accepted, token, expires) ==
    [kind |-> "result", from |-> "pinned", signed |-> TRUE, at |-> SchedulerNow,
     challenge |-> c, accepted |-> accepted, issued |-> SchedulerNow,
     token |-> token, expires |-> expires]

(* The session in force and unexpired is the one token shows. *)
InForce(token) ==
    /\ granted # <<>>
    /\ token = Len(granted)
    /\ granted[token].expires > SchedulerNow

(* A live challenge is consumed; a renewal supersedes the session it shows. *)
Accept(m, life) ==
    /\ Quiet /\ m.kind = "authenticate"
    /\ m.challenge.expires > SchedulerNow
    /\ m.challenge.purpose = "renew" => InForce(m.token)
    /\ inbox' = inbox \ {m}
    /\ granted' = Append(granted, [request |-> m.challenge.request,
                                   purpose |-> m.challenge.purpose,
                                   expires |-> SchedulerNow + life])
    /\ sent' = sent \cup {Result(m.challenge, TRUE, Len(granted) + 1, SchedulerNow + life)}
    /\ UNCHANGED <<mode, offset, now, lifecycle, exchanges, faults>>

Reject(m) ==
    /\ Quiet /\ m.kind = "authenticate"
    /\ Fault
    /\ inbox' = inbox \ {m}
    /\ sent' = sent \cup {Result(m.challenge, FALSE, 0, 0)}
    /\ UNCHANGED <<mode, offset, now, lifecycle, exchanges, granted>>

(* A packet that is wrong in one field. *)
Flawed(i, p) ==
    {[p EXCEPT !.from = "other"],
     [p EXCEPT !.signed = FALSE],
     [p EXCEPT !.challenge.who = "other"],
     [p EXCEPT !.challenge.expires = p.challenge.issued + MaxLifetime + 1],
     [p EXCEPT !.token = exch[i].token]}

(* Any packet on its way to the worker, or a flawed one, reaches exchange i. *)
Delivered(i) == UNION {{p} \cup Flawed(i, p) : p \in sent}

Tick ==
    /\ Quiet /\ now < MaxTime
    /\ now' = now + 1
    /\ UNCHANGED <<mode, offset, lifecycle, exchanges, network, granted>>

Next ==
    \/ authenticate
    \/ reauthenticate
    \/ renew
    \/ close
    \/ Serve
    \/ Installed
    \/ Failed
    \/ Retry
    \/ Abandoned
    \/ Tick
    \/ \E i \in 1..asked : RequestFails(i)
    \/ \E i \in 1..asked : \E p \in Delivered(i) : OnChallenge(i, p)
    \/ \E i \in 1..asked : \E p \in Delivered(i) : OnResult(i, p)
    \/ \E m \in inbox : \E life \in 1..MaxLifetime : SendChallenge(m, life)
    \/ \E m \in inbox : \E life \in TokenLives : Accept(m, life)
    \/ \E m \in inbox : Reject(m)

Spec == Init /\ [][Next]_vars

(* The event loop runs what is ready, and request() and sleep() have timers.  *)
(* Nothing is assumed of the scheduler, the network or the callers.           *)
Fairness ==
    /\ WF_vars(Serve \/ Installed \/ Failed \/ Retry \/ Abandoned)
    /\ \A i \in Exchange : WF_vars(RequestFails(i))

FairSpec == Spec /\ Fairness
-----------------------------------------------------------------------------
(* verifyResult believes only the scheduler's answer to this very exchange:   *)
(* the session it returns is the one the scheduler granted for the challenge  *)
(* that this exchange's own nonce got and its authenticate packet showed,     *)
(* whatever late, repeated or foreign answers arrive; and the session in      *)
(* force is one an exchange returned.                                         *)
GrantedTo(session, i) ==
    /\ session.token \in 1..Len(granted)
    /\ granted[session.token].expires = session.expires
    /\ granted[session.token].request = i
    /\ granted[session.token].purpose = exch[i].purpose

AnswerIsOwn ==
    /\ \A i \in Exchange : exch[i].pc = "granted" => GrantedTo(exch[i].session, i)
    /\ current # NoSession =>
          /\ current.token \in 1..Len(granted)
          /\ current.expires = granted[current.token].expires

(* exchangeWithRetries never shows a token that has been replaced: whatever   *)
(* was queued, retried or dropped meanwhile, a running renewal carries the    *)
(* last token that was installed.                                             *)
RenewsTheLatest ==
    \A i \in Exchange :
        exch[i].pc \in {"challenge", "result"} /\ exch[i].purpose = "renew" =>
            exch[i].token = last

(* A lifecycle never goes back to a token: what it installs is newer than     *)
(* everything it installed before, though the scheduler may still be          *)
(* answering exchanges that were given up, or return the token it was shown.  *)
NeverGoesBack ==
    [][current' # current /\ current' # NoSession => current'.token > last]_vars

(* The freshness checks on both sides of the exchange bound the clocks: a     *)
(* worker with a session is less than a challenge lifetime ahead of its       *)
(* scheduler, and less than that and the allowed skew behind it, however slow *)
(* the packets were that made the timestamps look better than they are.       *)
ClocksAgree == current # NoSession => -MaxLifetime < offset /\ offset < Skew + MaxLifetime

(* An exchange cannot be finished long after it was begun: from the request's *)
(* created_at to the moment a result is believed less than the skew, one      *)
(* challenge lifetime and what the scheduler's clock is ahead by pass.        *)
ExchangeIsShort ==
    [][\A i \in Exchange : exch[i].pc = "result" /\ exch'[i].pc = "granted" =>
          now < exch[i].at + offset + Skew + MaxLifetime]_vars

(* The checks refuse no honest scheduler: with equal clocks, the answer to    *)
(* the exchange's own packet is believed for as long as the challenge lives,  *)
(* the request is within the skew and the session has not expired.            *)
HonestAnswerIsTaken ==
    offset = 0 =>
        \A i \in 1..asked : \A p \in sent :
            p.challenge.request = i /\ p.challenge.expires > now =>
                /\ exch[i].pc = "challenge" /\ p.kind = "challenge" /\ now - exch[i].at <= Skew
                      => verifyChallenge(i, p)
                /\ exch[i].pc = "result" /\ p.accepted /\ p.expires > now
                      => verifyResult(i, p)

(* Every call of authenticate, reauthenticate and renew is answered: timeouts *)
(* and retries are finite, and close() leaves no caller waiting.              *)
CallersAreAnswered == queue # <<>> ~> queue = <<>>
=============================================================================
