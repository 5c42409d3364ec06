------------------------ MODULE TrustExchangeProofs ------------------------
(***************************************************************************)
(* Proofs about TrustExchange. The inductive invariant says what the queue, *)
(* the session, the running exchange and every packet on its way owe each   *)
(* other; the properties the run checks follow from it.                     *)
(***************************************************************************)
EXTENDS TrustExchange, TLAPS

Clocks == -MaxLifetime < offset /\ offset < Skew + MaxLifetime

(* The head is there while it is served, a renewal carries a token, the one   *)
(* being served carries the last token, and nobody runs out of attempts.      *)
QueueInv ==
    /\ serving # "none" => queue # <<>>
    /\ serving = "none" => attempt = 0
    /\ serving = "sleep" => attempt + 1 < Retries
    /\ serving = "exchange" => asked > 0
    /\ \A k \in 1..Len(queue) : queue[k].purpose = "renew" <=> queue[k].token # 0
    /\ serving # "none" /\ queue[1].purpose = "renew" => queue[1].token = last
    /\ asked + Retries * Len(queue) <=
          MaxExchanges + (IF serving = "none" THEN 0 ELSE attempt + 1)

(* The session in force is the last one installed, and one the scheduler      *)
(* granted.                                                                   *)
CurrentInv ==
    /\ last <= Len(granted)
    /\ current # NoSession =>
          /\ current.token = last
          /\ last > 0
          /\ current.expires = granted[last].expires
          /\ Clocks

(* Only the last exchange runs, and only while its caller waits for it.       *)
ExchangeOk(i) ==
    /\ exch[i].pc # "none" => i = asked /\ serving = "exchange"
    /\ exch[i].pc \in {"challenge", "result"} =>
          /\ exch[i].at <= now
          /\ exch[i].purpose = "renew" <=> exch[i].token # 0
          /\ exch[i].purpose = "renew" => exch[i].token = last
    /\ exch[i].pc = "result" =>
          /\ exch[i].challenge.request = i
          /\ exch[i].challenge.who = "self"
          /\ exch[i].challenge.purpose = exch[i].purpose
          /\ validateChallenge(exch[i].challenge)
          /\ exch[i].challenge.issued <= exch[i].at + Skew + offset
          /\ -MaxLifetime < offset
    /\ exch[i].pc = "granted" =>
          GrantedTo(exch[i].session, i) /\ exch[i].session.token > last /\ Clocks

ExchangeInv == \A i \in Exchange : ExchangeOk(i)

(* A packet of the worker that waits for the scheduler.                       *)
LetterOk(m) ==
    LET e == exch[m.challenge.request] IN
    /\ m.challenge.request \in 1..asked
    /\ m.challenge.who = "self"
    /\ m.kind = "request" /\ e.pc = "challenge" => m.challenge.purpose = e.purpose
    /\ m.kind = "authenticate" =>
          /\ validateChallenge(m.challenge)
          /\ m.challenge.issued <= now + offset
          /\ m.challenge.issued - now <= Skew
          /\ e.pc # "challenge"
          /\ e.pc = "result" => m.challenge = e.challenge

LetterInv == \A m \in inbox : LetterOk(m)

(* A packet of the scheduler that waits for the worker.                       *)
PacketOk(p) ==
    LET e == exch[p.challenge.request] IN
    /\ p.challenge.request \in 1..asked
    /\ p.challenge.who = "self" /\ p.from = "pinned" /\ p.signed
    /\ validateChallenge(p.challenge)
    /\ p.challenge.issued <= p.at /\ p.at = p.issued /\ p.at <= now + offset
    /\ p.kind = "challenge" =>
          /\ ~p.accepted /\ p.token = 0
          /\ e.pc = "challenge" => p.challenge.purpose = e.purpose
    /\ p.kind = "result" =>
          /\ e.pc # "challenge"
          /\ e.pc = "result" => p.challenge = e.challenge
          /\ ~p.accepted => p.token = 0
    /\ p.accepted =>
          /\ p.token \in 1..Len(granted)
          /\ granted[p.token] = [request |-> p.challenge.request,
                                 purpose |-> p.challenge.purpose, expires |-> p.expires]
          /\ p.expires > p.issued
          /\ e.pc = "result" => p.token > last
          /\ offset < Skew + MaxLifetime

PacketInv == \A p \in sent : PacketOk(p)

IInv ==
    /\ TypeOK
    /\ QueueInv
    /\ CurrentInv
    /\ ExchangeInv
    /\ LetterInv
    /\ PacketInv
-----------------------------------------------------------------------------
(* Every initial state satisfies the invariant.                               *)
LEMMA InitIInv == Init => IInv
<1> SUFFICES ASSUME Init PROVE IInv
  OBVIOUS
<1>1. TypeOK
  <2>1. Unasked \in ExchangeState /\ NoSession \in Session
    BY DEF Unasked, ExchangeState, NoSession, Session, NoChallenge, Challenge, Purpose
  <2>2. LifecycleTypes
    <3>1. 0 \in 0..MaxTime /\ 0 \in 0..(Retries - 1)
      BY ConstantsAssumption
    <3>2. closed \in BOOLEAN /\ mode \in Modes
      BY Zenon DEF Init
    <3>3. current \in Session
      BY <2>1 DEF Init
    <3>4. queue \in Seq([purpose : Purpose, token : Nat])
      BY DEF Init
    <3> QED
      BY <3>1, <3>2, <3>3, <3>4 DEF Init, LifecycleTypes
  <2>3. ExchangeTypes
    BY <2>1, ConstantsAssumption DEF Init, ExchangeTypes
  <2>4. NetworkTypes
    BY ConstantsAssumption DEF Init, NetworkTypes
  <2> QED
    BY <2>2, <2>3, <2>4 DEF TypeOK
<1>2. QueueInv
  BY ConstantsAssumption DEF Init, QueueInv
<1>3. CurrentInv
  BY DEF Init, CurrentInv
<1>4. ExchangeInv
  BY DEF Init, ExchangeInv, ExchangeOk, Unasked
<1>5. LetterInv /\ PacketInv
  BY DEF Init, LetterInv, LetterOk, PacketInv, PacketOk
<1> QED
  BY <1>1, <1>2, <1>3, <1>4, <1>5 DEF IInv

(* A call joins the queue only when there is room for all its attempts.       *)
LEMMA Reserve ==
    ASSUME NEW n \in Nat
    PROVE  Retries * (n + 1) = Retries * n + Retries /\ Retries * n \in Nat
  BY ConstantsAssumption

(* A caller that waits has all its attempts before it.                        *)
LEMMA ReserveOne ==
    ASSUME NEW n \in Nat, n # 0
    PROVE  Retries <= Retries * n /\ Retries * n \in Nat
<1>1. PICK k \in Nat : n = k + 1
  <2>1. n - 1 \in Nat /\ n = (n - 1) + 1
    OBVIOUS
  <2> QED
    BY <2>1
<1>2. Retries * n = Retries * k + Retries /\ Retries * k \in Nat
  BY <1>1, Reserve
<1> QED
  BY <1>2, ConstantsAssumption

(* What the parts of the invariant depend on.                                 *)
LEMMA CurrentFrame ==
    ASSUME CurrentInv, current' \in {current, NoSession}, UNCHANGED <<last, granted, offset>>
    PROVE  CurrentInv'
  BY DEF CurrentInv, Clocks, NoSession

(* So does what is said of the exchanges, but not on the session in force.    *)
LEMMA ExchangeFrame ==
    ASSUME ExchangeInv, UNCHANGED <<exch, asked, serving, now, last, offset, granted>>
    PROVE  ExchangeInv'
  BY DEF ExchangeInv, ExchangeOk, Clocks, validateChallenge, GrantedTo

(* What is said of the worker's packets depends on the exchanges and the time. *)
LEMMA LetterFrame ==
    ASSUME LetterInv, UNCHANGED <<inbox, exch, asked, now, offset>>
    PROVE  LetterInv'
  BY DEF LetterInv, LetterOk, validateChallenge

(* What is said of the scheduler's packets depends on its grants besides.     *)
LEMMA PacketFrame ==
    ASSUME PacketInv, UNCHANGED <<sent, exch, asked, now, offset, last, granted>>
    PROVE  PacketInv'
  BY Zenon DEF PacketInv, PacketOk, validateChallenge

(* The head of runSerialized's queue, and what is behind it.                  *)
LEMMA HeadAndTail ==
    ASSUME NEW S, NEW q \in Seq(S), q # <<>>
    PROVE  /\ 1 \in 1..Len(q) /\ Len(q) \in Nat /\ Head(q) = q[1] /\ q[1] \in S
           /\ Tail(q) \in Seq(S) /\ Len(Tail(q)) = Len(q) - 1
           /\ \A k \in 1..Len(Tail(q)) : k + 1 \in 1..Len(q) /\ Tail(q)[k] = q[k + 1]
  OBVIOUS

(* activeSession returns the session in force or none.                        *)
LEMMA ActiveSession ==
    ASSUME current \in Session
    PROVE  activeSession \in {current, NoSession} /\ activeSession \in Session
  BY DEF activeSession, NoSession, Session

(* close() drops the session and what is under way.                           *)
LEMMA CloseStep == IInv /\ close => IInv'
<1> SUFFICES ASSUME IInv, close PROVE IInv'
  OBVIOUS
<1>1. LifecycleTypes'
  <2>1. current' \in Session /\ closed' \in BOOLEAN
    BY DEF close, NoSession, Session
  <2> QED
    BY <2>1 DEF close, IInv, TypeOK, LifecycleTypes
<1>2. TypeOK'
  BY <1>1 DEF close, IInv, TypeOK, ExchangeTypes, NetworkTypes, exchanges, network
<1>3. QueueInv'
  BY DEF close, IInv, QueueInv, exchanges
<1>4. CurrentInv'
  BY CurrentFrame DEF close, IInv
<1>5. ExchangeInv'
  BY ExchangeFrame DEF close, IInv, exchanges
<1>6. LetterInv' /\ PacketInv'
  BY DEF close, LetterInv, PacketInv
<1> QED
  BY <1>2, <1>3, <1>4, <1>5, <1>6 DEF IInv

(* The time may only make what the scheduler said older.                      *)
LEMMA TickStep == IInv /\ Tick => IInv'
<1> SUFFICES ASSUME IInv, Tick PROVE IInv'
  OBVIOUS
<1>1. now \in Nat /\ now' = now + 1 /\ offset \in Int /\ Skew \in Nat
  BY ConstantsAssumption DEF Tick, IInv, TypeOK, LifecycleTypes
<1>2. TypeOK'
  <2>1. now' \in 0..MaxTime
    BY ConstantsAssumption DEF Tick, IInv, TypeOK, LifecycleTypes
  <2> QED
    BY <2>1 DEF Tick, IInv, TypeOK, LifecycleTypes, ExchangeTypes, NetworkTypes, lifecycle,
                exchanges, network
<1>3. QueueInv'
  BY DEF Tick, IInv, QueueInv, exchanges, lifecycle
<1>4. CurrentInv'
  BY CurrentFrame DEF Tick, IInv, lifecycle
<1>5. ExchangeInv'
  <2>1. \A i \in Exchange : exch[i].at \in Int
    BY DEF IInv, TypeOK, ExchangeTypes, ExchangeState
  <2> QED
    BY <1>1, <2>1 DEF Tick, IInv, ExchangeInv, ExchangeOk, exchanges, lifecycle, Clocks,
                      validateChallenge, GrantedTo
<1>6. LetterInv'
  <2>1. \A m \in inbox : m.challenge.issued \in Int
    BY DEF IInv, TypeOK, NetworkTypes, Letter, Challenge
  <2> QED
    BY <1>1, <2>1 DEF Tick, IInv, LetterInv, LetterOk, exchanges, network, validateChallenge
<1>7. PacketInv'
  <2> SUFFICES ASSUME NEW p \in sent PROVE PacketOk(p)'
    BY DEF Tick, PacketInv, network
  <2>1. PacketOk(p) /\ p.at \in Int
    BY DEF IInv, PacketInv, TypeOK, NetworkTypes, Packet
  <2>2. p.at <= now' + offset'
    BY <1>1, <2>1 DEF Tick, PacketOk
  <2> QED
    BY <2>1, <2>2 DEF Tick, PacketOk, exchanges, lifecycle
<1> QED
  BY <1>2, <1>3, <1>4, <1>5, <1>6, <1>7 DEF IInv

(* A call appended behind the others: the head stays the head.                *)
LEMMA Queued ==
    ASSUME IInv, NEW c \in [purpose : Purpose, token : Nat], Room,
           c.purpose = "renew" <=> c.token # 0,
           queue' = Append(queue, c), UNCHANGED <<serving, attempt, asked, last>>
    PROVE  QueueInv' /\ queue' \in Seq([purpose : Purpose, token : Nat])
<1> DEFINE Call == [purpose : Purpose, token : Nat]
<1>1. queue \in Seq(Call) /\ asked \in Nat /\ attempt \in Nat
  BY ConstantsAssumption DEF IInv, TypeOK, LifecycleTypes, ExchangeTypes
<1>2. queue' \in Seq(Call) /\ Len(queue') = Len(queue) + 1 /\ queue' # <<>>
  BY <1>1
<1>3. \A k \in 1..Len(queue') :
          queue'[k] = IF k = Len(queue) + 1 THEN c ELSE queue[k]
  BY <1>1
<1>4. \A k \in 1..Len(queue') : queue'[k].purpose = "renew" <=> queue'[k].token # 0
  BY <1>1, <1>2, <1>3 DEF IInv, QueueInv
<1>5. serving' # "none" => queue'[1] = queue[1]
  BY <1>1, <1>2, <1>3 DEF IInv, QueueInv
<1>6. asked + Retries * Len(queue') <= MaxExchanges
  BY <1>2 DEF Room
<1>7. asked' + Retries * Len(queue') <=
          MaxExchanges + (IF serving' = "none" THEN 0 ELSE attempt' + 1)
  <2>1. Retries * Len(queue') \in Nat
    BY <1>1, <1>2, Reserve
  <2> QED
    BY <1>1, <1>6, <2>1, ConstantsAssumption
<1> QED
  BY <1>2, <1>4, <1>5, <1>7 DEF IInv, QueueInv

(* authenticate joins the queue without a token.                              *)
LEMMA AuthenticateStep == IInv /\ authenticate => IInv'
<1> SUFFICES ASSUME IInv, authenticate PROVE IInv'
  OBVIOUS
<1> DEFINE call == [purpose |-> "issue", token |-> 0]
<1>1. call \in [purpose : Purpose, token : Nat] /\ (call.purpose = "renew" <=> call.token # 0)
  BY DEF Purpose
<1>2. QueueInv' /\ queue' \in Seq([purpose : Purpose, token : Nat])
  BY <1>1, Queued DEF authenticate, exchanges
<1>3. TypeOK'
  BY <1>2 DEF authenticate, IInv, TypeOK, LifecycleTypes, ExchangeTypes, NetworkTypes,
              exchanges, network
<1>4. CurrentInv'
  BY CurrentFrame DEF authenticate, IInv
<1>5. ExchangeInv' /\ LetterInv' /\ PacketInv'
  BY ExchangeFrame, LetterFrame, PacketFrame DEF authenticate, IInv, exchanges, network
<1> QED
  BY <1>2, <1>3, <1>4, <1>5 DEF IInv

(* reauthenticate drops the session and joins the queue without a token.      *)
LEMMA ReauthenticateStep == IInv /\ reauthenticate => IInv'
<1> SUFFICES ASSUME IInv, reauthenticate PROVE IInv'
  OBVIOUS
<1> DEFINE call == [purpose |-> "issue", token |-> 0]
<1>1. call \in [purpose : Purpose, token : Nat] /\ (call.purpose = "renew" <=> call.token # 0)
  BY DEF Purpose
<1>2. QueueInv' /\ queue' \in Seq([purpose : Purpose, token : Nat])
  BY <1>1, Queued, Zenon DEF reauthenticate, exchanges
<1>3. current' \in Session
  BY DEF reauthenticate, NoSession, Session
<1>4. TypeOK'
  BY <1>2, <1>3 DEF reauthenticate, IInv, TypeOK, LifecycleTypes, ExchangeTypes,
                    NetworkTypes, exchanges, network
<1>5. CurrentInv'
  BY CurrentFrame DEF reauthenticate, IInv
<1>6. ExchangeInv' /\ LetterInv' /\ PacketInv'
  BY ExchangeFrame, LetterFrame, PacketFrame DEF reauthenticate, IInv, exchanges, network
<1> QED
  BY <1>2, <1>4, <1>5, <1>6 DEF IInv

(* renew joins the queue with the token it has just read.                     *)
LEMMA RenewStep == IInv /\ renew => IInv'
<1> SUFFICES ASSUME IInv, renew PROVE IInv'
  OBVIOUS
<1> DEFINE call == [purpose |-> "renew", token |-> activeSession.token]
<1>1. activeSession \in {current, NoSession} /\ activeSession \in Session
  BY ActiveSession DEF IInv, TypeOK, LifecycleTypes
<1>2. current' \in {current, NoSession} /\ current' \in Session
  BY <1>1 DEF renew, NoSession, Session
<1>3. QueueInv' /\ queue' \in Seq([purpose : Purpose, token : Nat])
  <2>1. CASE activeSession.token = 0
    <3>1. UNCHANGED <<queue, serving, attempt, asked, last>>
      BY <2>1 DEF renew, exchanges
    <3> QED
      BY <3>1 DEF IInv, QueueInv, TypeOK, LifecycleTypes
  <2>2. CASE activeSession.token # 0
    <3>1. /\ call \in [purpose : Purpose, token : Nat]
          /\ call.purpose = "renew" <=> call.token # 0
      BY <1>1, <2>2 DEF Purpose, Session
    <3>2. /\ queue' = Append(queue, call)
          /\ UNCHANGED <<serving, attempt, asked, last>>
          /\ Room
      BY <2>2 DEF renew, exchanges
    <3> HIDE DEF call
    <3> QED
      BY <3>1, <3>2, Queued, Zenon
  <2> QED
    BY <2>1, <2>2
<1>4. TypeOK'
  BY <1>2, <1>3 DEF renew, IInv, TypeOK, LifecycleTypes, ExchangeTypes, NetworkTypes,
                    exchanges, network
<1>5. CurrentInv'
  BY <1>2, CurrentFrame DEF renew, IInv
<1>6. ExchangeInv' /\ LetterInv' /\ PacketInv'
  BY ExchangeFrame, LetterFrame, PacketFrame DEF renew, IInv, exchanges, network
<1> QED
  BY <1>3, <1>4, <1>5, <1>6 DEF IInv

(* A new exchange begins when no other runs.                                  *)
LEMMA Started ==
    ASSUME IInv, StartExchange, serving # "exchange", queue # <<>>, asked + 1 <= MaxExchanges,
           queue[1].purpose = "renew" => queue[1].token = last,
           UNCHANGED <<mode, offset, now, last, queue, granted>>
    PROVE  ExchangeTypes' /\ NetworkTypes' /\ ExchangeInv' /\ LetterInv' /\ PacketInv'
<1> DEFINE e == [Unasked EXCEPT !.pc = "challenge", !.purpose = Head(queue).purpose,
                                !.token = Head(queue).token, !.at = now]
           c == [NoChallenge EXCEPT !.request = asked + 1, !.purpose = Head(queue).purpose]
           l == [kind |-> "request", token |-> 0, challenge |-> c]
<1>1. /\ Head(queue) \in [purpose : Purpose, token : Nat] /\ Head(queue) = queue[1]
      /\ Head(queue).purpose = "renew" <=> Head(queue).token # 0
      /\ asked \in Nat /\ now \in Int
  <2>1. queue \in Seq([purpose : Purpose, token : Nat]) /\ queue # <<>>
    BY DEF IInv, TypeOK, LifecycleTypes
  <2>2. /\ 1 \in 1..Len(queue) /\ Head(queue) = queue[1]
        /\ queue[1] \in [purpose : Purpose, token : Nat]
    BY <2>1, HeadAndTail, Zenon
  <2> QED
    BY <2>2, ConstantsAssumption DEF IInv, QueueInv, TypeOK, LifecycleTypes, ExchangeTypes
<1>2. e.pc = "challenge" /\ e.purpose = Head(queue).purpose /\ e.token = Head(queue).token
      /\ e.at = now /\ e \in ExchangeState
  <2>1. NoChallenge \in Challenge /\ NoSession \in Session
    BY DEF NoChallenge, NoSession, Challenge, Session, Purpose
  <2> QED
    BY <1>1, <2>1, Zenon DEF Unasked, ExchangeState
<1>3. c.request = asked + 1 /\ c.purpose = Head(queue).purpose /\ c.who = "self"
      /\ c \in Challenge
  <2>1. NoChallenge \in Challenge /\ asked + 1 \in Nat /\ Head(queue).purpose \in Purpose
    BY <1>1 DEF NoChallenge, Challenge, Purpose
  <2> QED
    BY <2>1, Zenon DEF NoChallenge, Challenge
<1>4. asked' = asked + 1 /\ exch' = [exch EXCEPT ![asked + 1] = e]
      /\ inbox' = inbox \cup {l} /\ serving' = "exchange" /\ UNCHANGED <<sent, faults>>
  BY DEF StartExchange
<1> HIDE DEF e, c
<1>5. asked + 1 \in Exchange /\ exch \in [Exchange -> ExchangeState]
  BY <1>1 DEF Exchange, IInv, TypeOK, ExchangeTypes
<1>6. exch'[asked + 1] = e /\ (\A i \in Exchange \ {asked + 1} : exch'[i] = exch[i])
  BY <1>4, <1>5
<1>7. \A i \in Exchange : exch[i].pc = "none"
  BY DEF IInv, ExchangeInv, ExchangeOk
<1>8. ExchangeTypes'
  <2>1. asked' \in 0..MaxExchanges
    BY <1>1, <1>4
  <2> QED
    BY <1>2, <1>4, <1>5, <2>1 DEF ExchangeTypes
<1>9. NetworkTypes'
  <2>1. l \in Letter
    BY <1>3 DEF Letter
  <2> QED
    BY <1>4, <2>1 DEF NetworkTypes, IInv, TypeOK
<1>10. ExchangeInv'
  BY <1>1, <1>2, <1>4, <1>6, <1>7 DEF ExchangeInv, ExchangeOk
<1>11. LetterInv'
  <2> SUFFICES ASSUME NEW m \in inbox' PROVE LetterOk(m)'
    BY DEF LetterInv
  <2>1. CASE m = l
    BY <1>1, <1>2, <1>3, <1>4, <1>6, <2>1 DEF LetterOk
  <2>2. CASE m \in inbox
    <3>1. LetterOk(m)
      BY <2>2 DEF IInv, LetterInv
    <3>2. m.challenge.request \in Exchange \ {asked + 1} /\ m.challenge.request \in 1..asked'
      <4>1. m.challenge.request \in 1..asked
        BY <3>1, ZenonT(60) DEF LetterOk
      <4> QED
        BY <1>1, <1>4, <4>1, ConstantsAssumption DEF Exchange
    <3> QED
      BY <1>4, <1>6, <3>1, <3>2 DEF LetterOk
  <2> QED
    BY <1>4, <2>1, <2>2
<1>12. PacketInv'
  <2> SUFFICES ASSUME NEW p \in sent PROVE PacketOk(p)'
    BY <1>4 DEF PacketInv
  <2>1. PacketOk(p)
    BY DEF IInv, PacketInv
  <2>2. p.challenge.request \in Exchange \ {asked + 1} /\ p.challenge.request \in 1..asked'
    <3>1. p.challenge.request \in 1..asked
      BY <2>1 DEF PacketOk
    <3> QED
      BY <1>1, <1>4, <3>1, ConstantsAssumption DEF Exchange
  <2> QED
    BY <1>4, <1>6, <2>1, <2>2 DEF PacketOk
<1> QED
  BY <1>8, <1>9, <1>10, <1>11, <1>12

(* The caller at the head leaves: the next one finds all its attempts free.   *)
LEMMA AnsweredCaller ==
    ASSUME IInv, Answered, queue # <<>>, UNCHANGED asked
    PROVE  /\ QueueInv'
           /\ queue' \in Seq([purpose : Purpose, token : Nat])
           /\ serving' \in {"none", "exchange", "sleep"} /\ attempt' \in 0..(Retries - 1)
<1> DEFINE Call == [purpose : Purpose, token : Nat]
<1>1. queue \in Seq(Call) /\ asked \in Nat /\ attempt \in 0..(Retries - 1)
  BY ConstantsAssumption DEF IInv, TypeOK, LifecycleTypes, ExchangeTypes
<1>2. queue' = Tail(queue) /\ serving' = "none" /\ attempt' = 0
  BY DEF Answered
<1> HIDE DEF Call
<1>3. /\ Len(queue) \in Nat /\ Len(queue') \in Nat
      /\ queue' \in Seq(Call) /\ Len(queue) = Len(queue') + 1
      /\ \A k \in 1..Len(queue') : k + 1 \in 1..Len(queue) /\ queue'[k] = queue[k + 1]
  BY <1>1, <1>2, HeadAndTail
<1>4. \A k \in 1..Len(queue') : queue'[k].purpose = "renew" <=> queue'[k].token # 0
  BY <1>3 DEF IInv, QueueInv
<1>5. asked' + Retries * Len(queue') <= MaxExchanges
  <2>1. Retries * Len(queue) = Retries * Len(queue') + Retries /\ Retries * Len(queue') \in Nat
    BY <1>3, Reserve
  <2>2. asked + Retries * Len(queue) <= MaxExchanges + Retries
    BY <1>1, <2>1, ConstantsAssumption DEF IInv, QueueInv
  <2> QED
    BY <1>1, <2>1, <2>2, ConstantsAssumption
<1>6. attempt' \in 0..(Retries - 1)
  BY <1>2, ConstantsAssumption
<1> QED
  BY <1>2, <1>3, <1>4, <1>5, <1>6, ConstantsAssumption DEF QueueInv, Call

(* The exchange that is over is forgotten, with some of its packets or none.  *)
LEMMA Forgotten ==
    ASSUME IInv, serving = "exchange", exch' = [exch EXCEPT ![asked] = Unasked],
           UNCHANGED <<asked, now, offset, granted>>, inbox' \subseteq inbox, sent' \subseteq sent
    PROVE  ExchangeTypes' /\ ExchangeInv' /\ LetterInv' /\ PacketInv'
<1>1. asked \in Exchange /\ exch \in [Exchange -> ExchangeState] /\ asked \in Nat
  BY ConstantsAssumption DEF IInv, QueueInv, TypeOK, ExchangeTypes, Exchange
<1>2. Unasked \in ExchangeState /\ Unasked.pc = "none"
  BY DEF Unasked, ExchangeState, NoChallenge, NoSession, Challenge, Session, Purpose
<1>3. \A i \in Exchange : exch'[i].pc = "none"
  <2>1. \A i \in Exchange : i # asked => exch[i].pc = "none"
    BY DEF IInv, ExchangeInv, ExchangeOk
  <2> QED
    BY <1>1, <1>2, <2>1
<1>4. 1..asked \subseteq Exchange
  BY <1>1, ConstantsAssumption DEF Exchange
<1>5. ExchangeTypes'
  BY <1>1, <1>2 DEF IInv, TypeOK, ExchangeTypes
<1>6. ExchangeInv'
  BY <1>3 DEF ExchangeInv, ExchangeOk
<1>7. LetterInv'
  <2> SUFFICES ASSUME NEW m \in inbox PROVE LetterOk(m)'
    BY DEF LetterInv
  <2>1. LetterOk(m)
    BY DEF IInv, LetterInv
  <2>2. exch'[m.challenge.request].pc = "none"
    BY <1>3, <1>4, <2>1 DEF LetterOk
  <2> QED
    BY <2>1, <2>2 DEF LetterOk
<1>8. PacketInv'
  <2> SUFFICES ASSUME NEW p \in sent PROVE PacketOk(p)'
    BY DEF PacketInv
  <2>1. PacketOk(p)
    BY DEF IInv, PacketInv
  <2>2. exch'[p.challenge.request].pc = "none"
    BY <1>3, <1>4, <2>1 DEF PacketOk
  <2> QED
    BY <2>1, <2>2 DEF PacketOk
<1> QED
  BY <1>5, <1>6, <1>7, <1>8

(* A retry is an exchange of its own, with the token of its caller.           *)
LEMMA RetryStep == IInv /\ Retry => IInv'
<1> SUFFICES ASSUME IInv, Retry PROVE IInv'
  OBVIOUS
<1>1. /\ asked \in Nat /\ attempt \in Nat /\ attempt + 1 < Retries
      /\ queue \in Seq([purpose : Purpose, token : Nat]) /\ queue # <<>>
  BY ConstantsAssumption DEF Retry, IInv, QueueInv, TypeOK, LifecycleTypes, ExchangeTypes
<1>2. asked + 1 <= MaxExchanges /\ asked + Retries * Len(queue) <= MaxExchanges + attempt + 1
  <2>1. Len(queue) \in Nat /\ Len(queue) # 0
    BY <1>1, HeadAndTail
  <2>2. Retries <= Retries * Len(queue) /\ Retries * Len(queue) \in Nat
    BY <2>1, ReserveOne
  <2>3. asked + Retries * Len(queue) <= MaxExchanges + (attempt + 1)
    BY DEF Retry, IInv, QueueInv
  <2> QED
    BY <1>1, <2>2, <2>3, ConstantsAssumption
<1>3. ExchangeTypes' /\ NetworkTypes' /\ ExchangeInv' /\ LetterInv' /\ PacketInv'
  BY <1>1, <1>2, Started DEF Retry, IInv, QueueInv
<1>4. LifecycleTypes'
  <2>1. attempt' \in 0..(Retries - 1)
    BY <1>1, ConstantsAssumption DEF Retry
  <2> QED
    BY <2>1 DEF Retry, StartExchange, IInv, TypeOK, LifecycleTypes
<1>5. QueueInv'
  <2>1. asked' + Retries * Len(queue') <= MaxExchanges + (attempt' + 1)
    <3>1. Retries * Len(queue) \in Nat
      BY <1>1, HeadAndTail, Reserve
    <3> QED
      BY <1>1, <1>2, <3>1, ConstantsAssumption, SMTT(60) DEF Retry, StartExchange
  <2>2. asked' > 0 /\ serving' = "exchange" /\ UNCHANGED <<queue, last>>
    BY <1>1 DEF Retry, StartExchange
  <2> QED
    BY <2>1, <2>2 DEF Retry, IInv, QueueInv
<1>6. CurrentInv'
  BY CurrentFrame DEF Retry, IInv
<1> QED
  BY <1>3, <1>4, <1>5, <1>6 DEF IInv, TypeOK

(* What is installed is what the exchange returned.                           *)
LEMMA InstalledStep == IInv /\ Installed => IInv'
<1> SUFFICES ASSUME IInv, Installed PROVE IInv'
  OBVIOUS
<1> DEFINE session == exch[asked].session
<1>1. asked \in Exchange /\ exch[asked] \in ExchangeState /\ queue # <<>>
  BY ConstantsAssumption DEF Installed, IInv, QueueInv, TypeOK, ExchangeTypes, Exchange
<1>2. GrantedTo(session, asked) /\ Clocks /\ session \in Session
  BY <1>1 DEF Installed, IInv, ExchangeInv, ExchangeOk, ExchangeState
<1>3. ExchangeTypes' /\ ExchangeInv' /\ LetterInv' /\ PacketInv'
  BY Forgotten DEF Installed, network
<1>4. /\ QueueInv' /\ queue' \in Seq([purpose : Purpose, token : Nat])
      /\ serving' \in {"none", "exchange", "sleep"} /\ attempt' \in 0..(Retries - 1)
  BY <1>1, AnsweredCaller DEF Installed
<1>5. TypeOK'
  <2>1. current' \in Session /\ last' \in Nat
    BY <1>2 DEF Installed, Session
  <2> QED
    BY <1>3, <1>4, <2>1 DEF Installed, IInv, TypeOK, LifecycleTypes, NetworkTypes, network
<1>6. CurrentInv'
  <2>1. last' \in 1..Len(granted') /\ current'.token = last'
        /\ current'.expires = granted'[last'].expires
    BY <1>2 DEF Installed, GrantedTo
  <2> QED
    BY <1>2, <2>1 DEF Installed, CurrentInv, Clocks
<1> QED
  BY <1>3, <1>4, <1>5, <1>6 DEF IInv

(* An exchange that close() overtook leaves nothing behind.                   *)
LEMMA AbandonedStep == IInv /\ Abandoned => IInv'
<1> SUFFICES ASSUME IInv, Abandoned PROVE IInv'
  OBVIOUS
<1>1. queue # <<>>
  BY DEF Abandoned, IInv, QueueInv
<1>0. inbox' \subseteq inbox /\ sent' \subseteq sent
  BY DEF Abandoned, Lost
<1>2. ExchangeTypes' /\ ExchangeInv' /\ LetterInv' /\ PacketInv'
  BY <1>0, Forgotten DEF Abandoned
<1>3. /\ QueueInv' /\ queue' \in Seq([purpose : Purpose, token : Nat])
      /\ serving' \in {"none", "exchange", "sleep"} /\ attempt' \in 0..(Retries - 1)
  BY <1>1, AnsweredCaller DEF Abandoned
<1>4. TypeOK'
  BY <1>0, <1>2, <1>3 DEF Abandoned, IInv, TypeOK, LifecycleTypes, NetworkTypes
<1>5. CurrentInv'
  BY CurrentFrame DEF Abandoned, IInv
<1> QED
  BY <1>2, <1>3, <1>4, <1>5 DEF IInv

(* A renewal is served only with the token in force.                          *)
LEMMA ServeStep == IInv /\ Serve => IInv'
<1> SUFFICES ASSUME IInv, Serve PROVE IInv'
  OBVIOUS
<1>1. activeSession \in {current, NoSession} /\ activeSession \in Session
  BY ActiveSession DEF IInv, TypeOK, LifecycleTypes
<1>2. /\ asked \in Nat /\ attempt = 0 /\ serving = "none" /\ queue # <<>>
      /\ queue \in Seq([purpose : Purpose, token : Nat])
      /\ Head(queue) = queue[1] /\ Len(queue) \in Nat /\ Len(queue) # 0
  <2>1. queue \in Seq([purpose : Purpose, token : Nat]) /\ queue # <<>>
    BY DEF Serve, IInv, TypeOK, LifecycleTypes
  <2>2. Head(queue) = queue[1] /\ Len(queue) \in Nat /\ Len(queue) # 0
    BY <2>1, HeadAndTail
  <2> QED
    BY <2>1, <2>2, ConstantsAssumption DEF Serve, IInv, QueueInv, TypeOK, ExchangeTypes
<1>3. CurrentInv' /\ current' \in Session
  BY <1>1, CurrentFrame DEF Serve, IInv
<1>4. CASE Head(queue).purpose = "renew" /\ activeSession.token # Head(queue).token
  <2>1. Answered /\ UNCHANGED <<mode, offset, now, last, closed, exchanges, network, granted>>
    BY <1>4 DEF Serve
  <2>2. /\ QueueInv' /\ queue' \in Seq([purpose : Purpose, token : Nat])
        /\ serving' \in {"none", "exchange", "sleep"} /\ attempt' \in 0..(Retries - 1)
    BY <1>2, <2>1, AnsweredCaller DEF exchanges
  <2>3. TypeOK'
    BY <1>3, <2>1, <2>2 DEF IInv, TypeOK, LifecycleTypes, ExchangeTypes, NetworkTypes,
                            exchanges, network
  <2>4. UNCHANGED serving
    BY <1>2, <2>1 DEF Answered
  <2>5. ExchangeInv' /\ LetterInv' /\ PacketInv'
    BY <2>1, <2>4, ExchangeFrame, LetterFrame, PacketFrame DEF IInv, exchanges, network
  <2> QED
    BY <1>3, <2>2, <2>3, <2>5 DEF IInv
<1>5. CASE ~(Head(queue).purpose = "renew" /\ activeSession.token # Head(queue).token)
  <2>1. StartExchange /\ UNCHANGED <<mode, offset, now, last, closed, queue, attempt, granted>>
    BY <1>5 DEF Serve
  <2>2. queue[1].purpose = "renew" => queue[1].token = last
    <3> SUFFICES ASSUME queue[1].purpose = "renew" PROVE queue[1].token = last
      OBVIOUS
    <3>1. queue[1].token # 0 /\ activeSession.token = queue[1].token
      BY <1>2, <1>5 DEF IInv, QueueInv
    <3>2. activeSession = current /\ current # NoSession
      BY <1>1, <3>1 DEF NoSession
    <3> QED
      BY <3>1, <3>2 DEF IInv, CurrentInv
  <2>3. /\ asked + 1 <= MaxExchanges
        /\ asked + Retries * Len(queue) <= MaxExchanges /\ Retries * Len(queue) \in Nat
    <3>1. Retries <= Retries * Len(queue) /\ Retries * Len(queue) \in Nat
      BY <1>2, ReserveOne
    <3>2. asked + Retries * Len(queue) <= MaxExchanges
      BY <1>2, ConstantsAssumption DEF IInv, QueueInv
    <3> QED
      BY <1>2, <3>1, <3>2, ConstantsAssumption
  <2>4. ExchangeTypes' /\ NetworkTypes' /\ ExchangeInv' /\ LetterInv' /\ PacketInv'
    BY <1>2, <2>1, <2>2, <2>3, Started
  <2>5. LifecycleTypes'
    BY <1>3, <2>1 DEF StartExchange, IInv, TypeOK, LifecycleTypes
  <2>6. QueueInv'
    <3>1. asked' + Retries * Len(queue') <= MaxExchanges + (attempt' + 1)
      BY <1>2, <2>1, <2>3, ConstantsAssumption DEF StartExchange
    <3>2. asked' > 0 /\ serving' = "exchange" /\ UNCHANGED <<queue, last>>
      BY <1>2, <2>1 DEF StartExchange
    <3> QED
      BY <1>2, <2>2, <3>1, <3>2 DEF IInv, QueueInv
  <2> QED
    BY <1>3, <2>4, <2>5, <2>6 DEF IInv, TypeOK
<1> QED
  BY <1>4, <1>5

(* A failure drops the session, keeps it, or leads to another attempt.        *)
LEMMA FailedStep == IInv /\ Failed => IInv'
<1> SUFFICES ASSUME IInv, Failed PROVE IInv'
  OBVIOUS
<1> DEFINE operational == exch[asked].pc = "timedout"
<1>1. queue # <<>>
  BY DEF Failed, IInv, QueueInv
<1>2. ExchangeTypes' /\ ExchangeInv' /\ LetterInv' /\ PacketInv'
  BY Forgotten DEF Failed, network
<1>3. current' \in {current, NoSession} /\ current' \in Session
  <2>1. activeSession \in {current, NoSession}
    BY ActiveSession DEF IInv, TypeOK, LifecycleTypes
  <2>2. current' \in {current, NoSession}
    BY <2>1 DEF Failed, AfterFailure
  <2> QED
    BY <2>2 DEF IInv, TypeOK, LifecycleTypes, NoSession, Session
<1>4. CurrentInv'
  BY <1>3, CurrentFrame DEF Failed, IInv
<1>5. /\ QueueInv' /\ queue' \in Seq([purpose : Purpose, token : Nat])
      /\ serving' \in {"none", "exchange", "sleep"} /\ attempt' \in 0..(Retries - 1)
  <2>1. CASE operational /\ attempt + 1 < Retries
    <3>1. serving' = "sleep" /\ serving = "exchange" /\ UNCHANGED <<queue, attempt, asked, last>>
      BY <2>1 DEF Failed
    <3>2. queue' \in Seq([purpose : Purpose, token : Nat]) /\ attempt' \in 0..(Retries - 1)
      BY <3>1 DEF IInv, TypeOK, LifecycleTypes
    <3> QED
      BY <2>1, <3>1, <3>2 DEF IInv, QueueInv
  <2>2. CASE ~(operational /\ attempt + 1 < Retries)
    <3>1. Answered /\ UNCHANGED asked
      BY <2>2 DEF Failed
    <3> QED
      BY <1>1, <3>1, AnsweredCaller
  <2> QED
    BY <2>1, <2>2
<1>6. TypeOK'
  BY <1>2, <1>3, <1>5 DEF Failed, IInv, TypeOK, LifecycleTypes, NetworkTypes, network
<1> QED
  BY <1>2, <1>4, <1>5, <1>6 DEF IInv

(* Only the last exchange waits for an answer.                                *)
LEMMA Running ==
    ASSUME IInv, NEW i \in 1..asked, exch[i].pc \in {"challenge", "result"}
    PROVE  /\ i \in Exchange /\ i = asked /\ serving = "exchange"
           /\ exch \in [Exchange -> ExchangeState] /\ exch[i] \in ExchangeState
           /\ 1..asked \subseteq Exchange
           /\ \A j \in Exchange : j # i => exch[j].pc = "none"
           /\ ExchangeOk(i)
<1>1. 1..asked \subseteq Exchange
  BY ConstantsAssumption DEF IInv, TypeOK, ExchangeTypes, Exchange
<1>2. exch \in [Exchange -> ExchangeState]
  BY DEF IInv, TypeOK, ExchangeTypes
<1>3. \A j \in Exchange : ExchangeOk(j)
  BY DEF IInv, ExchangeInv
<1>4. i = asked /\ serving = "exchange"
  BY <1>1, <1>3 DEF ExchangeOk
<1>5. \A j \in Exchange : j # i => exch[j].pc = "none"
  BY <1>3, <1>4 DEF ExchangeOk
<1> QED
  BY <1>1, <1>2, <1>3, <1>4, <1>5

(* A running exchange that fails: nothing is expected of its packets.         *)
LEMMA Ended ==
    ASSUME IInv, NEW i \in 1..asked, exch[i].pc \in {"challenge", "result"},
           NEW pc \in {"timedout", "failed"}, exch' = Set(i, pc),
           inbox' \subseteq inbox, sent' \subseteq sent, faults' \in 0..MaxFaults,
           UNCHANGED <<mode, offset, now, lifecycle, asked, granted>>
    PROVE  IInv'
<1>1. /\ i \in Exchange /\ i = asked /\ serving = "exchange"
      /\ exch \in [Exchange -> ExchangeState] /\ exch[i] \in ExchangeState
      /\ 1..asked \subseteq Exchange
      /\ \A j \in Exchange : j # i => exch[j].pc = "none"
  BY Running
<1>2. exch'[i].pc = pc /\ exch' \in [Exchange -> ExchangeState]
      /\ \A j \in Exchange : j # i => exch'[j].pc = "none"
  <2> DEFINE e == [exch[i] EXCEPT !.pc = pc]
  <2>1. e \in ExchangeState /\ e.pc = pc
    BY <1>1 DEF ExchangeState
  <2>2. exch' = [exch EXCEPT ![i] = e]
    BY DEF Set
  <2> HIDE DEF e
  <2> QED
    BY <1>1, <2>1, <2>2
<1>3. TypeOK'
  BY <1>2 DEF IInv, TypeOK, LifecycleTypes, ExchangeTypes, NetworkTypes, lifecycle
<1>4. QueueInv' /\ CurrentInv'
  BY CurrentFrame DEF IInv, QueueInv, lifecycle
<1>5. ExchangeInv'
  BY <1>1, <1>2 DEF ExchangeInv, ExchangeOk, lifecycle
<1>6. LetterInv'
  <2> SUFFICES ASSUME NEW m \in inbox PROVE LetterOk(m)'
    BY DEF LetterInv
  <2>1. LetterOk(m)
    BY DEF IInv, LetterInv
  <2>2. exch'[m.challenge.request].pc \in {"none", pc}
    BY <1>1, <1>2, <2>1, Zenon DEF LetterOk
  <2> QED
    BY <2>1, <2>2 DEF LetterOk
<1>7. PacketInv'
  <2> SUFFICES ASSUME NEW p \in sent PROVE PacketOk(p)'
    BY DEF PacketInv
  <2>1. PacketOk(p)
    BY DEF IInv, PacketInv
  <2>2. exch'[p.challenge.request].pc \in {"none", pc}
    BY <1>1, <1>2, <2>1 DEF PacketOk
  <2> QED
    BY <2>1, <2>2 DEF PacketOk
<1> QED
  BY <1>3, <1>4, <1>5, <1>6, <1>7 DEF IInv

(* The budget of faults does not go below zero.                               *)
LEMMA FaultTypes == IInv /\ Fault => faults' \in 0..MaxFaults
  BY ConstantsAssumption DEF IInv, TypeOK, NetworkTypes, Fault

(* A request that fails ends the exchange.                                    *)
LEMMA RequestFailsStep ==
    ASSUME IInv, NEW i \in 1..asked, RequestFails(i)
    PROVE  IInv'
<1>1. /\ exch[i].pc \in {"challenge", "result"}
      /\ exch' = Set(i, "timedout") \/ exch' = Set(i, "failed")
      /\ LostOrLate(i) \/ (Lost(i) /\ Fault)
      /\ UNCHANGED <<mode, offset, now, lifecycle, asked, granted>>
  BY DEF RequestFails
<1>2. inbox' \subseteq inbox /\ sent' \subseteq sent /\ faults' \in 0..MaxFaults
  BY <1>1, FaultTypes DEF LostOrLate, Lost, IInv, TypeOK, NetworkTypes
<1> QED
  BY <1>1, <1>2, Ended

(* Reading takes away one packet at most.                                     *)
LEMMA ReadPacket ==
    ASSUME IInv, NEW p, Read(p)
    PROVE  sent' \subseteq sent /\ faults' \in 0..MaxFaults
  BY FaultTypes DEF Read, IInv, TypeOK, NetworkTypes

(* The checks let no changed packet pass: what they believe, the scheduler    *)
(* has sent as it is.                                                         *)
LEMMA GenuineChallenge ==
    ASSUME IInv, NEW i \in 1..asked, NEW p \in Delivered(i), verifyChallenge(i, p)
    PROVE  p \in sent
<1>1. PICK q \in sent : p = q \/ p \in Flawed(i, q)
  BY DEF Delivered
<1>2. q \in Packet /\ q.challenge \in Challenge /\ PacketOk(q)
  BY DEF IInv, PacketInv, TypeOK, NetworkTypes, Packet
<1>3. /\ p.kind = "challenge" /\ p.from = "pinned" /\ p.signed /\ p.token = 0
      /\ p.challenge.who = "self"
      /\ p.challenge.expires - p.challenge.issued <= MaxLifetime
  BY DEF verifyChallenge, verifySchedulerPacket, validateWorkerTrustPacket, validateChallenge,
         correlateChallenge
<1>4. p # [q EXCEPT !.from = "other"] /\ p # [q EXCEPT !.signed = FALSE]
  BY <1>2, <1>3 DEF Packet
<1>5. p # [q EXCEPT !.challenge.who = "other"]
  BY <1>2, <1>3 DEF Packet, Challenge
<1>6. p # [q EXCEPT !.challenge.expires = q.challenge.issued + MaxLifetime + 1]
  BY <1>2, <1>3, ConstantsAssumption DEF Packet, Challenge
<1>7. p = [q EXCEPT !.token = exch[i].token] => p = q
  <2> SUFFICES ASSUME p = [q EXCEPT !.token = exch[i].token] PROVE p = q
    OBVIOUS
  <2>1. q.kind = "challenge" /\ exch[i].token = 0
    BY <1>2, <1>3 DEF Packet
  <2>2. q.token = 0
    BY <1>2, <2>1 DEF PacketOk
  <2> QED
    BY <1>2, <2>1, <2>2 DEF Packet
<1> QED
  BY <1>1, <1>4, <1>5, <1>6, <1>7 DEF Flawed

(* The same of a result: no token the worker has shown is taken for a new one. *)
LEMMA GenuineResult ==
    ASSUME IInv, NEW i \in 1..asked, exch[i].pc = "result", NEW p \in Delivered(i),
           verifyResult(i, p)
    PROVE  p \in sent
<1>1. PICK q \in sent : p = q \/ p \in Flawed(i, q)
  BY DEF Delivered
<1>2. q \in Packet /\ q.challenge \in Challenge
  BY DEF IInv, TypeOK, NetworkTypes, Packet
<1>3. exch[i] \in ExchangeState /\ ExchangeOk(i)
  BY Running
<1>4. /\ p.kind = "result" /\ p.from = "pinned" /\ p.signed /\ p.accepted /\ p.token # 0
      /\ p.challenge.who = "self"
      /\ p.challenge.expires - p.challenge.issued <= MaxLifetime
      /\ exch[i].purpose = "renew" => p.token # exch[i].token
  BY <1>3 DEF verifyResult, verifySchedulerPacket, validateWorkerTrustPacket, validateResult,
              validateChallenge, requireSameChallenge, ExchangeOk
<1>5. p # [q EXCEPT !.from = "other"] /\ p # [q EXCEPT !.signed = FALSE]
  BY <1>2, <1>4 DEF Packet
<1>6. p # [q EXCEPT !.challenge.who = "other"]
  BY <1>2, <1>4 DEF Packet, Challenge
<1>7. p # [q EXCEPT !.challenge.expires = q.challenge.issued + MaxLifetime + 1]
  BY <1>2, <1>4, ConstantsAssumption DEF Packet, Challenge
<1>8. p # [q EXCEPT !.token = exch[i].token]
  <2>1. p.token # exch[i].token
    BY <1>3, <1>4 DEF ExchangeOk
  <2> QED
    BY <1>2, <2>1 DEF Packet
<1> QED
  BY <1>1, <1>5, <1>6, <1>7, <1>8 DEF Flawed

(* What a believed challenge tells the worker about the clocks.               *)
LEMMA LiveChallenge ==
    ASSUME IInv, NEW i \in 1..asked, exch[i].pc = "challenge", NEW p \in sent,
           verifyChallenge(i, p)
    PROVE  /\ p.challenge.issued <= exch[i].at + Skew + offset
           /\ p.challenge.issued <= now + offset
           /\ p.challenge.issued - now <= Skew
           /\ -MaxLifetime < offset
<1>1. /\ p.challenge.issued \in Int /\ p.challenge.expires \in Int /\ p.at \in Int
      /\ exch[i].at \in Int /\ now \in Int /\ offset \in Int
      /\ Skew \in Nat /\ MaxLifetime \in Nat
  <2>1. exch[i].at \in Int
    BY Running DEF ExchangeState
  <2>2. p \in Packet
    BY DEF IInv, TypeOK, NetworkTypes
  <2>3. p.challenge.issued \in Int /\ p.challenge.expires \in Int /\ p.at \in Int
    BY <2>2 DEF Packet, Challenge
  <2>4. now \in Int /\ offset \in Int /\ Skew \in Nat /\ MaxLifetime \in Nat
    BY ConstantsAssumption DEF IInv, TypeOK, LifecycleTypes
  <2> QED
    BY <2>1, <2>3, <2>4
<1>2. p.challenge.issued <= now + offset
  <2>1. p.challenge.issued <= p.at /\ p.at <= now + offset
    BY Zenon DEF IInv, PacketInv, PacketOk
  <2> QED
    BY <1>1, <2>1
<1>3. /\ now - exch[i].at <= Skew /\ p.challenge.issued - now <= Skew
      /\ p.challenge.expires > now
      /\ p.challenge.expires - p.challenge.issued <= MaxLifetime
  BY DEF verifyChallenge, requireFreshTimestamp, requireLiveChallenge, verifySchedulerPacket,
         validateWorkerTrustPacket, validateChallenge
<1> QED
  BY <1>1, <1>2, <1>3

(* After a believed challenge only its own authenticate packet is under way.  *)
LEMMA OnChallengeStep ==
    ASSUME IInv, NEW i \in 1..asked, NEW p \in Delivered(i), OnChallenge(i, p)
    PROVE  IInv'
<1>1. /\ exch[i].pc = "challenge" /\ Read(p)
      /\ UNCHANGED <<mode, offset, now, lifecycle, asked, granted>>
  BY DEF OnChallenge
<1>2. sent' \subseteq sent /\ faults' \in 0..MaxFaults
  BY <1>1, ReadPacket
<1>3. CASE ~verifyChallenge(i, p)
  <2>1. exch' = Set(i, "failed") /\ UNCHANGED inbox
    BY <1>3 DEF OnChallenge
  <2> QED
    BY <1>1, <1>2, <2>1, Ended
<1>4. CASE verifyChallenge(i, p)
  <2> DEFINE e == [exch[i] EXCEPT !.pc = "result", !.challenge = p.challenge]
             l == [kind |-> "authenticate", challenge |-> p.challenge, token |-> exch[i].token]
  <2>1. /\ i \in Exchange /\ i = asked /\ serving = "exchange"
        /\ exch \in [Exchange -> ExchangeState] /\ exch[i] \in ExchangeState
        /\ 1..asked \subseteq Exchange
        /\ \A j \in Exchange : j # i => exch[j].pc = "none"
        /\ ExchangeOk(i)
    BY <1>1, Running
  <2>2. p \in sent
    BY <1>4, GenuineChallenge
  <2>3. p \in Packet /\ p.challenge \in Challenge /\ PacketOk(p)
    BY <2>2 DEF IInv, PacketInv, TypeOK, NetworkTypes, Packet
  <2>4. /\ e \in ExchangeState /\ e.pc = "result" /\ e.challenge = p.challenge
        /\ e.purpose = exch[i].purpose /\ e.token = exch[i].token /\ e.at = exch[i].at
    BY <2>1, <2>3, Zenon DEF ExchangeState
  <2>5. l \in Letter /\ l.kind = "authenticate" /\ l.challenge = p.challenge
    BY <2>1, <2>3 DEF Letter, ExchangeState
  <2>6. exch' = [exch EXCEPT ![i] = e] /\ inbox' = inbox \cup {l}
    BY <1>4, Zenon DEF OnChallenge
  <2> HIDE DEF e, l
  <2>7. exch'[i] = e /\ exch' \in [Exchange -> ExchangeState]
        /\ \A j \in Exchange : j # i => exch'[j] = exch[j]
    BY <2>1, <2>4, <2>6, Zenon
  <2>8. /\ p.challenge.request = i /\ p.challenge.who = "self"
        /\ p.challenge.purpose = exch[i].purpose /\ validateChallenge(p.challenge)
    BY <1>4, <2>3 DEF verifyChallenge, correlateChallenge, PacketOk
  <2>9. /\ p.challenge.issued <= exch[i].at + Skew + offset
        /\ p.challenge.issued <= now + offset
        /\ p.challenge.issued - now <= Skew
        /\ -MaxLifetime < offset
    BY <1>1, <1>4, <2>2, LiveChallenge
  <2>10. TypeOK'
    BY <1>1, <1>2, <2>5, <2>6, <2>7 DEF IInv, TypeOK, LifecycleTypes, ExchangeTypes,
                                        NetworkTypes, lifecycle
  <2>11. QueueInv' /\ CurrentInv'
    BY <1>1, CurrentFrame DEF IInv, QueueInv, lifecycle
  <2>12. ExchangeInv'
    <3>1. ExchangeOk(i)'
      BY <1>1, <2>1, <2>4, <2>7, <2>8, <2>9, Zenon DEF ExchangeOk, lifecycle, validateChallenge
    <3>2. \A j \in Exchange : j # i => ExchangeOk(j)'
      BY <1>1, <2>1, <2>7, Zenon DEF ExchangeOk
    <3> QED
      BY <3>1, <3>2, Zenon DEF ExchangeInv
  <2>13. LetterInv'
    <3>1. ASSUME NEW m, m = l PROVE LetterOk(m)'
      BY <1>1, <2>4, <2>5, <2>7, <2>8, <2>9, <3>1 DEF LetterOk, validateChallenge
    <3>2. ASSUME NEW m \in inbox PROVE LetterOk(m)'
      <4>1. LetterOk(m) /\ m.challenge.request \in Exchange
        BY <2>1, Zenon DEF IInv, LetterInv, LetterOk
      <4>2. CASE m.challenge.request = i
        BY <1>1, <2>4, <2>7, <4>1, <4>2, Zenon DEF LetterOk
      <4>3. CASE m.challenge.request # i
        BY <1>1, <2>7, <4>1, <4>3 DEF LetterOk
      <4> QED
        BY <4>2, <4>3, Zenon
    <3> QED
      BY <2>6, <3>1, <3>2, Zenon DEF LetterInv
  <2>14. PacketInv'
    <3> SUFFICES ASSUME NEW q \in sent PROVE PacketOk(q)'
      BY <1>2 DEF PacketInv
    <3>1. PacketOk(q) /\ q.challenge.request \in Exchange /\ q.kind \in {"challenge", "result"}
      BY <2>1, Zenon DEF IInv, PacketInv, PacketOk, TypeOK, NetworkTypes, Packet
    <3>2. CASE q.challenge.request = i
      <4>1. q.kind = "challenge" /\ ~q.accepted
        BY <1>1, <3>1, <3>2, Zenon DEF PacketOk
      <4> QED
        BY <1>1, <2>4, <2>7, <3>1, <3>2, <4>1, Zenon DEF PacketOk, lifecycle
    <3>3. CASE q.challenge.request # i
      BY <1>1, <2>7, <3>1, <3>3 DEF PacketOk, lifecycle
    <3> QED
      BY <3>2, <3>3
  <2> QED
    BY <2>10, <2>11, <2>12, <2>13, <2>14 DEF IInv
<1> QED
  BY <1>3, <1>4

(* A believed result is the grant for the challenge the exchange holds.       *)
LEMMA OnResultStep ==
    ASSUME IInv, NEW i \in 1..asked, NEW p \in Delivered(i), OnResult(i, p)
    PROVE  IInv'
<1>1. /\ exch[i].pc = "result" /\ Read(p)
      /\ UNCHANGED <<mode, offset, now, lifecycle, asked, inbox, granted>>
  BY DEF OnResult
<1>2. sent' \subseteq sent /\ faults' \in 0..MaxFaults
  BY <1>1, ReadPacket
<1>3. CASE ~verifyResult(i, p)
  <2>1. exch' = Set(i, "failed")
    BY <1>3 DEF OnResult
  <2> QED
    BY <1>1, <1>2, <2>1, Ended
<1>4. CASE verifyResult(i, p)
  <2> DEFINE session == [token |-> p.token, expires |-> p.expires]
             e == [exch[i] EXCEPT !.pc = "granted", !.session = session]
  <2>1. /\ i \in Exchange /\ i = asked /\ serving = "exchange"
        /\ exch \in [Exchange -> ExchangeState] /\ exch[i] \in ExchangeState
        /\ 1..asked \subseteq Exchange
        /\ \A j \in Exchange : j # i => exch[j].pc = "none"
        /\ ExchangeOk(i)
    BY <1>1, Running
  <2>2. p \in sent
    BY <1>1, <1>4, GenuineResult
  <2>3. p \in Packet /\ PacketOk(p) /\ p.accepted /\ p.challenge = exch[i].challenge
    BY <1>4, <2>2 DEF IInv, PacketInv, TypeOK, NetworkTypes, verifyResult, requireSameChallenge
  <2>4. session \in Session /\ session.token = p.token /\ session.expires = p.expires
    BY <2>3 DEF Session, Packet
  <2>5. exch' = [exch EXCEPT ![i] = e]
    BY <1>4, Zenon DEF OnResult
  <2> HIDE DEF session
  <2>6. /\ e \in ExchangeState /\ e.pc = "granted" /\ e.session = session
        /\ e.purpose = exch[i].purpose
    BY <2>1, <2>4, Zenon DEF ExchangeState
  <2> HIDE DEF e
  <2>7. exch'[i] = e /\ exch' \in [Exchange -> ExchangeState]
        /\ \A j \in Exchange : j # i => exch'[j] = exch[j]
    BY <2>1, <2>5, <2>6
  <2>8. TypeOK'
    BY <1>1, <1>2, <2>7 DEF IInv, TypeOK, LifecycleTypes, ExchangeTypes, NetworkTypes, lifecycle
  <2>9. QueueInv' /\ CurrentInv'
    BY <1>1, CurrentFrame DEF IInv, QueueInv, lifecycle
  <2>10. ExchangeInv'
    <3>1. p.challenge.request = i /\ p.challenge.purpose = exch[i].purpose /\ -MaxLifetime < offset
      BY <1>1, <2>1, <2>3, Zenon DEF ExchangeOk
    <3>2. /\ p.token \in 1..Len(granted) /\ p.token > last /\ offset < Skew + MaxLifetime
          /\ granted[p.token] = [request |-> i, purpose |-> exch[i].purpose,
                                 expires |-> p.expires]
      BY <1>1, <2>3, <3>1 DEF PacketOk
    <3>3. GrantedTo(session, i)'
      BY <1>1, <2>4, <2>6, <2>7, <3>2, SMTT(20) DEF GrantedTo
    <3>4. ExchangeOk(i)'
      BY <1>1, <2>1, <2>4, <2>6, <2>7, <3>1, <3>2, <3>3, Zenon
         DEF ExchangeOk, Clocks, lifecycle, GrantedTo
    <3>5. \A j \in Exchange : j # i => ExchangeOk(j)'
      BY <2>1, <2>7, Zenon DEF ExchangeOk
    <3> QED
      BY <3>4, <3>5, Zenon DEF ExchangeInv
  <2>11. LetterInv'
    <3> SUFFICES ASSUME NEW m \in inbox PROVE LetterOk(m)'
      BY <1>1, Zenon DEF LetterInv
    <3>1. LetterOk(m)
      BY DEF IInv, LetterInv
    <3>2. exch'[m.challenge.request].pc \in {"none", "granted"}
      BY <2>1, <2>6, <2>7, <3>1, Zenon DEF LetterOk
    <3> QED
      BY <1>1, <3>1, <3>2 DEF LetterOk
  <2>12. PacketInv'
    <3> SUFFICES ASSUME NEW q \in sent PROVE PacketOk(q)'
      BY <1>2 DEF PacketInv
    <3>1. PacketOk(q)
      BY Zenon DEF IInv, PacketInv
    <3>2. exch'[q.challenge.request].pc \in {"none", "granted"}
      BY <2>1, <2>6, <2>7, <3>1, ZenonT(60) DEF PacketOk
    <3> QED
      BY <1>1, <3>1, <3>2, Zenon DEF PacketOk
  <2> QED
    BY <2>8, <2>9, <2>10, <2>11, <2>12 DEF IInv
<1> QED
  BY <1>3, <1>4

(* The scheduler's answers are honest: its step is one of the three.          *)
LEMMA SendChallengeStep ==
    ASSUME IInv, NEW m \in inbox, NEW life \in 1..MaxLifetime, SendChallenge(m, life)
    PROVE  IInv'
<1> DEFINE c == [m.challenge EXCEPT !.issued = SchedulerNow, !.expires = SchedulerNow + life]
           a == [kind |-> "challenge", from |-> "pinned", signed |-> TRUE, at |-> SchedulerNow,
                 challenge |-> c, accepted |-> FALSE, issued |-> SchedulerNow, token |-> 0,
                 expires |-> 0]
<1>1. /\ m.kind = "request" /\ inbox' = inbox \ {m} /\ sent' = sent \cup {a}
      /\ UNCHANGED <<mode, offset, now, lifecycle, exchanges, granted, faults>>
  BY DEF SendChallenge
<1>2. /\ now \in Int /\ offset \in Int /\ SchedulerNow = now + offset /\ SchedulerNow \in Int
      /\ life \in Int /\ life > 0 /\ life <= MaxLifetime /\ SchedulerNow + life \in Int
  BY ConstantsAssumption DEF IInv, TypeOK, LifecycleTypes, SchedulerNow
<1>3. m.challenge \in Challenge /\ LetterOk(m)
  BY DEF IInv, LetterInv, TypeOK, NetworkTypes, Letter
<1>4. /\ c \in Challenge /\ c.issued = SchedulerNow /\ c.expires = SchedulerNow + life
      /\ c.request = m.challenge.request /\ c.who = m.challenge.who
      /\ c.purpose = m.challenge.purpose
  BY <1>2, <1>3, Zenon DEF Challenge
<1>5. PICK p : p = a
  BY Zenon
<1> HIDE DEF c
<1>6. validateChallenge(c)
  BY <1>2, <1>4, ConstantsAssumption DEF validateChallenge
<1>7. /\ p \in Packet /\ p.challenge = c /\ p.from = "pinned" /\ p.signed /\ p.at = now + offset
      /\ p.issued = p.at /\ p.challenge.issued = p.at
      /\ p.kind = "challenge" /\ ~p.accepted /\ p.token = 0
  BY <1>2, <1>4, <1>5 DEF Packet
<1>8. sent' = sent \cup {p}
  BY <1>1, <1>5, Zenon
<1> HIDE DEF a
<1>9. TypeOK'
  BY <1>1, <1>7, <1>8, Zenon DEF IInv, TypeOK, LifecycleTypes, ExchangeTypes, NetworkTypes,
                          lifecycle, exchanges
<1>10. QueueInv' /\ CurrentInv' /\ ExchangeInv'
  BY <1>1, CurrentFrame, ExchangeFrame, Zenon DEF IInv, QueueInv, lifecycle, exchanges
<1>11. LetterInv'
  BY <1>1 DEF IInv, LetterInv, LetterOk, exchanges, validateChallenge
<1>12. PacketInv'
  <2>1. PacketOk(p)'
    <3>1. p.at <= now + offset /\ p.challenge.issued <= p.at
      BY <1>2, <1>7
    <3>2. p.challenge.request = m.challenge.request /\ p.challenge.who = "self"
          /\ p.challenge.purpose = m.challenge.purpose /\ p.challenge.request \in 1..asked
      BY <1>3, <1>4, <1>7, Zenon DEF LetterOk
    <3> QED
      BY <1>1, <1>3, <1>6, <1>7, <3>1, <3>2, Zenon DEF PacketOk, LetterOk, exchanges
  <2>2. ASSUME NEW q \in sent PROVE PacketOk(q)'
    BY <1>1 DEF IInv, PacketInv, PacketOk, exchanges, lifecycle
  <2> QED
    BY <1>8, <2>1, <2>2, Zenon DEF PacketInv
<1> QED
  BY <1>9, <1>10, <1>11, <1>12 DEF IInv

(* A rejection carries no token.                                              *)
LEMMA RejectStep ==
    ASSUME IInv, NEW m \in inbox, Reject(m)
    PROVE  IInv'
<1> DEFINE a == Result(m.challenge, FALSE, 0, 0)
<1>1. /\ m.kind = "authenticate" /\ inbox' = inbox \ {m} /\ sent' = sent \cup {a}
      /\ UNCHANGED <<mode, offset, now, lifecycle, exchanges, granted>>
  BY DEF Reject
<1>2. faults' \in 0..MaxFaults
  BY FaultTypes DEF Reject
<1>3. now \in Int /\ offset \in Int /\ SchedulerNow = now + offset /\ SchedulerNow \in Int
  BY ConstantsAssumption DEF IInv, TypeOK, LifecycleTypes, SchedulerNow
<1>4. m.challenge \in Challenge /\ LetterOk(m)
  BY DEF IInv, LetterInv, TypeOK, NetworkTypes, Letter
<1>5. PICK p : p = a
  BY Zenon
<1>6. /\ p \in Packet /\ p.challenge = m.challenge /\ p.from = "pinned" /\ p.signed
      /\ p.at = now + offset /\ p.issued = p.at
      /\ p.kind = "result" /\ ~p.accepted /\ p.token = 0
  BY <1>3, <1>4, <1>5 DEF Packet, Result
<1>7. sent' = sent \cup {p}
  BY <1>1, <1>5
<1> HIDE DEF a
<1>8. TypeOK'
  BY <1>1, <1>2, <1>6, <1>7 DEF IInv, TypeOK, LifecycleTypes, ExchangeTypes, NetworkTypes,
                                lifecycle, exchanges
<1>9. QueueInv' /\ CurrentInv' /\ ExchangeInv'
  BY <1>1, CurrentFrame, ExchangeFrame DEF IInv, QueueInv, lifecycle, exchanges
<1>10. LetterInv'
  BY <1>1 DEF IInv, LetterInv, LetterOk, exchanges, validateChallenge
<1>11. PacketInv'
  <2>1. PacketOk(p)'
    <3>1. p.at <= now + offset /\ p.challenge.issued <= p.at
      BY <1>1, <1>3, <1>4, <1>6 DEF LetterOk
    <3>2. p.challenge.who = "self" /\ p.challenge.request \in 1..asked
          /\ validateChallenge(p.challenge)
      BY <1>1, <1>4, <1>6, Zenon DEF LetterOk
    <3> QED
      BY <1>1, <1>4, <1>6, <3>1, <3>2 DEF PacketOk, LetterOk, exchanges
  <2>2. ASSUME NEW q \in sent PROVE PacketOk(q)'
    BY <1>1 DEF IInv, PacketInv, PacketOk, exchanges, lifecycle
  <2> QED
    BY <1>7, <2>1, <2>2, ZenonT(60) DEF PacketInv
<1> QED
  BY <1>8, <1>9, <1>10, <1>11 DEF IInv

(* What Append does to a sequence.                                            *)
LEMMA Appended ==
    ASSUME NEW S, NEW s \in Seq(S), NEW e \in S
    PROVE  /\ Append(s, e) \in Seq(S) /\ Len(Append(s, e)) = Len(s) + 1
           /\ Append(s, e)[Len(s) + 1] = e
           /\ \A k \in 1..Len(s) : Append(s, e)[k] = s[k] /\ k \in 1..Len(Append(s, e))
           /\ Len(s) + 1 \in 1..Len(Append(s, e))
  OBVIOUS

(* Accepting dates the two clocks from the other side, and grants a token     *)
(* that no session had before.                                                *)
LEMMA AcceptStep ==
    ASSUME IInv, NEW m \in inbox, NEW life \in TokenLives, Accept(m, life)
    PROVE  IInv'
<1> DEFINE Grant == [request : Nat, purpose : Purpose, expires : Int]
           a == Result(m.challenge, TRUE, Len(granted) + 1, SchedulerNow + life)
           g == [request |-> m.challenge.request, purpose |-> m.challenge.purpose,
                 expires |-> SchedulerNow + life]
<1>1. /\ m.kind = "authenticate" /\ inbox' = inbox \ {m} /\ sent' = sent \cup {a}
      /\ granted' = Append(granted, g) /\ m.challenge.expires > SchedulerNow
      /\ UNCHANGED <<mode, offset, now, lifecycle, exchanges, faults>>
  BY DEF Accept
<1>2. /\ now \in Int /\ offset \in Int /\ SchedulerNow = now + offset /\ SchedulerNow \in Int
      /\ life \in Nat \ {0} /\ SchedulerNow + life \in Int
      /\ Skew \in Int /\ MaxLifetime \in Int
  BY ConstantsAssumption DEF IInv, TypeOK, LifecycleTypes, SchedulerNow
<1>3. m.challenge \in Challenge /\ LetterOk(m)
  BY DEF IInv, LetterInv, TypeOK, NetworkTypes, Letter
<1>4. g \in Grant /\ granted \in Seq(Grant)
  BY <1>2, <1>3 DEF Challenge, IInv, TypeOK, NetworkTypes
<1>5. PICK p : p = a
  BY Zenon
<1>6. PICK h : h = g
  BY Zenon
<1>7. Len(granted) \in Nat
  BY <1>4
<1>8. /\ p \in Packet /\ p.challenge = m.challenge /\ p.from = "pinned" /\ p.signed
      /\ p.at = now + offset /\ p.issued = p.at
      /\ p.kind = "result" /\ p.accepted /\ p.token = Len(granted) + 1
      /\ p.expires = now + offset + life
  BY <1>2, <1>3, <1>5, <1>7 DEF Packet, Result
<1>9. h = [request |-> p.challenge.request, purpose |-> p.challenge.purpose,
           expires |-> p.expires] /\ h \in Grant
  BY <1>2, <1>4, <1>6, <1>8, Zenon
<1>10. sent' = sent \cup {p} /\ granted' = Append(granted, h)
  BY <1>1, <1>5, <1>6, ZenonT(60)
<1> HIDE DEF a, g, Grant
<1>11. /\ granted' \in Seq(Grant) /\ Len(granted') = Len(granted) + 1
       /\ granted'[Len(granted) + 1] = h
       /\ \A k \in 1..Len(granted) : granted'[k] = granted[k] /\ k \in 1..Len(granted')
       /\ Len(granted) + 1 \in 1..Len(granted')
  <2>1. granted \in Seq(Grant) /\ h \in Grant
    BY <1>4, <1>9, ZenonT(60)
  <2>2. PICK t : t = granted'
    BY ZenonT(60)
  <2>3. PICK u : u = granted
    BY ZenonT(60)
  <2>4. t = Append(u, h) /\ u \in Seq(Grant)
    BY <1>10, <2>1, <2>2, <2>3, ZenonT(60)
  <2>5. /\ t \in Seq(Grant) /\ Len(t) = Len(u) + 1 /\ t[Len(u) + 1] = h
        /\ \A k \in 1..Len(u) : t[k] = u[k] /\ k \in 1..Len(t)
        /\ Len(u) + 1 \in 1..Len(t)
    BY <2>1, <2>4, Appended
  <2> QED BY <2>2, <2>3, <2>5, ZenonT(60)
<1>12. TypeOK'
  BY <1>1, <1>8, <1>10, <1>11, Zenon DEF IInv, TypeOK, LifecycleTypes, ExchangeTypes, NetworkTypes,
                                  lifecycle, exchanges, Grant
<1>13. last \in Nat /\ last <= Len(granted)
  BY Zenon DEF IInv, TypeOK, LifecycleTypes, CurrentInv
<1>14. QueueInv' /\ LetterInv'
  BY <1>1, Zenon DEF IInv, QueueInv, lifecycle, exchanges, LetterInv, LetterOk, validateChallenge
<1>15. CurrentInv'
  <2>1. last' <= Len(granted')
    BY <1>1, <1>7, <1>11, <1>13 DEF lifecycle
  <2>2. last > 0 => granted'[last] = granted[last]
    <3>1. last > 0 => last \in 1..Len(granted)
      BY <1>7, <1>13
    <3> QED BY <3>1, <1>11, ZenonT(60)
  <2> QED
    BY <1>1, <2>1, <2>2, Zenon DEF IInv, CurrentInv, lifecycle, Clocks
<1>16. ExchangeInv'
  <2> SUFFICES ASSUME NEW i \in Exchange PROVE ExchangeOk(i)'
    BY DEF ExchangeInv
  <2>1. ExchangeOk(i)
    BY ZenonT(30) DEF IInv, ExchangeInv
  <2>2. exch[i].pc = "granted" => GrantedTo(exch[i].session, i)'
    BY <1>1, <1>11, <2>1, Zenon DEF ExchangeOk, GrantedTo, exchanges
  <2> QED
    BY <1>1, <2>1, <2>2, ZenonT(60) DEF ExchangeOk, exchanges, lifecycle, Clocks, validateChallenge
<1>17. PacketInv'
  <2>1. PacketOk(p)'
    <3>1. /\ p.challenge.who = "self" /\ p.challenge.request \in 1..asked
          /\ validateChallenge(p.challenge) /\ p.challenge.issued <= now + offset
          /\ p.challenge.issued - now <= Skew
      BY <1>1, <1>3, <1>8, Zenon DEF LetterOk
    <3>2. p.at <= now + offset /\ p.challenge.issued <= p.at /\ p.expires > p.issued
          /\ p.token > last
      <4>1. p.at = now + offset /\ p.issued = p.at /\ p.expires = now + offset + life
            /\ p.token = Len(granted) + 1 /\ p.challenge.issued <= now + offset
        BY <1>8, <3>1
      <4> QED
        BY <1>2, <1>7, <1>13, <4>1
    <3>3. offset < Skew + MaxLifetime
      <4>1. /\ p.challenge.issued \in Int /\ p.challenge.expires \in Int
            /\ p.challenge.expires > now + offset
            /\ p.challenge.expires - p.challenge.issued <= MaxLifetime
        BY <1>1, <1>2, <1>3, <1>8, <3>1, Zenon DEF Challenge, validateChallenge
      <4> QED
        BY <1>2, <3>1, <4>1, SMTT(20)
    <3>4. p.token \in 1..Len(granted') /\ granted'[p.token] = h
      BY <1>8, <1>11, ZenonT(60)
    <3> QED
      BY <1>1, <1>3, <1>8, <1>9, <3>1, <3>2, <3>3, <3>4, ZenonT(20)
         DEF PacketOk, LetterOk, exchanges, lifecycle
  <2>2. ASSUME NEW q \in sent PROVE PacketOk(q)'
    <3>1. PacketOk(q)
      BY DEF IInv, PacketInv
    <3>2. q.token \in 1..Len(granted) =>
              q.token \in 1..Len(granted') /\ granted'[q.token] = granted[q.token]
      BY <1>11
    <3> QED
      BY <1>1, <3>1, <3>2, ZenonT(60) DEF PacketOk, exchanges, lifecycle
  <2> QED
    BY <1>10, <2>1, <2>2, Zenon DEF PacketInv
<1> QED
  BY <1>12, <1>14, <1>15, <1>16, <1>17, Zenon DEF IInv
-----------------------------------------------------------------------------
(* Every step preserves the invariant.                                        *)
LEMMA NextStep == IInv /\ [Next]_vars => IInv'
<1> SUFFICES ASSUME IInv, [Next]_vars PROVE IInv'
  OBVIOUS
<1>1. CASE authenticate
  BY <1>1, AuthenticateStep
<1>2. CASE reauthenticate
  BY <1>2, ReauthenticateStep
<1>3. CASE renew
  BY <1>3, RenewStep
<1>4. CASE close
  BY <1>4, CloseStep
<1>5. CASE Serve
  BY <1>5, ServeStep
<1>6. CASE Installed
  BY <1>6, InstalledStep
<1>7. CASE Failed
  BY <1>7, FailedStep
<1>8. CASE Retry
  BY <1>8, RetryStep
<1>9. CASE Abandoned
  BY <1>9, AbandonedStep
<1>10. CASE Tick
  BY <1>10, TickStep
<1>11. ASSUME NEW i \in 1..asked, RequestFails(i) PROVE IInv'
  BY <1>11, RequestFailsStep
<1>12. ASSUME NEW i \in 1..asked, NEW p \in Delivered(i), OnChallenge(i, p) PROVE IInv'
  BY <1>12, OnChallengeStep
<1>13. ASSUME NEW i \in 1..asked, NEW p \in Delivered(i), OnResult(i, p) PROVE IInv'
  BY <1>13, OnResultStep
<1>14. ASSUME NEW m \in inbox, NEW life \in 1..MaxLifetime, SendChallenge(m, life) PROVE IInv'
  BY <1>14, SendChallengeStep
<1>15. ASSUME NEW m \in inbox, NEW life \in TokenLives, Accept(m, life) PROVE IInv'
  BY <1>15, AcceptStep
<1>16. ASSUME NEW m \in inbox, Reject(m) PROVE IInv'
  BY <1>16, RejectStep
<1>17. CASE UNCHANGED vars
  <2>1. TypeOK' /\ QueueInv'
    BY <1>17 DEF vars, lifecycle, exchanges, network, IInv, TypeOK, LifecycleTypes,
                 ExchangeTypes, NetworkTypes, QueueInv
  <2>2. CurrentInv' /\ ExchangeInv' /\ LetterInv' /\ PacketInv'
    BY <1>17, CurrentFrame, ExchangeFrame, LetterFrame, PacketFrame
       DEF vars, lifecycle, exchanges, network, IInv
  <2> QED
    BY <2>1, <2>2, Zenon DEF IInv
<1> QED
  BY <1>1, <1>2, <1>3, <1>4, <1>5, <1>6, <1>7, <1>8, <1>9, <1>10, <1>11, <1>12, <1>13,
     <1>14, <1>15, <1>16, <1>17 DEF Next

(* The invariant holds throughout.                                            *)
LEMMA Invariance == Spec => []IInv
<1> QED
  BY InitIInv, NextStep, PTL DEF Spec

-----------------------------------------------------------------------------
(* The worker's session state stays well formed: the loop of                  *)
(* exchangeWithRetries stays within settings.retries for every caller.        *)
THEOREM TrustTypes == Spec => []TypeOK
<1>1. IInv => TypeOK
  BY DEF IInv
<1> QED
  BY <1>1, Invariance, PTL

(* Whatever the scheduler and the network do, an exchange returns only what   *)
(* the scheduler granted to that exchange, and the session in force is one.   *)
THEOREM OwnAnswer == Spec => []AnswerIsOwn
<1>1. IInv => AnswerIsOwn
  <2> SUFFICES ASSUME IInv PROVE AnswerIsOwn
    OBVIOUS
  <2>1. last \in Nat /\ Len(granted) \in Nat
    <3>1. last \in Nat
      BY ZenonT(60) DEF IInv, TypeOK, LifecycleTypes
    <3>2. granted \in Seq([request : Nat, purpose : Purpose, expires : Int])
      BY ZenonT(60) DEF IInv, TypeOK, NetworkTypes
    <3> QED BY <3>1, <3>2
  <2>2. \A i \in Exchange : exch[i].pc = "granted" => GrantedTo(exch[i].session, i)
    BY DEF IInv, ExchangeInv, ExchangeOk
  <2>3. current # NoSession => /\ current.token \in 1..Len(granted)
                               /\ current.expires = granted[current.token].expires
    BY <2>1 DEF IInv, CurrentInv
  <2> QED
    BY <2>2, <2>3 DEF AnswerIsOwn
<1> QED
  BY <1>1, Invariance, PTL

(* However callers queue, retry and drop the session, a running renewal shows *)
(* the token that was installed last.                                         *)
THEOREM LatestToken == Spec => []RenewsTheLatest
<1>1. IInv => RenewsTheLatest
  BY DEF IInv, ExchangeInv, ExchangeOk, RenewsTheLatest
<1> QED
  BY <1>1, Invariance, PTL

(* A session means that the clocks of the two sides are close, for every      *)
(* allowed skew and challenge lifetime and every offset.                      *)
THEOREM BoundedClocks == Spec => []ClocksAgree
<1>1. IInv => ClocksAgree
  BY DEF IInv, CurrentInv, Clocks, ClocksAgree
<1> QED
  BY <1>1, Invariance, PTL

(* With equal clocks the checks of the worker refuse nothing an honest        *)
(* scheduler sent in time: every condition follows from the others' life.     *)
THEOREM NoFalseAlarm == Spec => []HonestAnswerIsTaken
<1>1. IInv => HonestAnswerIsTaken
  <2> SUFFICES ASSUME IInv, offset = 0, NEW i \in 1..asked, NEW p \in sent,
                      p.challenge.request = i, p.challenge.expires > now
               PROVE  /\ exch[i].pc = "challenge" /\ p.kind = "challenge"
                            /\ now - exch[i].at <= Skew => verifyChallenge(i, p)
                      /\ exch[i].pc = "result" /\ p.accepted /\ p.expires > now
                            => verifyResult(i, p)
    BY DEF HonestAnswerIsTaken
  <2>1. PacketOk(p) /\ p \in Packet
    BY DEF IInv, PacketInv, TypeOK, NetworkTypes
  <2>2. /\ now \in Int /\ Skew \in Nat /\ MaxLifetime \in Int /\ MaxLifetime <= Skew
        /\ p.at \in Int /\ p.challenge.issued \in Int /\ p.challenge.expires \in Int
    BY <2>1, ConstantsAssumption, SMTT(20) DEF IInv, TypeOK, LifecycleTypes, Packet, Challenge
  <2>3. /\ p.from = "pinned" /\ p.signed /\ p.challenge.who = "self"
        /\ validateChallenge(p.challenge)
        /\ p.challenge.issued <= p.at /\ p.at = p.issued
    BY <2>1, Zenon DEF PacketOk
  <2>4. p.at <= now
    BY <2>1, <2>2 DEF PacketOk
  <2>5. requireFreshTimestamp(p.at) /\ requireLiveChallenge(p.challenge)
    BY <2>2, <2>3, <2>4 DEF requireFreshTimestamp, requireLiveChallenge, validateChallenge
  <2>6. ASSUME exch[i].pc = "challenge", p.kind = "challenge", now - exch[i].at <= Skew
        PROVE  verifyChallenge(i, p)
    <3>1. exch[i].at \in Int /\ exch[i].at <= now
      BY <2>6, Running DEF ExchangeState, ExchangeOk
    <3>2. requireFreshTimestamp(exch[i].at)
      BY <2>2, <2>6, <3>1, SMTT(20) DEF requireFreshTimestamp
    <3>3. p.token = 0 /\ p.challenge.purpose = exch[i].purpose
      BY <2>1, <2>6, Zenon DEF PacketOk
    <3> QED
      BY <2>3, <2>5, <2>6, <3>2, <3>3, Zenon
         DEF verifyChallenge, verifySchedulerPacket, validateWorkerTrustPacket, correlateChallenge
  <2>7. ASSUME exch[i].pc = "result", p.accepted, p.expires > now
        PROVE  verifyResult(i, p)
    <3>1. p.kind = "result"
      BY <2>1, <2>7, Zenon DEF PacketOk, Packet
    <3>2. /\ p.challenge = exch[i].challenge /\ p.token \in 1..Len(granted)
          /\ p.token > last /\ p.expires > p.issued
      BY <2>1, <2>7, <3>1 DEF PacketOk
    <3>3. p.token # 0 /\ p.token # last
      BY <2>1, <3>2 DEF Packet, IInv, TypeOK, LifecycleTypes
    <3>4. exch[i].purpose = "renew" => exch[i].token = last
      BY <2>7, Running DEF ExchangeOk
    <3> QED
      BY <2>3, <2>5, <2>7, <3>1, <3>2, <3>3, <3>4, Zenon
         DEF verifyResult, verifySchedulerPacket, validateWorkerTrustPacket, validateResult,
             requireSameChallenge
  <2> QED
    BY <2>6, <2>7
<1> QED
  BY <1>1, Invariance, PTL

(* A session is only ever replaced by a newer one: no step installs a token   *)
(* that is not above every token installed before it.                         *)
THEOREM OnlyNewerSessions == Spec => NeverGoesBack
<1> DEFINE Back == current' # current /\ current' # NoSession => current'.token > last
<1>1. IInv /\ [Next]_vars => [Back]_vars
  <2> SUFFICES ASSUME IInv, Next PROVE Back
    BY Zenon
  <2>1. activeSession \in {current, NoSession}
    BY ActiveSession DEF IInv, TypeOK, LifecycleTypes
  <2>2. CASE Installed
    <3>1. asked \in Exchange
      BY <2>2, ConstantsAssumption DEF Installed, IInv, QueueInv, TypeOK, ExchangeTypes, Exchange
    <3> QED
      BY <2>2, <3>1 DEF Installed, IInv, ExchangeInv, ExchangeOk
  <2>3. CASE ~Installed
    <3>1. current' \in {current, NoSession}
      BY <2>1, <2>3, Zenon DEF Next, authenticate, reauthenticate, renew, close, Serve, Failed,
            AfterFailure, Retry, Abandoned, Tick, RequestFails, OnChallenge, OnResult,
            SendChallenge, Accept, Reject, lifecycle
    <3> QED
      BY <3>1, Zenon
  <2> QED
    BY <2>2, <2>3
<1> QED
  BY <1>1, Invariance, PTL DEF Spec, NeverGoesBack

(* The timestamps the two sides check leave an exchange no more than the skew *)
(* and one challenge lifetime, apart from the difference of the clocks.       *)
THEOREM ShortExchanges == Spec => ExchangeIsShort
<1> DEFINE Short == \A i \in Exchange : exch[i].pc = "result" /\ exch'[i].pc = "granted" =>
                       now < exch[i].at + offset + Skew + MaxLifetime
<1>1. IInv /\ [Next]_vars => [Short]_vars
  <2> SUFFICES ASSUME IInv, Next, NEW i \in Exchange, exch[i].pc = "result",
                      exch'[i].pc = "granted"
               PROVE  now < exch[i].at + offset + Skew + MaxLifetime
    OBVIOUS
  <2>1. i = asked /\ serving = "exchange" /\ exch \in [Exchange -> ExchangeState]
    BY DEF IInv, ExchangeInv, ExchangeOk, TypeOK, ExchangeTypes
  <2>2. ASSUME NEW j \in 1..asked, NEW p \in Delivered(j), OnResult(j, p)
        PROVE  now < exch[i].at + offset + Skew + MaxLifetime
    <3>1. j \in Exchange /\ j = asked
      BY <2>2, Running DEF OnResult
    <3>2. verifyResult(i, p)
      BY <2>1, <2>2, <3>1 DEF OnResult, Set
    <3>3. exch[i].challenge.expires > now
      BY <3>2 DEF verifyResult, requireSameChallenge, requireLiveChallenge
    <3>4. /\ exch[i].challenge.issued <= exch[i].at + Skew + offset
          /\ exch[i].challenge.expires - exch[i].challenge.issued <= MaxLifetime
      BY DEF IInv, ExchangeInv, ExchangeOk, validateChallenge
    <3>5. /\ exch[i].at \in Int /\ exch[i].challenge.issued \in Int
          /\ exch[i].challenge.expires \in Int
      BY <2>1 DEF ExchangeState, Challenge
    <3>6. now \in Int /\ offset \in Int /\ Skew \in Int /\ MaxLifetime \in Int
      BY ConstantsAssumption DEF IInv, TypeOK, LifecycleTypes
    <3> QED
      BY <3>3, <3>4, <3>5, <3>6
  <2>3. ASSUME NEW j \in 1..asked, NEW p \in Delivered(j), OnChallenge(j, p) PROVE FALSE
    <3>1. j \in Exchange /\ j = asked
      BY <2>3, Running DEF OnChallenge
    <3> QED
      BY <2>1, <2>3, <3>1 DEF OnChallenge
  <2>4. ASSUME NEW j \in 1..asked, RequestFails(j) PROVE FALSE
    <3>1. j \in Exchange /\ j = asked
      BY <2>4, Running, Zenon DEF RequestFails
    <3>2. exch' = Set(j, "timedout") \/ exch' = Set(j, "failed")
      BY <2>4 DEF RequestFails
    <3>3. CASE exch' = Set(j, "timedout")
      BY <2>1, <3>1, <3>3 DEF Set
    <3>4. CASE exch' = Set(j, "failed")
      BY <2>1, <3>1, <3>4 DEF Set
    <3> QED
      BY <3>2, <3>3, <3>4
  <2>5. ~Installed /\ ~Serve /\ ~Retry
    BY <2>1, Zenon DEF Installed, Serve, Retry
  <2>6. ~Failed /\ ~Abandoned
    BY <2>1, SMTT(20) DEF Failed, Abandoned, Unasked
  <2>7. /\ ~authenticate /\ ~reauthenticate /\ ~renew /\ ~close /\ ~Tick
        /\ \A m \in inbox : ~Reject(m) /\ (\A life \in TokenLives : ~Accept(m, life))
                                       /\ (\A life \in 1..MaxLifetime : ~SendChallenge(m, life))
    BY Zenon DEF authenticate, reauthenticate, renew, close, Tick, Reject, Accept, SendChallenge,
           exchanges
  <2> QED
    BY <2>2, <2>3, <2>4, <2>5, <2>6, <2>7 DEF Next
<1> QED
  BY <1>1, Invariance, PTL DEF Spec, ExchangeIsShort

=============================================================================
