----------------------- MODULE RealtimeDeliveryProofs -----------------------
(***************************************************************************)
(* Proofs about RealtimeDelivery, for any number of processes, messages    *)
(* and retries.  The properties are defined and explained there and in     *)
(* DeliveryLog.                                                            *)
(***************************************************************************)
EXTENDS DeliveryLog, TLAPS

(* A column of the message table: one value of S for each of n messages.   *)
Column(n, S) == {s \in Seq(S) : Len(s) = n}

Types ==
    /\ alive \subseteq Procs /\ linked \subseteq alive
    /\ origin \in Seq(Procs)
    /\ known \in Column(Len(origin), SUBSET Messages)
    /\ persist \in Column(Len(origin), {"calling", "ended"})
    /\ publish \in Column(Len(origin), {"trying", "ended"})
    /\ tries \in Column(Len(origin), 0..MaxTries) /\ pending \in Column(Len(origin), Nat)
    /\ log \in Seq(Messages)
    /\ inbox \in [Procs -> Seq(Events)] /\ dispatched \in [Procs -> Seq(Events)]
    /\ missed \in [Procs -> SUBSET Events]

(* What a process had shown when it handled a message is in the log, and   *)
(* it was there before the message.                                        *)
Published ==
    /\ \A n \in Messages : \A m \in known[n] : \E i \in Events : log[i] = m
    /\ \A e \in Events : \A m \in known[log[e]] : \E i \in 1..(e - 1) : log[i] = m

IInv == Types /\ OneStream /\ Published

-----------------------------------------------------------------------------
(* Streams: increasing sequences of events. *)

Increasing(s) == \A j \in DOMAIN s : \A k \in 1..(j - 1) : s[k] < s[j]

Stream(p) == dispatched[p] \o inbox[p]

LEMMA OneStreamOf ==
    OneStream <=> \A p \in Procs : Increasing(Stream(p)) /\ ToSet(Stream(p)) = Events \ missed[p]
BY DEF OneStream, Increasing, Stream

(* A subscribed process gets the new event at the end of its stream.       *)
LEMMA Longer ==
    ASSUME NEW n \in Nat, NEW s \in Seq(1..n), Increasing(s)
    PROVE  /\ Append(s, n + 1) \in Seq(1..(n + 1))
           /\ Increasing(Append(s, n + 1))
           /\ ToSet(Append(s, n + 1)) = ToSet(s) \cup {n + 1}
<1> DEFINE t == Append(s, n + 1)
<1>1. /\ DOMAIN s = 1..Len(s) /\ Len(s) \in Nat /\ DOMAIN t = 1..(Len(s) + 1)
      /\ \A i \in 1..Len(s) : t[i] = s[i] /\ s[i] \in 1..n
      /\ t[Len(s) + 1] = n + 1 /\ t \in Seq(1..(n + 1))
  OBVIOUS
<1> HIDE DEF t
<1>2. Increasing(t)
  <2> SUFFICES ASSUME NEW j \in DOMAIN t, NEW l \in 1..(j - 1) PROVE t[l] < t[j]
    BY DEF Increasing
  <2>1. l \in 1..Len(s)
    BY <1>1
  <2>2. CASE j = Len(s) + 1
    BY <2>1, <2>2, <1>1
  <2>3. CASE j \in 1..Len(s)
    BY <2>1, <2>3, <1>1 DEF Increasing
  <2> QED
    BY <2>2, <2>3, <1>1
<1>3. ASSUME NEW x PROVE x \in ToSet(t) <=> x \in ToSet(s) \/ x = n + 1
  <2>1. x \in ToSet(t) <=> \E i \in 1..(Len(s) + 1) : t[i] = x
    BY <1>1 DEF ToSet
  <2>2. x \in ToSet(s) <=> \E i \in 1..Len(s) : s[i] = x
    BY <1>1 DEF ToSet
  <2>3. 1..(Len(s) + 1) = 1..Len(s) \cup {Len(s) + 1}
    BY <1>1
  <2> QED
    BY <2>1, <2>2, <2>3, <1>1
<1>4. ToSet(t) = ToSet(s) \cup {n + 1}
  BY <1>3
<1> QED
  BY <1>1, <1>2, <1>4 DEF t

LEMMA Concatenation ==
    ASSUME NEW S, NEW d \in Seq(S), NEW i \in Seq(S)
    PROVE  /\ DOMAIN (d \o i) = 1..(Len(d) + Len(i))
           /\ \A j \in 1..Len(d) : (d \o i)[j] = d[j]
           /\ \A j \in 1..Len(i) : (d \o i)[Len(d) + j] = i[j]
OBVIOUS

(* A subscription that breaks cuts the stream after its k-th waiting event.*)
LEMMA Cut ==
    ASSUME NEW n \in Nat, NEW d \in Seq(1..n), NEW i \in Seq(1..n), NEW k \in 0..Len(i),
           Increasing(d \o i)
    PROVE  /\ SubSeq(i, 1, k) \in Seq(1..n)
           /\ Increasing(d \o SubSeq(i, 1, k))
           /\ ToSet(SubSeq(i, k + 1, Len(i))) \subseteq 1..n
           /\ ToSet(d \o SubSeq(i, 1, k)) = ToSet(d \o i) \ ToSet(SubSeq(i, k + 1, Len(i)))
<1> DEFINE head == SubSeq(i, 1, k)
           rest == SubSeq(i, k + 1, Len(i))
           s == d \o i
           t == d \o head
<1>1. /\ DOMAIN s = 1..(Len(d) + Len(i)) /\ Len(d) \in Nat /\ Len(i) \in Nat /\ k \in Nat
      /\ \A j \in 1..Len(d) : s[j] = d[j]
      /\ \A j \in 1..Len(i) : s[Len(d) + j] = i[j] /\ i[j] \in 1..n
      /\ \A j \in 1..(Len(d) + Len(i)) : s[j] \in 1..n
  OBVIOUS
<1>2. /\ head \in Seq(1..n) /\ Len(head) = k
      /\ \A j \in 1..k : head[j] = i[j]
  OBVIOUS
<1>3. /\ DOMAIN rest = 1..(Len(i) - k)
      /\ \A j \in 1..(Len(i) - k) : rest[j] = i[k + j]
  OBVIOUS
<1>4. DOMAIN t = 1..(Len(d) + k) /\ \A j \in 1..(Len(d) + k) : t[j] = s[j]
  <2> HIDE DEF head, s
  <2>1. /\ DOMAIN t = 1..(Len(d) + k)
        /\ \A j \in 1..Len(d) : t[j] = d[j]
        /\ \A j \in 1..k : t[Len(d) + j] = head[j]
    <3>1. head \in Seq(1..n)
      BY <1>2
    <3>2. /\ DOMAIN (d \o head) = 1..(Len(d) + Len(head))
          /\ \A j \in 1..Len(d) : (d \o head)[j] = d[j]
          /\ \A j \in 1..Len(head) : (d \o head)[Len(d) + j] = head[j]
      BY <3>1, Concatenation
    <3> QED
      BY <3>2, <1>2
  <2>2. ASSUME NEW j \in 1..(Len(d) + k), j \notin 1..Len(d) PROVE t[j] = s[j]
    <3>1. j - Len(d) \in 1..k /\ j - Len(d) \in 1..Len(i) /\ Len(d) + (j - Len(d)) = j
      BY <2>2, <1>1
    <3>2. t[Len(d) + (j - Len(d))] = head[j - Len(d)] /\ head[j - Len(d)] = i[j - Len(d)]
      BY <3>1, <2>1, <1>2
    <3>3. s[Len(d) + (j - Len(d))] = i[j - Len(d)]
      BY <3>1, <1>1
    <3> QED
      BY <3>1, <3>2, <3>3
  <2> QED
    BY <2>1, <2>2, <1>1
<1>5. Increasing(s)
  OBVIOUS
<1> HIDE DEF head, rest, s, t
<1>6. Increasing(t)
  <2> SUFFICES ASSUME NEW j \in DOMAIN t, NEW l \in 1..(j - 1) PROVE t[l] < t[j]
    BY DEF Increasing
  <2>1. j \in DOMAIN s /\ l \in DOMAIN t
    BY <1>1, <1>4
  <2>2. s[l] < s[j]
    BY <2>1, <1>5 DEF Increasing
  <2> QED
    BY <2>1, <2>2, <1>4
<1>7. \A j \in 1..(Len(i) - k) :
         /\ k + j \in 1..Len(i) /\ Len(d) + k + j \in DOMAIN s /\ Len(d) + (k + j) = Len(d) + k + j
         /\ rest[j] = s[Len(d) + k + j] /\ rest[j] \in 1..n
  <2> TAKE j \in 1..(Len(i) - k)
  <2>1. /\ k + j \in 1..Len(i) /\ Len(d) + k + j \in DOMAIN s
        /\ Len(d) + (k + j) = Len(d) + k + j
    BY <1>1
  <2> QED
    BY <2>1, <1>1, <1>3
<1>8. ASSUME NEW x PROVE x \in ToSet(t) <=> x \in ToSet(s) /\ x \notin ToSet(rest)
  <2>1. ASSUME NEW j \in 1..(Len(d) + k), NEW l \in 1..(Len(i) - k), s[j] = rest[l] PROVE FALSE
    <3>1. Len(d) + k + l \in DOMAIN s /\ j \in 1..(Len(d) + k + l - 1)
      BY <1>1, <1>7
    <3>2. s[j] < s[Len(d) + k + l]
      BY <3>1, <1>5 DEF Increasing
    <3>3. s[j] \in Nat
      BY <1>1
    <3> QED
      BY <3>2, <3>3, <2>1, <1>7
  <2>2. ASSUME NEW j \in DOMAIN s, j \notin 1..(Len(d) + k)
        PROVE  \E l \in 1..(Len(i) - k) : rest[l] = s[j]
    <3>1. j - Len(d) - k \in 1..(Len(i) - k) /\ Len(d) + k + (j - Len(d) - k) = j
      BY <2>2, <1>1
    <3> QED
      BY <3>1, <1>7
  <2>3. x \in ToSet(t) <=> \E j \in 1..(Len(d) + k) : s[j] = x
    BY <1>4 DEF ToSet
  <2>4. x \in ToSet(s) <=> \E j \in DOMAIN s : s[j] = x
    BY DEF ToSet
  <2>5. x \in ToSet(rest) <=> \E j \in 1..(Len(i) - k) : rest[j] = x
    BY <1>3 DEF ToSet
  <2>6. 1..(Len(d) + k) \subseteq DOMAIN s
    BY <1>1
  <2> QED
    BY <2>1, <2>2, <2>3, <2>4, <2>5, <2>6
<1>9. ToSet(rest) \subseteq 1..n
  BY <1>3, <1>7 DEF ToSet
<1>10. ToSet(t) = ToSet(s) \ ToSet(rest)
  BY <1>8
<1> QED
  BY <1>2, <1>6, <1>9, <1>10 DEF head, rest, s, t

(* Handing an event on leaves the stream as it is.                         *)
LEMMA HandOn ==
    ASSUME NEW S, NEW d \in Seq(S), NEW i \in Seq(S), i # <<>>
    PROVE  Append(d, Head(i)) \o Tail(i) = d \o i
OBVIOUS


-----------------------------------------------------------------------------
(* Types. *)

LEMMA Widened == ASSUME NEW S, NEW T, S \subseteq T, NEW s \in Seq(S) PROVE s \in Seq(T)
OBVIOUS

LEMMA ElementOf == ASSUME NEW S, NEW s \in Seq(S), NEW n \in 1..Len(s) PROVE s[n] \in S
OBVIOUS

LEMMA Updated ==
    ASSUME NEW S, NEW l \in Nat, NEW c \in Column(l, S), NEW n \in 1..l, NEW x \in S
    PROVE  c[n] \in S /\ [c EXCEPT ![n] = x] \in Column(l, S)
BY DEF Column

LEMMA Extended ==
    ASSUME NEW S, NEW T, S \subseteq T, NEW l \in Nat, NEW c \in Column(l, S), NEW x \in T
    PROVE  Append(c, x) \in Column(l + 1, T)
BY Widened DEF Column

LEMMA Inits == Init => IInv
<1> SUFFICES ASSUME Init PROVE IInv
  OBVIOUS
<1>1. Types
  BY DeliveryAssumption DEF Init, Types, Column, Messages, Events, DeliveryAssumption
<1>2. \A p \in Procs : Stream(p) = <<>>
  BY DEF Init, Stream
<1>3. OneStream
  BY <1>2, OneStreamOf DEF Init, Events, Increasing, ToSet
<1>4. Published
  BY DEF Init, Published, Messages, Events
<1> QED
  BY <1>1, <1>3, <1>4 DEF IInv

LEMMA HandleTypes ==
    ASSUME Types, NEW p \in Procs, HandleMessage(p)
    PROVE  Types'
<1>1. /\ origin' \in Seq(Procs) /\ Len(origin') = Len(origin) + 1 /\ Len(origin) \in Nat
      /\ Messages \subseteq Messages'
  BY DEF Types, HandleMessage, Messages
<1>2. Content(p) \subseteq Messages
  BY DEF Types, Content, Messages, Events, ToSet
<1>3. SUBSET Messages \subseteq SUBSET Messages' /\ Content(p) \in SUBSET Messages'
  BY <1>1, <1>2
<1>4. known' \in Column(Len(origin'), SUBSET Messages')
  BY <1>1, <1>3, Extended DEF Types, HandleMessage
<1>5. /\ persist' \in Column(Len(origin'), {"calling", "ended"})
      /\ publish' \in Column(Len(origin'), {"trying", "ended"})
  BY <1>1, Extended DEF Types, HandleMessage
<1>6. 0 \in Nat /\ 0 \in 0..MaxTries
  BY DeliveryAssumption DEF DeliveryAssumption
<1>7. /\ tries' \in Column(Len(origin'), 0..MaxTries)
      /\ pending' \in Column(Len(origin'), Nat)
  BY <1>1, <1>6, Extended DEF Types, HandleMessage
<1>8. log' \in Seq(Messages') /\ Events' = Events
  BY <1>1, Widened DEF Types, HandleMessage, Events
<1>9. UNCHANGED <<alive, linked, inbox, dispatched, missed>>
  BY DEF HandleMessage, subscription
<1> QED
  BY <1>1, <1>4, <1>5, <1>7, <1>8, <1>9 DEF Types

(* Steps that touch neither the log nor the streams, except HandleMessage. *)
LEMMA GoroutineTypes ==
    ASSUME Types, NEW n \in Messages, Goroutine(n) \/ CommandLost(n)
    PROVE  Types'
<1>1. /\ UNCHANGED <<alive, origin, known, log, linked, inbox, dispatched, missed>>
      /\ persist' = persist \/ persist' = [persist EXCEPT ![n] = "ended"]
      /\ publish' = publish \/ publish' = [publish EXCEPT ![n] = "ended"]
      /\ tries' = tries \/ (tries[n] < MaxTries /\ tries' = [tries EXCEPT ![n] = tries[n] + 1])
      /\ \/ pending' = pending
         \/ pending' = [pending EXCEPT ![n] = pending[n] + 1]
         \/ pending[n] > 0 /\ pending' = [pending EXCEPT ![n] = pending[n] - 1]
  BY DEF Goroutine, Persist, Send, PublishFails, CommandLost, goroutines, redis, subscription
<1>2. origin \in Seq(Procs) /\ n \in 1..Len(origin)
  BY DEF Types, Messages
<1>0. /\ persist \in Column(Len(origin), {"calling", "ended"})
      /\ publish \in Column(Len(origin), {"trying", "ended"})
      /\ tries \in Column(Len(origin), 0..MaxTries)
      /\ pending \in Column(Len(origin), Nat) /\ Len(origin) \in Nat
  BY DEF Types
<1>3. tries[n] \in 0..MaxTries /\ pending[n] \in Nat
  <2>1. tries[n] \in 0..MaxTries
    <3>1. tries \in Seq(0..MaxTries) /\ n \in 1..Len(tries)
      BY <1>2, <1>0 DEF Column
    <3> QED
      BY <3>1, ElementOf
  <2>2. pending[n] \in Nat
    BY <1>2, <1>0, Updated
  <2> QED
    BY <2>1, <2>2
<1>4. tries[n] < MaxTries => tries[n] + 1 \in 0..MaxTries
  BY <1>3, DeliveryAssumption DEF DeliveryAssumption
<1>5. pending[n] + 1 \in Nat /\ (pending[n] > 0 => pending[n] - 1 \in Nat)
  BY <1>3
<1>6. persist' \in Column(Len(origin), {"calling", "ended"})
  BY <1>1, <1>2, <1>0, Updated
<1>7. publish' \in Column(Len(origin), {"trying", "ended"})
  BY <1>1, <1>2, <1>0, Updated
<1>8. tries' \in Column(Len(origin), 0..MaxTries)
  <2>1. CASE tries' = tries
    BY <2>1, <1>0
  <2>2. CASE tries[n] < MaxTries /\ tries' = [tries EXCEPT ![n] = tries[n] + 1]
    <3>1. tries[n] + 1 \in 0..MaxTries
      BY <2>2, <1>4
    <3> QED
      BY <2>2, <3>1, <1>2, <1>0, Updated
  <2> QED
    BY <2>1, <2>2, <1>1
<1>9. pending' \in Column(Len(origin), Nat)
  <2>1. CASE pending' = pending
    BY <2>1, <1>0
  <2>2. CASE pending' = [pending EXCEPT ![n] = pending[n] + 1]
    <3>1. pending[n] + 1 \in Nat
      BY <1>5
    <3> QED
      BY <2>2, <3>1, <1>2, <1>0, Updated
  <2>3. CASE pending[n] > 0 /\ pending' = [pending EXCEPT ![n] = pending[n] - 1]
    <3>1. pending[n] - 1 \in Nat
      BY <2>3, <1>5
    <3> QED
      BY <2>3, <3>1, <1>2, <1>0, Updated
  <2> QED
    BY <2>1, <2>2, <2>3, <1>1
<1> QED
  BY <1>1, <1>6, <1>7, <1>8, <1>9 DEF Types, Messages, Events

LEMMA ExecuteTypes ==
    ASSUME Types, NEW n \in Messages, Execute(n)
    PROVE  Types'
<1>1. /\ UNCHANGED <<alive, origin, known, persist, tries, linked, dispatched>>
      /\ pending[n] > 0 /\ pending' = [pending EXCEPT ![n] = pending[n] - 1]
      /\ log' = Append(log, n)
      /\ publish' = [publish EXCEPT ![n] = publish[n]] \/ publish' = [publish EXCEPT ![n] = "ended"]
  BY DEF Execute
<1>2. origin \in Seq(Procs) /\ n \in 1..Len(origin)
  BY DEF Types, Messages
<1>3. /\ publish \in Column(Len(origin), {"trying", "ended"})
      /\ pending \in Column(Len(origin), Nat) /\ Len(origin) \in Nat
  BY DEF Types
<1>4. pending[n] \in Nat /\ publish[n] \in {"trying", "ended"} /\ pending[n] - 1 \in Nat
  BY <1>1, <1>2, <1>3 DEF Column
<1>5. pending' \in Column(Len(origin), Nat)
  BY <1>1, <1>2, <1>4, <1>3, Updated
<1>6. publish' \in Column(Len(origin), {"trying", "ended"})
  <2>1. CASE publish' = [publish EXCEPT ![n] = publish[n]]
    BY <2>1, <1>2, <1>4, <1>3, Updated
  <2>2. CASE publish' = [publish EXCEPT ![n] = "ended"]
    BY <2>2, <1>2, <1>3, Updated
  <2> QED
    BY <2>1, <2>2, <1>1
<1>7. /\ log' \in Seq(Messages) /\ Len(log') \in Events'
      /\ Events \subseteq Events'
  BY <1>1 DEF Types, Events
<1>8. \A p \in Procs : inbox[p] \in Seq(Events') /\ dispatched[p] \in Seq(Events')
  BY <1>7, Widened DEF Types
<1>9. inbox' \in [Procs -> Seq(Events')] /\ dispatched' \in [Procs -> Seq(Events')]
  BY <1>1, <1>7, <1>8 DEF Types, Execute
<1>10. missed' \in [Procs -> SUBSET Events']
  BY <1>7 DEF Types, Execute
<1> QED
  BY <1>1, <1>5, <1>6, <1>7, <1>9, <1>10 DEF Types, Messages

(* What a step of the process makes of its stream and of its losses.       *)
LEMMA ProcessStreams ==
    ASSUME Types, NEW p \in Procs, Link(p) \/ Unlink(p) \/ Subscriber(p) \/ Crash(p) \/ Start(p)
    PROVE  /\ UNCHANGED <<origin, known, log>>
           /\ \E k \in 0..Len(inbox[p]) :
                \/ /\ inbox' = [inbox EXCEPT ![p] = SubSeq(inbox[p], 1, k)]
                   /\ missed' = [missed EXCEPT ![p] = missed[p] \union
                                    ToSet(SubSeq(inbox[p], k + 1, Len(inbox[p])))]
                   /\ dispatched' = dispatched
                \/ /\ inbox[p] # <<>>
                   /\ dispatched' = [dispatched EXCEPT ![p] = Append(dispatched[p], Head(inbox[p]))]
                   /\ inbox' = [inbox EXCEPT ![p] = Tail(inbox[p])]
                   /\ missed' = missed
<1>1. inbox[p] \in Seq(Events) /\ missed[p] \subseteq Events
  BY DEF Types
<1>2. CASE Subscriber(p)
  <2>1. 0 \in 0..Len(inbox[p])
    BY <1>1
  <2> QED
    BY <1>2, <2>1 DEF Subscriber, goroutines, redis
<1>3. CASE Unlink(p)
  BY <1>3 DEF Unlink, goroutines, redis
<1>4. CASE Link(p) \/ Start(p)
  <2>1. UNCHANGED <<origin, known, log, inbox, dispatched, missed>>
    BY <1>4 DEF Link, Start, goroutines, redis, subscription
  <2>2. /\ Len(inbox[p]) \in 0..Len(inbox[p])
        /\ SubSeq(inbox[p], 1, Len(inbox[p])) = inbox[p]
        /\ SubSeq(inbox[p], Len(inbox[p]) + 1, Len(inbox[p])) = <<>>
    BY <1>1
  <2>3. ToSet(<<>>) = {}
    BY DEF ToSet
  <2> QED
    BY <2>1, <2>2, <2>3 DEF Types
<1>5. CASE Crash(p)
  <2>1. /\ 0 \in 0..Len(inbox[p]) /\ SubSeq(inbox[p], 1, 0) = <<>>
        /\ SubSeq(inbox[p], 0 + 1, Len(inbox[p])) = inbox[p]
    BY <1>1
  <2> QED
    BY <1>5, <2>1 DEF Crash, redis
<1> QED
  BY <1>2, <1>3, <1>4, <1>5

LEMMA CrashColumns ==
    ASSUME Types, NEW p \in Procs, Crash(p)
    PROVE  /\ persist' \in Column(Len(origin), {"calling", "ended"})
           /\ publish' \in Column(Len(origin), {"trying", "ended"})
<1>1. ASSUME NEW S, NEW c \in Column(Len(origin), S), "ended" \in S
      PROVE  EndedWith(p, c) \in Column(Len(origin), S)
  <2>1. Len(origin) \in Nat /\ Messages = 1..Len(origin)
    BY DEF Types, Messages
  <2>2. \A n \in 1..Len(origin) : c[n] \in S
    BY <1>1, <2>1 DEF Column
  <2>3. EndedWith(p, c) = [n \in 1..Len(origin) |-> IF origin[n] = p THEN "ended" ELSE c[n]]
    BY <2>1 DEF EndedWith
  <2> QED
    BY <1>1, <2>1, <2>2, <2>3 DEF Column
<1> QED
  BY <1>1 DEF Types, Crash

LEMMA ProcessTypes ==
    ASSUME Types, NEW p \in Procs, Process(p)
    PROVE  Types'
<1>1. CASE HandleMessage(p)
  BY <1>1, HandleTypes
<1>2. CASE Link(p) \/ Unlink(p) \/ Subscriber(p) \/ Crash(p) \/ Start(p)
  <2>1. PICK k \in 0..Len(inbox[p]) :
                \/ /\ inbox' = [inbox EXCEPT ![p] = SubSeq(inbox[p], 1, k)]
                   /\ missed' = [missed EXCEPT ![p] = missed[p] \union
                                    ToSet(SubSeq(inbox[p], k + 1, Len(inbox[p])))]
                   /\ dispatched' = dispatched
                \/ /\ inbox[p] # <<>>
                   /\ dispatched' = [dispatched EXCEPT ![p] = Append(dispatched[p], Head(inbox[p]))]
                   /\ inbox' = [inbox EXCEPT ![p] = Tail(inbox[p])]
                   /\ missed' = missed
    BY <1>2, ProcessStreams
  <2>2. UNCHANGED <<origin, known, log, tries, pending>> /\ alive' \subseteq Procs /\ linked' \subseteq alive'
    BY <1>2 DEF Types, Link, Unlink, Subscriber, Crash, Start, goroutines, redis, subscription
  <2>3. /\ inbox[p] \in Seq(Events) /\ dispatched[p] \in Seq(Events) /\ missed[p] \subseteq Events
        /\ k \in Nat /\ k <= Len(inbox[p]) /\ Len(inbox[p]) \in Nat
    BY DEF Types
  <2>4. /\ SubSeq(inbox[p], 1, k) \in Seq(Events)
        /\ SubSeq(inbox[p], k + 1, Len(inbox[p])) \in Seq(Events)
    BY <2>3
  <2>5. ToSet(SubSeq(inbox[p], k + 1, Len(inbox[p]))) \subseteq Events
    BY <2>4 DEF ToSet
  <2>6. inbox[p] # <<>> => /\ Append(dispatched[p], Head(inbox[p])) \in Seq(Events)
                           /\ Tail(inbox[p]) \in Seq(Events)
    BY <2>3
  <2>7. /\ inbox' \in [Procs -> Seq(Events)] /\ dispatched' \in [Procs -> Seq(Events)]
        /\ missed' \in [Procs -> SUBSET Events]
    BY <2>1, <2>3, <2>4, <2>5, <2>6 DEF Types
  <2>8. /\ persist' \in Column(Len(origin), {"calling", "ended"})
        /\ publish' \in Column(Len(origin), {"trying", "ended"})
    <3>1. CASE Crash(p)
      BY <3>1, CrashColumns
    <3>2. CASE Link(p) \/ Unlink(p) \/ Subscriber(p) \/ Start(p)
      BY <3>2 DEF Types, Link, Unlink, Subscriber, Start, goroutines
    <3> QED
      BY <1>2, <3>1, <3>2
  <2> QED
    BY <2>2, <2>7, <2>8 DEF Types, Messages, Events
<1> QED
  BY <1>1, <1>2 DEF Process

LEMMA TypesStep == Types /\ [Next]_vars => Types'
<1> SUFFICES ASSUME Types, [Next]_vars PROVE Types'
  OBVIOUS
<1>1. CASE UNCHANGED vars
  BY <1>1 DEF Types, vars, goroutines, redis, subscription, Messages, Events
<1>2. ASSUME NEW n \in Messages, Goroutine(n) \/ Network(n) PROVE Types'
  BY <1>2, GoroutineTypes, ExecuteTypes DEF Network
<1>3. ASSUME NEW p \in Procs, Process(p) PROVE Types'
  BY <1>3, ProcessTypes
<1> QED
  BY <1>1, <1>2, <1>3 DEF Next

-----------------------------------------------------------------------------
(* Streams and the log. *)

LEMMA StreamTypes ==
    ASSUME Types, NEW p \in Procs
    PROVE  /\ Len(log) \in Nat /\ Events = 1..Len(log)
           /\ inbox[p] \in Seq(1..Len(log)) /\ dispatched[p] \in Seq(1..Len(log))
           /\ missed[p] \subseteq 1..Len(log)
           /\ Stream(p) \in Seq(1..Len(log))
BY DEF Types, Events, Stream

LEMMA ExecuteStreams ==
    ASSUME Types, OneStream, NEW n \in Messages, Execute(n)
    PROVE  OneStream'
<1> SUFFICES ASSUME NEW p \in Procs
             PROVE  Increasing(Stream(p)') /\ ToSet(Stream(p)') = Events' \ missed'[p]
  BY OneStreamOf DEF OneStream, Increasing, Stream
<1> DEFINE l == Len(log)
<1>1. /\ l \in Nat /\ Events = 1..l /\ missed[p] \subseteq 1..l /\ Stream(p) \in Seq(1..l)
      /\ inbox[p] \in Seq(1..l) /\ dispatched[p] \in Seq(1..l)
  BY StreamTypes
<1>2. Increasing(Stream(p)) /\ ToSet(Stream(p)) = Events \ missed[p]
  BY OneStreamOf
<1>3. /\ Len(log') = l + 1 /\ Events' = 1..(l + 1) /\ dispatched' = dispatched
      /\ inbox'[p] = IF p \in linked THEN Append(inbox[p], l + 1) ELSE inbox[p]
      /\ missed'[p] = IF p \in linked THEN missed[p] ELSE missed[p] \union {l + 1}
  BY DEF Types, Execute, Events
<1> HIDE DEF l
<1>4. CASE p \in linked
  <2>1. dispatched[p] \in Seq(1..(l + 1)) /\ inbox[p] \in Seq(1..(l + 1)) /\ l + 1 \in 1..(l + 1)
    BY <1>1, Widened
  <2>2. Stream(p)' = Append(Stream(p), l + 1)
    <3>1. Stream(p)' = dispatched[p] \o Append(inbox[p], l + 1)
      BY <1>3, <1>4 DEF Stream
    <3>2. ASSUME NEW d \in Seq(1..(l + 1)), NEW i \in Seq(1..(l + 1)), NEW x \in 1..(l + 1)
          PROVE  d \o Append(i, x) = Append(d \o i, x)
      OBVIOUS
    <3> QED
      BY <2>1, <3>1, <3>2 DEF Stream
  <2>3. Increasing(Append(Stream(p), l + 1)) /\ ToSet(Append(Stream(p), l + 1)) = ToSet(Stream(p)) \cup {l + 1}
    BY <1>1, <1>2, Longer
  <2> QED
    BY <1>1, <1>2, <1>3, <1>4, <2>2, <2>3
<1>5. CASE p \notin linked
  <2>1. Stream(p)' = Stream(p)
    BY <1>3, <1>5 DEF Stream
  <2> QED
    BY <1>1, <1>2, <1>3, <1>5, <2>1
<1> QED
  BY <1>4, <1>5

LEMMA ProcessOneStream ==
    ASSUME Types, OneStream, NEW q \in Procs,
           Link(q) \/ Unlink(q) \/ Subscriber(q) \/ Crash(q) \/ Start(q)
    PROVE  OneStream'
<1> SUFFICES ASSUME NEW p \in Procs
             PROVE  Increasing(Stream(p)') /\ ToSet(Stream(p)') = Events' \ missed'[p]
  BY OneStreamOf DEF OneStream, Increasing, Stream
<1>1. Increasing(Stream(p)) /\ ToSet(Stream(p)) = Events \ missed[p]
  BY OneStreamOf
<1>2. PICK k \in 0..Len(inbox[q]) :
                \/ /\ inbox' = [inbox EXCEPT ![q] = SubSeq(inbox[q], 1, k)]
                   /\ missed' = [missed EXCEPT ![q] = missed[q] \union
                                    ToSet(SubSeq(inbox[q], k + 1, Len(inbox[q])))]
                   /\ dispatched' = dispatched
                \/ /\ inbox[q] # <<>>
                   /\ dispatched' = [dispatched EXCEPT ![q] = Append(dispatched[q], Head(inbox[q]))]
                   /\ inbox' = [inbox EXCEPT ![q] = Tail(inbox[q])]
                   /\ missed' = missed
  BY ProcessStreams
<1>3. Events' = Events
  BY ProcessStreams DEF Events
<1>4. inbox \in [Procs -> Seq(Events)] /\ dispatched \in [Procs -> Seq(Events)] /\ missed \in [Procs -> SUBSET Events]
  BY DEF Types
<1>5. CASE p # q
  <2>1. inbox'[p] = inbox[p] /\ dispatched'[p] = dispatched[p] /\ missed'[p] = missed[p]
    BY <1>2, <1>4, <1>5
  <2> QED
    BY <1>1, <1>3, <2>1 DEF Stream
<1>6. CASE /\ p = q /\ dispatched' = dispatched
           /\ inbox' = [inbox EXCEPT ![q] = SubSeq(inbox[q], 1, k)]
           /\ missed' = [missed EXCEPT ![q] = missed[q] \union
                                    ToSet(SubSeq(inbox[q], k + 1, Len(inbox[q])))]
  <2>1. /\ inbox'[p] = SubSeq(inbox[p], 1, k) /\ dispatched'[p] = dispatched[p]
        /\ missed'[p] = missed[p] \union ToSet(SubSeq(inbox[p], k + 1, Len(inbox[p])))
    BY <1>4, <1>6
  <2>2. /\ Len(log) \in Nat /\ dispatched[p] \in Seq(1..Len(log)) /\ inbox[p] \in Seq(1..Len(log))
        /\ k \in 0..Len(inbox[p]) /\ Increasing(dispatched[p] \o inbox[p])
    BY <1>1, <1>6, StreamTypes DEF Stream
  <2>3. /\ Increasing(dispatched[p] \o SubSeq(inbox[p], 1, k))
        /\ ToSet(dispatched[p] \o SubSeq(inbox[p], 1, k))
             = ToSet(dispatched[p] \o inbox[p]) \ ToSet(SubSeq(inbox[p], k + 1, Len(inbox[p])))
    BY <2>2, Cut
  <2>4. Stream(p)' = dispatched[p] \o SubSeq(inbox[p], 1, k)
    BY <2>1 DEF Stream
  <2> QED
    BY <1>1, <1>3, <2>1, <2>3, <2>4 DEF Stream
<1>7. CASE /\ p = q /\ inbox[q] # <<>>
           /\ dispatched' = [dispatched EXCEPT ![q] = Append(dispatched[q], Head(inbox[q]))]
           /\ inbox' = [inbox EXCEPT ![q] = Tail(inbox[q])]
           /\ missed' = missed
  <2>1. /\ inbox'[p] = Tail(inbox[p]) /\ dispatched'[p] = Append(dispatched[p], Head(inbox[p]))
        /\ missed'[p] = missed[p] /\ inbox[p] # <<>>
        /\ inbox[p] \in Seq(Events) /\ dispatched[p] \in Seq(Events)
    BY <1>4, <1>7
  <2>2. Stream(p)' = Stream(p)
    BY <2>1, HandOn DEF Stream
  <2> QED
    BY <1>1, <1>3, <2>1, <2>2
<1> QED
  BY <1>2, <1>5, <1>6, <1>7

LEMMA OneStreamStep == Types /\ OneStream /\ [Next]_vars => OneStream'
<1> SUFFICES ASSUME Types, OneStream, [Next]_vars PROVE OneStream'
  OBVIOUS
<1>1. ASSUME NEW n \in Messages, Execute(n) PROVE OneStream'
  BY <1>1, ExecuteStreams
<1>2. ASSUME NEW p \in Procs, Process(p), ~HandleMessage(p) PROVE OneStream'
  BY <1>2, ProcessOneStream DEF Process
<1>3. CASE UNCHANGED <<log, inbox, dispatched, missed>>
  BY <1>3 DEF OneStream, Events
<1>4. ASSUME NEW n \in Messages, Goroutine(n) \/ CommandLost(n)
      PROVE  UNCHANGED <<log, inbox, dispatched, missed>>
  BY <1>4 DEF Goroutine, Persist, Send, PublishFails, CommandLost, redis, subscription
<1>5. ASSUME NEW p \in Procs, HandleMessage(p)
      PROVE  UNCHANGED <<log, inbox, dispatched, missed>>
  BY <1>5 DEF HandleMessage, subscription
<1>6. UNCHANGED vars => UNCHANGED <<log, inbox, dispatched, missed>>
  BY DEF vars, redis, subscription
<1> QED
  BY <1>1, <1>2, <1>3, <1>4, <1>5, <1>6 DEF Next, Network

LEMMA PublishedStep == Types /\ Published /\ [Next]_vars => Published'
<1> SUFFICES ASSUME Types, Published, [Next]_vars PROVE Published'
  OBVIOUS
<1>0. /\ Len(log) \in Nat /\ Events = 1..Len(log) /\ Len(origin) \in Nat /\ Messages = 1..Len(origin)
      /\ \A e \in Events : log[e] \in Messages
      /\ known \in Seq(SUBSET Messages) /\ Len(known) = Len(origin)
  BY DEF Types, Column, Events, Messages
<1>1. ASSUME NEW p \in Procs, HandleMessage(p) PROVE Published'
  <2>1. /\ known' = Append(known, Content(p)) /\ log' = log /\ Events' = Events
        /\ Messages' = Messages \cup {Len(origin) + 1}
    BY <1>1 DEF Types, HandleMessage, Events, Messages
  <2>2. /\ \A n \in Messages : known'[n] = known[n]
        /\ known'[Len(origin) + 1] = Content(p)
    BY <2>1, <1>0
  <2>3. \A m \in Content(p) : \E i \in Events : log[i] = m
    BY DEF Types, Content, ToSet
  <2> QED
    BY <2>1, <2>2, <2>3, <1>0 DEF Published
<1>2. ASSUME NEW n \in Messages, Execute(n) PROVE Published'
  <2>1. /\ known' = known /\ Messages' = Messages
        /\ log' = Append(log, n) /\ Events' = Events \cup {Len(log) + 1}
    BY <1>2 DEF Types, Execute, Events, Messages
  <2>2. /\ \A e \in Events : log'[e] = log[e]
        /\ log'[Len(log) + 1] = n
    BY <2>1, <1>0 DEF Types
  <2>3. ASSUME NEW m \in Messages PROVE \A x \in known'[m] : \E i \in Events' : log'[i] = x
    BY <2>1, <2>2 DEF Published
  <2>4. ASSUME NEW e \in Events, NEW x \in known'[log'[e]] PROVE \E i \in 1..(e - 1) : log'[i] = x
    <3>1. PICK i \in 1..(e - 1) : log[i] = x
      BY <2>1, <2>2 DEF Published
    <3>2. i \in Events
      BY <1>0
    <3> QED
      BY <3>1, <3>2, <2>2
  <2>5. ASSUME NEW x \in known'[n] PROVE \E i \in 1..((Len(log) + 1) - 1) : log'[i] = x
    BY <2>1, <2>2, <1>0 DEF Published
  <2> QED
    BY <2>1, <2>2, <2>3, <2>4, <2>5 DEF Published
<1>3. CASE UNCHANGED <<known, log, origin>>
  BY <1>3 DEF Published, Events, Messages
<1>4. ASSUME NEW n \in Messages, Goroutine(n) \/ CommandLost(n)
      PROVE  UNCHANGED <<known, log, origin>>
  BY <1>4 DEF Goroutine, Persist, Send, PublishFails, CommandLost, redis
<1>5. ASSUME NEW p \in Procs, Process(p), ~HandleMessage(p)
      PROVE  UNCHANGED <<known, log, origin>>
  BY <1>5, ProcessStreams DEF Process
<1>6. UNCHANGED vars => UNCHANGED <<known, log, origin>>
  BY DEF vars, redis
<1> QED
  BY <1>1, <1>2, <1>3, <1>4, <1>5, <1>6 DEF Next, Network

LEMMA Invariance == Spec => []IInv
<1>1. IInv /\ [Next]_vars => IInv'
  BY TypesStep, OneStreamStep, PublishedStep DEF IInv
<1> QED
  BY <1>1, Inits, PTL DEF Spec

(* Every variable keeps its type: in particular what a process has waiting *)
(* or has handed on are events that Redis executed.                        *)
THEOREM TypeCorrect == Spec => []Types
<1>1. IInv => Types
  BY DEF IInv
<1> QED
  BY <1>1, Invariance, PTL

(* Every process shows Redis's order, each event once, and lacks only what *)
(* its subscription lost.                                                  *)
THEOREM ProcessesShareOneStream == Spec => []OneStream
<1>1. IInv => OneStream
  BY DEF IInv
<1> QED
  BY <1>1, Invariance, PTL

(* No process shows an answer before, or instead of, its question, unless  *)
(* its subscription lost the question.  What a writer had seen is in the   *)
(* log before what it wrote (Published), and every process goes through    *)
(* the log in order (OneStream).                                           *)
THEOREM AnswersFollowQuestions == Spec => []CausalOrder
<1>1. IInv => CausalOrder
  <2> SUFFICES ASSUME Types, OneStream, Published,
                      NEW p \in Procs, NEW j \in DOMAIN dispatched[p],
                      NEW m \in known[log[dispatched[p][j]]]
               PROVE  \E i \in 1..(dispatched[p][j] - 1) :
                        /\ log[i] = m
                        /\ i \in missed[p] \/ \E k \in 1..(j - 1) : dispatched[p][k] = i
    BY DEF IInv, CausalOrder
  <2> DEFINE e == dispatched[p][j]
             s == Stream(p)
  <2>1. /\ Events = 1..Len(log) /\ Len(log) \in Nat /\ inbox[p] \in Seq(1..Len(log))
        /\ dispatched[p] \in Seq(1..Len(log)) /\ s \in Seq(1..Len(log))
    BY StreamTypes
  <2>2. e \in Events /\ j \in Nat /\ j <= Len(dispatched[p]) /\ j \in 1..Len(dispatched[p])
    BY <2>1
  <2>3. PICK i \in 1..(e - 1) : log[i] = m
    BY <2>2 DEF Published
  <2>4. i \in Events /\ i < e
    BY <2>1, <2>2
  <2>5. CASE i \notin missed[p]
    <3>1. Increasing(s) /\ ToSet(s) = Events \ missed[p]
      BY OneStreamOf
    <3>2. PICK k \in DOMAIN s : s[k] = i
      BY <3>1, <2>4, <2>5 DEF ToSet
    <3>3. /\ DOMAIN s = 1..(Len(dispatched[p]) + Len(inbox[p]))
          /\ \A x \in 1..Len(dispatched[p]) : s[x] = dispatched[p][x]
      <4>1. ASSUME NEW d \in Seq(1..Len(log)), NEW w \in Seq(1..Len(log))
            PROVE  /\ DOMAIN (d \o w) = 1..(Len(d) + Len(w))
                   /\ \A x \in 1..Len(d) : (d \o w)[x] = d[x]
        OBVIOUS
      <4> QED
        BY <4>1, <2>1 DEF Stream
    <3> HIDE DEF s
    <3>0. Len(inbox[p]) \in Nat /\ Len(dispatched[p]) \in Nat
      BY <2>1
    <3>4. s[j] = e /\ k \in Nat /\ j \in DOMAIN s
      <4>1. s[j] = e
        BY <3>3, <2>2
      <4>2. k \in Nat
        BY <3>3, <3>0
      <4>3. j \in DOMAIN s
        <5>1. \A a, b \in Nat : 1..a \subseteq 1..(a + b)
          OBVIOUS
        <5>2. 1..Len(dispatched[p]) \subseteq DOMAIN s
          BY <5>1, <3>3, <3>0
        <5> QED
          BY <5>2, <2>2
      <4> QED
        BY <4>1, <4>2, <4>3
    <3>5. ~(j < k)
      <4>1. SUFFICES ASSUME j < k PROVE FALSE
        OBVIOUS
      <4>2. s[j] < s[k]
        BY <4>1, <3>1, <3>4, <2>2 DEF Increasing
      <4> QED
        BY <4>2, <3>2, <3>4, <2>4, <2>1
    <3>6. j # k
      BY <3>2, <3>4, <2>4, <2>1
    <3>7. k \in 1..(j - 1) /\ k \in 1..Len(dispatched[p])
      BY <3>3, <3>4, <3>5, <3>6, <2>2
    <3> QED
      BY <3>2, <3>3, <3>7, <2>3
  <2> QED
    BY <2>3, <2>5
<1> QED
  BY <1>1, Invariance, PTL

-----------------------------------------------------------------------------
(* RealtimeDelivery implements SharedLog. *)

(* What waits in a stream comes after all that was handed on.              *)
LEMMA WaitingIsLater ==
    ASSUME NEW n \in Nat, NEW d \in Seq(1..n), NEW i \in Seq(1..n), Increasing(d \o i)
    PROVE  /\ ToSet(d) \cap ToSet(i) = {}
           /\ i # <<>> => \A x \in ToSet(d \o i) : x < Head(i) => x \in ToSet(d)
<1> DEFINE s == d \o i
<1>1. /\ Len(d) \in Nat /\ Len(i) \in Nat
      /\ DOMAIN s = 1..(Len(d) + Len(i)) /\ DOMAIN d = 1..Len(d) /\ DOMAIN i = 1..Len(i)
      /\ \A j \in 1..Len(d) : s[j] = d[j]
      /\ \A j \in 1..Len(i) : s[Len(d) + j] = i[j]
      /\ \A j \in 1..(Len(d) + Len(i)) : s[j] \in 1..n
  OBVIOUS
<1>2. \A j \in DOMAIN s : \A k \in 1..(j - 1) : s[k] < s[j]
  BY DEF Increasing
<1> HIDE DEF s
<1>3. ASSUME NEW k \in 1..Len(d), NEW j \in 1..Len(i) PROVE d[k] # i[j]
  <2>1. Len(d) + j \in DOMAIN s /\ k \in 1..((Len(d) + j) - 1) /\ k \in DOMAIN s
    BY <1>1
  <2>2. s[k] < s[Len(d) + j]
    BY <1>2, <2>1
  <2>3. s[k] \in Nat /\ s[k] = d[k] /\ s[Len(d) + j] = i[j]
    BY <1>1, <2>1
  <2> QED
    BY <2>2, <2>3
<1>4. ToSet(d) \cap ToSet(i) = {}
  BY <1>1, <1>3 DEF ToSet
<1>5. ASSUME i # <<>>, NEW x \in ToSet(s), x < Head(i) PROVE x \in ToSet(d)
  <2>1. PICK k \in 1..(Len(d) + Len(i)) : s[k] = x
    BY <1>1 DEF ToSet
  <2>2. Head(i) = i[1] /\ 1 \in 1..Len(i) /\ Head(i) = s[Len(d) + 1] /\ Len(d) + 1 \in DOMAIN s
    BY <1>1, <1>5
  <2>3. CASE k \in 1..Len(d)
    BY <1>1, <2>1, <2>3 DEF ToSet
  <2>4. CASE k = Len(d) + 1
    BY <1>1, <1>5, <2>1, <2>2, <2>4
  <2>5. CASE k > Len(d) + 1
    <3>1. Len(d) + 1 \in 1..(k - 1) /\ k \in DOMAIN s
      BY <1>1, <2>1, <2>5
    <3>2. s[Len(d) + 1] < s[k] /\ s[k] \in Nat /\ s[Len(d) + 1] \in Nat
      BY <1>1, <1>2, <2>2, <3>1
    <3> QED
      BY <1>5, <2>1, <2>2, <3>2
  <2> QED
    BY <1>1, <2>3, <2>4, <2>5
<1> QED
  BY <1>4, <1>5 DEF s

(* An event that waits is neither shown nor lost, and all before the first *)
(* one is.                                                                 *)
LEMMA WaitingEvents ==
    ASSUME Types, OneStream, NEW p \in Procs
    PROVE  /\ \A e \in ToSet(inbox[p]) : e \in 1..Len(log) /\ ~Log!Behind(p, e)
           /\ inbox[p] # <<>> => /\ Head(inbox[p]) \in ToSet(inbox[p])
                                 /\ \A i \in 1..(Head(inbox[p]) - 1) : Log!Behind(p, i)
<1>1. /\ Len(log) \in Nat /\ Events = 1..Len(log)
      /\ dispatched[p] \in Seq(1..Len(log)) /\ inbox[p] \in Seq(1..Len(log))
  BY StreamTypes
<1>2. Increasing(dispatched[p] \o inbox[p]) /\ ToSet(dispatched[p] \o inbox[p]) = Events \ missed[p]
  BY OneStreamOf DEF Stream
<1>3. /\ ToSet(dispatched[p]) \cap ToSet(inbox[p]) = {}
      /\ inbox[p] # <<>> => \A x \in ToSet(dispatched[p] \o inbox[p]) :
                                x < Head(inbox[p]) => x \in ToSet(dispatched[p])
  BY <1>1, <1>2, WaitingIsLater
<1>4. ToSet(inbox[p]) \subseteq ToSet(dispatched[p] \o inbox[p])
  <2>1. ASSUME NEW d \in Seq(1..Len(log)), NEW i \in Seq(1..Len(log)) PROVE ToSet(i) \subseteq ToSet(d \o i)
    <3>1. ASSUME NEW j \in DOMAIN i PROVE i[j] = (d \o i)[Len(d) + j] /\ Len(d) + j \in DOMAIN (d \o i)
      OBVIOUS
    <3> QED
      BY <3>1 DEF ToSet
  <2> QED
    BY <2>1, <1>1
<1>5. inbox[p] # <<>> => Head(inbox[p]) \in ToSet(inbox[p]) /\ Head(inbox[p]) \in 1..Len(log)
  BY <1>1 DEF ToSet
<1>6. \A e : Log!Behind(p, e) <=> e \in ToSet(dispatched[p]) \/ e \in missed[p]
  BY DEF Log!Behind, Log!ToSet, ToSet
<1>7. ASSUME NEW e \in ToSet(inbox[p]) PROVE e \in 1..Len(log) /\ ~Log!Behind(p, e)
  BY <1>1, <1>2, <1>3, <1>4, <1>6
<1>8. ASSUME inbox[p] # <<>>, NEW i \in 1..(Head(inbox[p]) - 1) PROVE Log!Behind(p, i)
  <2>1. i \in Events /\ i < Head(inbox[p])
    BY <1>1, <1>5, <1>8
  <2> QED
    BY <1>2, <1>3, <1>6, <1>8, <2>1
<1> QED
  BY <1>5, <1>7, <1>8

LEMMA LogStep == Types /\ OneStream /\ [Next]_vars => [Log!LogNext]_(Log!logVars)
<1> SUFFICES ASSUME Types, OneStream, [Next]_vars PROVE [Log!LogNext]_(Log!logVars)
  OBVIOUS
<1>1. ASSUME NEW n \in Messages, Execute(n) PROVE Log!Publish
  <2> DEFINE absent == Procs \ linked
  <2>1. Len(log') = Len(log) + 1 /\ dispatched' = dispatched
    BY <1>1 DEF Types, Execute
  <2>2. missed' = [p \in Procs |-> IF p \in absent THEN missed[p] \union {Len(log')} ELSE missed[p]]
    BY <1>1 DEF Execute
  <2> QED
    BY <2>1, <2>2 DEF Log!Publish
<1>2. ASSUME NEW p \in Procs, Link(p) \/ Unlink(p) \/ Subscriber(p) \/ Crash(p) \/ Start(p)
      PROVE  Log!Show(p) \/ Log!Lose(p)
  <2>1. Len(log) \in Nat /\ inbox[p] \in Seq(1..Len(log))
    BY StreamTypes
  <2>2. log' = log
    BY <1>2, ProcessStreams
  <2>3. PICK k \in 0..Len(inbox[p]) :
                \/ /\ inbox' = [inbox EXCEPT ![p] = SubSeq(inbox[p], 1, k)]
                   /\ missed' = [missed EXCEPT ![p] = missed[p] \union
                                    ToSet(SubSeq(inbox[p], k + 1, Len(inbox[p])))]
                   /\ dispatched' = dispatched
                \/ /\ inbox[p] # <<>>
                   /\ dispatched' = [dispatched EXCEPT ![p] = Append(dispatched[p], Head(inbox[p]))]
                   /\ inbox' = [inbox EXCEPT ![p] = Tail(inbox[p])]
                   /\ missed' = missed
    BY <1>2, ProcessStreams
  <2>4. CASE /\ missed' = [missed EXCEPT ![p] = missed[p] \union
                                ToSet(SubSeq(inbox[p], k + 1, Len(inbox[p])))]
             /\ dispatched' = dispatched
    <3>1. ToSet(SubSeq(inbox[p], k + 1, Len(inbox[p]))) \subseteq ToSet(inbox[p])
      BY <2>1 DEF ToSet
    <3>2. ToSet(SubSeq(inbox[p], k + 1, Len(inbox[p])))
            \in SUBSET {e \in 1..Len(log) : ~Log!Behind(p, e)}
      BY <3>1, WaitingEvents
    <3> QED
      BY <2>2, <2>4, <3>2 DEF Log!Lose
  <2>5. CASE /\ inbox[p] # <<>> /\ missed' = missed
             /\ dispatched' = [dispatched EXCEPT ![p] = Append(dispatched[p], Head(inbox[p]))]
    <3>1. /\ Head(inbox[p]) \in 1..Len(log) /\ ~Log!Behind(p, Head(inbox[p]))
          /\ \A i \in 1..(Head(inbox[p]) - 1) : Log!Behind(p, i)
      BY <2>5, WaitingEvents
    <3> QED
      BY <2>2, <2>5, <3>1 DEF Log!Show
  <2> QED
    BY <2>3, <2>4, <2>5
<1>3. ASSUME NEW n \in Messages, Goroutine(n) \/ CommandLost(n)
      PROVE  UNCHANGED <<log, dispatched, missed>>
  BY <1>3 DEF Goroutine, Persist, Send, PublishFails, CommandLost, redis, subscription
<1>4. ASSUME NEW p \in Procs, HandleMessage(p)
      PROVE  UNCHANGED <<log, dispatched, missed>>
  BY <1>4 DEF HandleMessage, subscription
<1>5. UNCHANGED vars => UNCHANGED <<log, dispatched, missed>>
  BY DEF vars, redis, subscription
<1>6. UNCHANGED <<log, dispatched, missed>> => UNCHANGED Log!logVars
  BY DEF Log!logVars
<1> QED
  BY <1>1, <1>2, <1>3, <1>4, <1>5, <1>6 DEF Next, Network, Process, Log!LogNext

(* RealtimeDelivery implements SharedLog: one log, shown in its order by   *)
(* every process, with losses only of what was not shown (redis.go:45-54,  *)
(* main.go:75-77).                                                         *)
THEOREM DeliveryIsOneLog == Spec => SharesOneLog
<1>1. Init => Log!LogInit
  BY DEF Init, Log!LogInit
<1>2. IInv /\ [Next]_vars => [Log!LogNext]_(Log!logVars)
  BY LogStep DEF IInv
<1>3. Spec => Log!LogSpec
  BY <1>1, <1>2, Invariance, PTL DEF Spec, Log!LogSpec
<1> QED
  BY <1>3 DEF SharesOneLog
=============================================================================
