---------------------- MODULE FocusBlockServiceProofs ----------------------
(***************************************************************************)
(* Theorems about FocusBlockService, for any calls, sites and queue limit: *)
(* the startup queue, when a request may be refused, that every callback   *)
(* is in one place until it is run, and that the statistics are true.      *)
(***************************************************************************)
EXTENDS FocusBlockService, TLAPS, WellFoundedInduction, FiniteSetTheorems,
        SequenceTheorems

USE DEF prefs, engine, stats, serviceVars

-----------------------------------------------------------------------------
(* The startup queue. *)

QueueInv == pending \in Seq(Calls) /\ QueueBounded

LEMMA QueueInit == ServiceInit => QueueInv
  BY ServiceAssumption DEF ServiceInit, QueueInv, QueueBounded

LEMMA QueueStep == QueueInv /\ [ServiceNext]_serviceVars => QueueInv'
  <1> SUFFICES ASSUME QueueInv, [ServiceNext]_serviceVars PROVE QueueInv'
    OBVIOUS
  <1> USE ServiceAssumption DEF QueueInv, QueueBounded
  <1>1. ASSUME NEW v \in BOOLEAN, SetEnabled(v) PROVE QueueInv'
    BY <1>1 DEF SetEnabled
  <1>2. ASSUME NEW v \in BOOLEAN, NEW s \in Sites, SetEnabledForUrl(s, v) PROVE QueueInv'
    BY <1>2 DEF SetEnabledForUrl
  <1>3. ASSUME NEW ok \in BOOLEAN, EngineRuns(ok) PROVE QueueInv'
    BY <1>3 DEF EngineRuns
  <1>4. CASE OnReply
    <2>1. ASSUME NEW ok, OnEngineReady(ok) PROVE QueueInv'
      BY <2>1 DEF OnEngineReady
    <2>2. CASE UNCHANGED <<pending, finished>>
      BY <2>2
    <2> QED
      BY <1>4, <2>1, <2>2 DEF OnReply, OnMatchCompleted
  <1>5. CASE Shutdown
    BY <1>5 DEF Shutdown
  <1>6. ASSUME NEW c \in Calls, Ask(c) PROVE QueueInv'
    <2>1. UNCHANGED finished /\ (pending' = pending \/ (Enqueues /\ pending' = Append(pending, c)))
      <3>1. PICK s \in Sites \cup {NoSite}, exempt \in BOOLEAN : ShouldBlock(c, s, exempt)
        BY <1>6 DEF Ask
      <3> QED
        BY <3>1 DEF ShouldBlock
    <2>2. CASE pending' = pending
      BY <2>1, <2>2
    <2>3. CASE Enqueues /\ pending' = Append(pending, c)
      <3>1. Len(pending) \in Nat /\ Len(pending') = Len(pending) + 1 /\ pending' \in Seq(Calls)
        BY <2>3
      <3> QED
        BY <2>1, <2>3, <3>1 DEF Enqueues
    <2> QED
      BY <2>1, <2>2, <2>3
  <1>7. CASE UNCHANGED serviceVars
    BY <1>7
  <1> QED
    BY <1>1, <1>2, <1>3, <1>4, <1>5, <1>6, <1>7 DEF ServiceNext, ServiceStep

(* The startup queue never exceeds its limit, and holds no call once the    *)
(* build of the engine has ended or the service has shut down.              *)
THEOREM QueueStaysBounded == ServiceSpec => []QueueBounded
  BY QueueInit, QueueStep, PTL DEF ServiceSpec, QueueInv

-----------------------------------------------------------------------------
(* Verdicts. *)

Answered == answer \in [Calls -> {"unasked", "open", "allow", "block"}]

BlockStep ==
    \A c \in Calls : answer[c] # "block" /\ answer'[c] = "block" => Protected(site[c]) /\ ready

LEMMA AnsweredStep == Answered /\ [ServiceNext]_serviceVars => Answered' /\ [BlockStep]_serviceVars
  <1> SUFFICES ASSUME Answered, [ServiceNext]_serviceVars
               PROVE  Answered' /\ [BlockStep]_serviceVars
    OBVIOUS
  <1> USE DEF Answered, BlockStep
  <1>1. CASE UNCHANGED answer
    BY <1>1
  <1>2. ASSUME NEW v \in BOOLEAN, SetEnabled(v) \/ \E s \in Sites : SetEnabledForUrl(s, v)
        PROVE  UNCHANGED answer
    BY <1>2 DEF SetEnabled, SetEnabledForUrl
  <1>3. ASSUME NEW ok \in BOOLEAN, EngineRuns(ok) PROVE UNCHANGED answer
    BY <1>3 DEF EngineRuns
  <1>4. CASE OnReply
    <2>1. ASSUME NEW ok, OnEngineReady(ok) PROVE Answered' /\ BlockStep
      BY <2>1 DEF OnEngineReady
    <2>2. ASSUME NEW c \in Calls, NEW matched, OnMatchCompleted(c, matched)
          PROVE  Answered' /\ BlockStep
      <3>1. answer' = [answer EXCEPT ![c] = IF Verdict(c, matched) THEN "block" ELSE "allow"]
        BY <2>2 DEF OnMatchCompleted
      <3>2. Verdict(c, matched) => Protected(site[c]) /\ ready
        BY DEF Verdict
      <3> QED
        BY <3>1, <3>2
    <2> QED
      BY <1>1, <1>4, <2>1, <2>2 DEF OnReply
  <1>5. CASE Shutdown
    BY <1>5 DEF Shutdown
  <1>6. ASSUME NEW c \in Calls, Ask(c) PROVE Answered' /\ BlockStep
    <2>1. PICK s \in Sites \cup {NoSite}, exempt \in BOOLEAN : ShouldBlock(c, s, exempt)
      BY <1>6 DEF Ask
    <2>2. PICK verdict \in {"open", "allow"} : answer' = [answer EXCEPT ![c] = verdict]
      BY <2>1 DEF ShouldBlock
    <2> QED
      BY <2>2
  <1>7. CASE UNCHANGED serviceVars
    BY <1>7
  <1> QED
    BY <1>1, <1>2, <1>3, <1>4, <1>5, <1>6, <1>7 DEF ServiceNext, ServiceStep

(* A request is refused only in a step at which its page is protected and   *)
(* the engine ready, however the user changed the policy since the request  *)
(* was queued or matched.                                                   *)
THEOREM RefusalsAreProtected == ServiceSpec => BlockOnlyProtected
  <1>1. ServiceInit => Answered
    BY DEF ServiceInit, Answered
  <1>2. [BlockStep]_serviceVars <=>
        [\A c \in Calls : answer[c] # "block" /\ answer'[c] = "block" =>
             Protected(site[c]) /\ ready]_serviceVars
    BY DEF BlockStep
  <1> QED
    BY <1>1, <1>2, AnsweredStep, PTL DEF ServiceSpec, BlockOnlyProtected

-----------------------------------------------------------------------------
(* Sequences without repetition. *)

LEMMA LeastNumber ==
  ASSUME NEW T, T \subseteq Nat, T # {}
  PROVE  \E n \in T : \A m \in T : n <= m
  <1>1. PICK n \in T : \A m \in T : ~ (<<m, n>> \in OpToRel(<, Nat))
    BY NatLessThanWellFounded, WFMin
  <1>2. \A m \in T : ~ (m < n)
    BY <1>1 DEF OpToRel
  <1> QED BY <1>2

LEMMA AllNumbers ==
  ASSUME NEW S, 0 \in S, \A n \in Nat : n \in S => n + 1 \in S
  PROVE  \A n \in Nat : n \in S
  <1> SUFFICES ASSUME Nat \ S # {} PROVE FALSE
    OBVIOUS
  <1>1. PICK n \in Nat \ S : \A m \in Nat \ S : n <= m
    BY LeastNumber
  <1>2. n # 0
    OBVIOUS
  <1>3. n - 1 \in Nat /\ n - 1 \in S /\ (n - 1) + 1 = n
    BY <1>1, <1>2
  <1> QED BY <1>3

Unique(s) == \A i, j \in DOMAIN s : s[i] = s[j] => i = j
Values(s) == {s[i] : i \in DOMAIN s}

LEMMA Appended ==
  ASSUME NEW S, NEW s \in Seq(S), NEW x \in S
  PROVE  /\ Append(s, x) \in Seq(S)
         /\ Values(Append(s, x)) = Values(s) \cup {x}
         /\ x \notin Values(s) /\ Unique(s) => Unique(Append(s, x))
  <1>1. /\ DOMAIN s = 1..Len(s) /\ DOMAIN Append(s, x) = 1..(Len(s) + 1) /\ Len(s) \in Nat
        /\ \A i \in 1..Len(s) : Append(s, x)[i] = s[i]
        /\ Append(s, x)[Len(s) + 1] = x
    OBVIOUS
  <1>2. \A i \in 1..(Len(s) + 1) : i \in 1..Len(s) \/ i = Len(s) + 1
    BY <1>1
  <1>3. Values(Append(s, x)) = Values(s) \cup {x}
    <2>1. \A y \in Values(Append(s, x)) : y \in Values(s) \cup {x}
      BY <1>1, <1>2 DEF Values
    <2>2. \A i \in 1..Len(s) : i \in 1..(Len(s) + 1)
      BY <1>1
    <2>3. \A y \in Values(s) : y \in Values(Append(s, x))
      BY <1>1, <2>2 DEF Values
    <2>4. Len(s) + 1 \in 1..(Len(s) + 1)
      BY <1>1
    <2>5. x \in Values(Append(s, x))
      BY <1>1, <2>4 DEF Values
    <2> QED BY <2>1, <2>3, <2>5
  <1>4. x \notin Values(s) /\ Unique(s) => Unique(Append(s, x))
    BY <1>1, <1>2 DEF Values, Unique
  <1> QED BY <1>3, <1>4

LEMMA Taken ==
  ASSUME NEW S, NEW s \in Seq(S), s # <<>>
  PROVE  /\ Head(s) \in S /\ Tail(s) \in Seq(S)
         /\ Values(s) = Values(Tail(s)) \cup {Head(s)}
         /\ Unique(s) => Unique(Tail(s)) /\ Head(s) \notin Values(Tail(s))
  <1>1. /\ Len(s) \in Nat /\ Len(s) > 0 /\ DOMAIN s = 1..Len(s) /\ DOMAIN Tail(s) = 1..(Len(s) - 1)
        /\ \A i \in 1..(Len(s) - 1) : Tail(s)[i] = s[i + 1]
        /\ Head(s) = s[1]
    OBVIOUS
  <1>2. /\ 1 \in DOMAIN s
        /\ \A i \in DOMAIN Tail(s) : i + 1 \in DOMAIN s /\ i + 1 # 1
        /\ \A i \in DOMAIN s : i # 1 => i - 1 \in DOMAIN Tail(s) /\ (i - 1) + 1 = i
    BY <1>1
  <1>3. Values(s) = Values(Tail(s)) \cup {Head(s)}
    <2>1. \A y \in Values(s) : y \in Values(Tail(s)) \cup {Head(s)}
      BY <1>1, <1>2 DEF Values
    <2>2. \A y \in Values(Tail(s)) \cup {Head(s)} : y \in Values(s)
      BY <1>1, <1>2 DEF Values
    <2> QED BY <2>1, <2>2
  <1>4. ASSUME Unique(s) PROVE Unique(Tail(s)) /\ Head(s) \notin Values(Tail(s))
    <2>1. \A i, j \in DOMAIN Tail(s) : Tail(s)[i] = Tail(s)[j] => i + 1 = j + 1
      BY <1>1, <1>2, <1>4 DEF Unique
    <2>2. Unique(Tail(s))
      BY <1>1, <2>1 DEF Unique
    <2>3. Head(s) \notin Values(Tail(s))
      BY <1>1, <1>2, <1>4 DEF Unique, Values
    <2> QED BY <2>2, <2>3
  <1> QED BY <1>3, <1>4

LEMMA Joined ==
  ASSUME NEW S, NEW s \in Seq(S), NEW t \in Seq(S)
  PROVE  /\ s \o t \in Seq(S)
         /\ Values(s \o t) = Values(s) \cup Values(t)
         /\ Values(s) \cap Values(t) = {} /\ Unique(s) /\ Unique(t) => Unique(s \o t)
  <1>1. /\ Len(s) \in Nat /\ Len(t) \in Nat /\ DOMAIN s = 1..Len(s) /\ DOMAIN t = 1..Len(t)
        /\ DOMAIN (s \o t) = 1..(Len(s) + Len(t))
        /\ \A i \in 1..(Len(s) + Len(t)) : (s \o t)[i] = IF i <= Len(s) THEN s[i] ELSE t[i - Len(s)]
    OBVIOUS
  <1>2. \A i \in DOMAIN (s \o t) : \/ i \in DOMAIN s /\ (s \o t)[i] = s[i]
                                   \/ i \notin DOMAIN s /\ i - Len(s) \in DOMAIN t /\ (s \o t)[i] = t[i - Len(s)]
    BY <1>1
  <1>a. \A i \in DOMAIN s : i \in DOMAIN (s \o t) /\ (s \o t)[i] = s[i]
    BY <1>1
  <1>b. \A i \in DOMAIN t : i + Len(s) \in DOMAIN (s \o t) /\ (s \o t)[i + Len(s)] = t[i]
    <2> TAKE i \in DOMAIN t
    <2>1. i \in Nat /\ i >= 1 /\ i <= Len(t)
      BY <1>1
    <2>2. i + Len(s) \in 1..(Len(s) + Len(t)) /\ ~ (i + Len(s) <= Len(s)) /\ (i + Len(s)) - Len(s) = i
      BY <1>1, <2>1
    <2> QED BY <1>1, <2>2
  <1>3. Values(s \o t) = Values(s) \cup Values(t)
    <2>1. \A y \in Values(s \o t) : y \in Values(s) \cup Values(t)
      BY <1>2 DEF Values
    <2>2. \A y \in Values(s) : y \in Values(s \o t)
      BY <1>a DEF Values
    <2>3. \A y \in Values(t) : y \in Values(s \o t)
      BY <1>b DEF Values
    <2> QED BY <2>1, <2>2, <2>3
  <1>4. ASSUME Values(s) \cap Values(t) = {}, Unique(s), Unique(t) PROVE Unique(s \o t)
    <2> SUFFICES ASSUME NEW i \in DOMAIN (s \o t), NEW j \in DOMAIN (s \o t), (s \o t)[i] = (s \o t)[j]
                 PROVE  i = j
      BY DEF Unique
    <2>1. CASE i \in DOMAIN s /\ j \in DOMAIN s
      BY <1>2, <1>4, <2>1 DEF Unique
    <2>2. CASE i \notin DOMAIN s /\ j \notin DOMAIN s
      <3>1. i - Len(s) = j - Len(s)
        BY <1>2, <1>4, <2>2 DEF Unique
      <3> QED BY <1>1, <3>1
    <2>3. CASE i \in DOMAIN s /\ j \notin DOMAIN s
      <3>1. s[i] = t[j - Len(s)] /\ j - Len(s) \in DOMAIN t
        BY <1>2, <2>3
      <3>2. s[i] \in Values(s) /\ s[i] \in Values(t)
        BY <2>3, <3>1 DEF Values
      <3> QED BY <1>4, <3>2
    <2>4. CASE i \notin DOMAIN s /\ j \in DOMAIN s
      <3>1. s[j] = t[i - Len(s)] /\ i - Len(s) \in DOMAIN t
        BY <1>2, <2>4
      <3>2. s[j] \in Values(s) /\ s[j] \in Values(t)
        BY <2>4, <3>1 DEF Values
      <3> QED BY <1>4, <3>2
    <2> QED BY <2>1, <2>2, <2>3, <2>4
  <1> QED BY <1>3, <1>4

(* The elements of s that are in T, in their order, collected up to i.       *)
LEMMA Collected ==
  ASSUME NEW S, NEW s \in Seq(S), NEW T, NEW f, Unique(s), f[0] = <<>>,
         \A i \in 1..Len(s) : f[i] = IF s[i] \in T THEN Append(f[i - 1], s[i]) ELSE f[i - 1]
  PROVE  /\ f[Len(s)] \in Seq(S) /\ Unique(f[Len(s)])
         /\ Values(f[Len(s)]) = Values(s) \cap T
  <1> DEFINE Good(n) == /\ f[n] \in Seq(S) /\ Unique(f[n])
                        /\ Values(f[n]) = {s[i] : i \in 1..n} \cap T
             N == {n \in Nat : n <= Len(s) => Good(n)}
  <1>0. Len(s) \in Nat /\ DOMAIN s = 1..Len(s)
    OBVIOUS
  <1>1. 0 \in N
    <2>1. <<>> \in Seq(S) /\ Unique(<<>>) /\ Values(<<>>) = {}
      BY DEF Unique, Values
    <2>2. {s[i] : i \in 1..0} = {}
      OBVIOUS
    <2> QED BY <2>1, <2>2
  <1>2. ASSUME NEW n \in Nat, n \in N PROVE n + 1 \in N
    <2> SUFFICES ASSUME n + 1 <= Len(s) PROVE Good(n + 1)
      <3> HIDE DEF Good
      <3> QED OBVIOUS
    <2>0. n + 1 \in 1..Len(s) /\ (n + 1) - 1 = n /\ s[n + 1] \in S
      BY <1>0
    <2>1. Good(n)
      <3> HIDE DEF Good
      <3> QED BY <1>0, <1>2
    <2>2. f[n + 1] = IF s[n + 1] \in T THEN Append(f[n], s[n + 1]) ELSE f[n]
      BY <2>0
    <2>3. {s[i] : i \in 1..(n + 1)} = {s[i] : i \in 1..n} \cup {s[n + 1]}
      <3>1. \A i : i \in 1..(n + 1) <=> i \in 1..n \/ i = n + 1
        BY <1>2
      <3> QED BY <3>1
    <2>4. s[n + 1] \notin {s[i] : i \in 1..n}
      <3>1. \A i \in 1..n : i \in DOMAIN s /\ i # n + 1
        BY <1>0, <2>0
      <3> QED BY <1>0, <2>0, <3>1 DEF Unique
    <2>5. CASE s[n + 1] \in T
      <3>1. f[n + 1] = Append(f[n], s[n + 1])
        BY <2>2, <2>5
      <3>2. s[n + 1] \notin Values(f[n])
        BY <2>1, <2>4
      <3>3. /\ f[n + 1] \in Seq(S) /\ Unique(f[n + 1])
            /\ Values(f[n + 1]) = Values(f[n]) \cup {s[n + 1]}
        <4> DEFINE d == f[n]
                   x == s[n + 1]
        <4>1. d \in Seq(S) /\ x \in S /\ Unique(d) /\ x \notin Values(d)
          BY <2>0, <2>1, <3>2
        <4> HIDE DEF d, x
        <4>2. /\ Append(d, x) \in Seq(S) /\ Unique(Append(d, x))
              /\ Values(Append(d, x)) = Values(d) \cup {x}
          BY <4>1, Appended
        <4> QED BY <3>1, <4>2 DEF d, x
      <3> QED BY <2>1, <2>3, <2>5, <3>3
    <2>6. CASE s[n + 1] \notin T
      BY <2>1, <2>2, <2>3, <2>6
    <2> QED BY <2>5, <2>6
  <1>3. \A n \in Nat : n \in N
    <2> HIDE DEF N
    <2> QED BY <1>1, <1>2, AllNumbers
  <1>4. Good(Len(s))
    BY <1>0, <1>3
  <1> QED BY <1>0, <1>4 DEF Values

(* Such a function exists. *)
LEMMA Collectable ==
  ASSUME NEW S, NEW s \in Seq(S), NEW T
  PROVE  \E f : f = [i \in 0..Len(s) |-> IF i = 0 THEN <<>>
                                         ELSE IF s[i] \in T THEN Append(f[i - 1], s[i]) ELSE f[i - 1]]
  <1> DEFINE Body(f, i) == IF i = 0 THEN <<>> ELSE IF s[i] \in T THEN Append(f[i - 1], s[i]) ELSE f[i - 1]
             N == {n \in Nat : \E f : f = [i \in 0..n |-> Body(f, i)]}
  <1>1. 0 \in N
    <2>1. [i \in 0..0 |-> <<>>] = [i \in 0..0 |-> Body([j \in 0..0 |-> <<>>], i)]
      OBVIOUS
    <2> QED BY <2>1
  <1>2. ASSUME NEW n \in Nat, n \in N PROVE n + 1 \in N
    <2>1. PICK f : f = [i \in 0..n |-> Body(f, i)]
      BY <1>2
    <2> DEFINE g == [i \in 0..(n + 1) |-> IF i <= n THEN f[i] ELSE Body(f, i)]
    <2>2. \A i \in 0..(n + 1) : g[i] = Body(g, i)
      <3> TAKE i \in 0..(n + 1)
      <3>1. CASE i = 0
        BY <2>1, <3>1
      <3>2. CASE i # 0
        <4>1. i - 1 \in 0..n /\ i - 1 \in 0..(n + 1) /\ i - 1 <= n
          BY <3>2
        <4>2. g[i - 1] = f[i - 1]
          BY <4>1
        <4>3. Body(g, i) = Body(f, i)
          BY <4>2
        <4>4. g[i] = Body(f, i)
          <5>1. CASE i <= n
            <6>1. i \in 0..n
              BY <5>1
            <6>2. f[i] = Body(f, i)
              BY <2>1, <6>1
            <6> QED BY <5>1, <6>2
          <5>2. CASE ~ (i <= n)
            BY <5>2
          <5> QED BY <5>1, <5>2
        <4> QED BY <4>3, <4>4
      <3> QED BY <3>1, <3>2
    <2>3. g = [i \in 0..(n + 1) |-> g[i]]
      OBVIOUS
    <2>4. g = [i \in 0..(n + 1) |-> Body(g, i)]
      <3> HIDE DEF g, Body
      <3> QED BY <2>2, <2>3
    <2> HIDE DEF g
    <2> QED BY <2>4
  <1>3. \A n \in Nat : n \in N
    <2> HIDE DEF N
    <2> QED BY <1>1, <1>2, AllNumbers
  <1>4. Len(s) \in Nat
    OBVIOUS
  <1> QED BY <1>3, <1>4

LEMMA DispatchedIs ==
  ASSUME NEW ok \in BOOLEAN, pending \in Seq(Calls), Unique(pending)
  PROVE  /\ Dispatched(ok) \in Seq(Calls) /\ Unique(Dispatched(ok))
         /\ Values(Dispatched(ok)) = {c \in Values(pending) : ok /\ Protected(site[c])}
  <1> DEFINE T == {c \in Calls : ok /\ Protected(site[c])}
             Old(g) == [i \in 0..Len(pending) |->
                          IF i = 0 THEN <<>>
                          ELSE IF ok /\ Protected(site[pending[i]]) THEN Append(g[i - 1], pending[i])
                          ELSE g[i - 1]]
             New(g) == [i \in 0..Len(pending) |->
                          IF i = 0 THEN <<>>
                          ELSE IF pending[i] \in T THEN Append(g[i - 1], pending[i])
                          ELSE g[i - 1]]
             u == CHOOSE g : g = Old(g)
  <1>1. Dispatched(ok) = u[Len(pending)]
    BY Zenon DEF Dispatched
  <1>2. \A g : Old(g) = New(g)
    <2>1. \A i \in 0..Len(pending) : i = 0 \/ pending[i] \in Calls
      OBVIOUS
    <2> QED BY <2>1
  <1>3. \E g : g = Old(g)
    <2>1. \E g : g = New(g)
      <3> HIDE DEF T
      <3> QED BY Collectable
    <2> HIDE DEF New, Old
    <2> QED BY <1>2, <2>1
  <1>4. u = New(u)
    <2> HIDE DEF New, Old
    <2> QED BY <1>2, <1>3
  <1>5. /\ u[Len(pending)] \in Seq(Calls) /\ Unique(u[Len(pending)])
        /\ Values(u[Len(pending)]) = Values(pending) \cap T
    <2> HIDE DEF T, u
    <2>1. Len(pending) \in Nat
      OBVIOUS
    <2>2. u[0] = <<>>
      <3>1. 0 \in 0..Len(pending)
        BY <2>1
      <3> QED BY <1>4, <3>1
    <2>3. \A i \in 1..Len(pending) : u[i] = IF pending[i] \in T THEN Append(u[i - 1], pending[i]) ELSE u[i - 1]
      <3>1. \A i \in 1..Len(pending) : i \in 0..Len(pending) /\ i # 0
        BY <2>1
      <3> QED BY <1>4, <3>1
    <2> HIDE DEF New
    <2> QED BY <2>2, <2>3, Collected
  <1>6. Values(pending) \subseteq Calls
    BY DEF Values
  <1>7. Values(pending) \cap T = {c \in Values(pending) : ok /\ Protected(site[c])}
    BY <1>6
  <1> HIDE DEF u, T
  <1> QED BY <1>1, <1>5, <1>7

-----------------------------------------------------------------------------
(* Where the callbacks are. *)

Told == [i \in DOMAIN replies |-> replies[i].of]
Asked == Calls \cup {IsReady}

Once ==
    /\ Unique(pending) /\ Unique(tasks) /\ Unique(Told)
    /\ Values(tasks) \cap Values(Told) = {}
    /\ Values(pending) \cap (Values(tasks) \cup Values(Told)) = {}
    /\ \A c \in Calls : answer[c] = "open" <=> c \in Values(pending) \cup Values(tasks) \cup Values(Told)

LEMMA ToldIs ==
  ASSUME ServiceTypeOK
  PROVE  /\ Told \in Seq(Asked)
         /\ replies # <<>> => Told # <<>> /\ Head(Told) = Head(replies).of
  <1>1. replies \in Seq([of : Asked, ok : BOOLEAN])
    BY DEF ServiceTypeOK, Asked
  <1>2. Len(replies) \in Nat /\ DOMAIN replies = 1..Len(replies)
    BY <1>1
  <1>3. \A i \in 1..Len(replies) : replies[i].of \in Asked
    <2> TAKE i \in 1..Len(replies)
    <2>1. replies[i] \in [of : Asked, ok : BOOLEAN]
      BY <1>1, ElementOfSeq
    <2> QED BY <2>1
  <1>4. Told \in Seq(Asked)
    BY <1>2, <1>3 DEF Told
  <1>5. ASSUME replies # <<>> PROVE Told # <<>> /\ Head(Told) = Head(replies).of
    <2>1. 1 \in DOMAIN replies /\ Head(replies) = replies[1]
      BY <1>1, <1>5
    <2>2. 1 \in DOMAIN Told /\ Told[1] = replies[1].of
      BY <2>1 DEF Told
    <2>3. Head(Told) = Told[1]
      OBVIOUS
    <2> QED BY <2>1, <2>2, <2>3
  <1> QED BY <1>4, <1>5

LEMMA ToldAppended ==
  ASSUME ServiceTypeOK, NEW m \in [of : Asked, ok : BOOLEAN], replies' = Append(replies, m)
  PROVE  Told' = Append(Told, m.of)
  <1>1. replies \in Seq([of : Asked, ok : BOOLEAN])
    BY DEF ServiceTypeOK, Asked
  <1>2. /\ Len(replies) \in Nat /\ DOMAIN replies = 1..Len(replies)
        /\ DOMAIN replies' = 1..(Len(replies) + 1)
        /\ \A i \in 1..Len(replies) : replies'[i] = replies[i]
        /\ replies'[Len(replies) + 1] = m
    BY <1>1
  <1>3. Told \in Seq(Asked) /\ Len(Told) = Len(replies)
    BY <1>1, <1>2, ToldIs DEF Told
  <1>4. Told' = [i \in 1..(Len(replies) + 1) |-> replies'[i].of]
    BY <1>2 DEF Told
  <1>5. m.of \in Asked
    OBVIOUS
  <1>6. Append(Told, m.of) = [i \in 1..(Len(replies) + 1) |-> IF i = Len(replies) + 1 THEN m.of ELSE Told[i]]
    BY <1>2, <1>3, <1>5
  <1>7. \A i \in 1..(Len(replies) + 1) : replies'[i].of = IF i = Len(replies) + 1 THEN m.of ELSE Told[i]
    BY <1>2 DEF Told
  <1> QED BY <1>4, <1>6, <1>7

LEMMA ToldTaken ==
  ASSUME ServiceTypeOK, replies # <<>>, replies' = Tail(replies)
  PROVE  Told' = Tail(Told)
  <1>1. replies \in Seq([of : Asked, ok : BOOLEAN])
    BY DEF ServiceTypeOK, Asked
  <1>2. /\ Len(replies) \in Nat /\ Len(replies) > 0 /\ DOMAIN replies = 1..Len(replies)
        /\ DOMAIN replies' = 1..(Len(replies) - 1)
        /\ \A i \in 1..(Len(replies) - 1) : replies'[i] = replies[i + 1]
    BY <1>1
  <1>3. Told \in Seq(Asked) /\ Len(Told) = Len(replies)
    BY <1>1, <1>2, ToldIs DEF Told
  <1>4. Told' = [i \in 1..(Len(replies) - 1) |-> replies'[i].of]
    BY <1>2 DEF Told
  <1>5. Tail(Told) = [i \in 1..(Len(replies) - 1) |-> Told[i + 1]]
    <2>1. Told # <<>>
      BY <1>2, <1>3
    <2>2. /\ Tail(Told) \in Seq(Asked) /\ Len(Tail(Told)) = Len(replies) - 1
          /\ \A i \in 1..(Len(replies) - 1) : Tail(Told)[i] = Told[i + 1]
      <3> HIDE DEF Told
      <3> QED BY <1>2, <1>3, <2>1
    <2>3. Tail(Told) \in [1..(Len(replies) - 1) -> Asked]
      BY <2>2, LenProperties
    <2> QED BY <2>2, <2>3
  <1>6. \A i \in 1..(Len(replies) - 1) : replies'[i].of = Told[i + 1]
    <2>1. \A i \in 1..(Len(replies) - 1) : i + 1 \in 1..Len(replies)
      BY <1>2
    <2> QED BY <1>2, <2>1 DEF Told
  <1> QED BY <1>4, <1>5, <1>6

Kept == ServiceTypeOK /\ Once

LEMMA KeptInit == ServiceInit => Kept
  <1> SUFFICES ASSUME ServiceInit PROVE Kept
    OBVIOUS
  <1>1. pending = <<>> /\ replies = <<>> /\ (tasks = <<IsReady>> \/ tasks = <<>>)
        /\ answer = [c \in Calls |-> "unasked"]
    BY DEF ServiceInit
  <1>2. <<IsReady>> \in Seq(Asked) /\ <<>> \in Seq(Asked) /\ <<>> \in Seq(Calls)
    BY DEF Asked
  <1>3. ServiceTypeOK
    <2>1. <<>> \in Seq([of : Asked, ok : BOOLEAN])
      BY EmptySeq
    <2>2. replies \in Seq([of : Calls \cup {IsReady}, ok : BOOLEAN]) /\ tasks \in Seq(Calls \cup {IsReady})
      BY <1>1, <1>2, <2>1 DEF Asked
    <2> QED BY <1>1, <1>2, <2>2 DEF ServiceTypeOK, ServiceInit
  <1>4. Unique(<<>>) /\ Values(<<>>) = {} /\ Unique(<<IsReady>>) /\ Values(<<IsReady>>) = {IsReady}
    BY DEF Unique, Values
  <1>5. Told = <<>>
    BY <1>1 DEF Told
  <1>6. Once
    BY <1>1, <1>4, <1>5, ServiceAssumption DEF Once
  <1> QED BY <1>3, <1>6 DEF Kept

LEMMA EngineKept ==
  ASSUME Kept, NEW ok \in BOOLEAN, EngineRuns(ok)
  PROVE  Kept'
  <1> DEFINE m == [of |-> Head(tasks), ok |-> ok]
  <1>0. ServiceTypeOK /\ Once /\ tasks \in Seq(Asked) /\ tasks # <<>>
    BY DEF Kept, ServiceTypeOK, Asked, EngineRuns
  <1>1. /\ Head(tasks) \in Asked /\ Tail(tasks) \in Seq(Asked)
        /\ Values(tasks) = Values(Tail(tasks)) \cup {Head(tasks)}
        /\ Unique(Tail(tasks)) /\ Head(tasks) \notin Values(Tail(tasks))
    BY <1>0, Taken DEF Once
  <1>2. m \in [of : Asked, ok : BOOLEAN] /\ m.of = Head(tasks)
    BY <1>1
  <1>3. tasks' = Tail(tasks) /\ replies' = Append(replies, m) /\ UNCHANGED <<prefs, ready, finished, pending, site, answer, stats>>
    BY DEF EngineRuns
  <1> HIDE DEF m
  <1>4. Told' = Append(Told, Head(tasks)) /\ Told \in Seq(Asked)
    BY <1>0, <1>2, <1>3, ToldAppended, ToldIs
  <1>5. Head(tasks) \notin Values(Told)
    BY <1>0, <1>1 DEF Once
  <1>6. /\ Values(Told') = Values(Told) \cup {Head(tasks)}
        /\ Unique(Told')
    BY <1>0, <1>1, <1>4, <1>5, Appended DEF Once
  <1>7. ServiceTypeOK'
    BY <1>0, <1>1, <1>2, <1>3 DEF ServiceTypeOK, Asked
  <1>8. Once'
    BY <1>0, <1>1, <1>3, <1>6 DEF Once
  <1> QED BY <1>7, <1>8 DEF Kept

LEMMA ShutdownKept ==
  ASSUME Kept, Shutdown
  PROVE  Kept'
  <1>1. Waiting = Values(pending) /\ UNCHANGED <<tasks, replies, Told>>
    BY DEF Waiting, Values, Shutdown, Told
  <1>2. Unique(<<>>) /\ Values(<<>>) = {} /\ <<>> \in Seq(Calls)
    BY DEF Unique, Values
  <1>3. ServiceTypeOK'
    BY <1>2 DEF Kept, ServiceTypeOK, Shutdown
  <1>4. Once'
    BY <1>1, <1>2 DEF Kept, Once, Shutdown, ServiceTypeOK
  <1> QED BY <1>3, <1>4 DEF Kept

LEMMA AskKept ==
  ASSUME Kept, NEW c \in Calls, Ask(c)
  PROVE  Kept'
  <1>1. PICK s \in Sites \cup {NoSite}, exempt \in BOOLEAN : ShouldBlock(c, s, exempt)
    BY DEF Ask
  <1>2. /\ ServiceTypeOK /\ Once /\ answer[c] = "unasked"
        /\ tasks \in Seq(Asked) /\ pending \in Seq(Calls) /\ c \in Asked
        /\ answer \in [Calls -> {"unasked", "open", "allow", "block"}]
    BY DEF Kept, Ask, ServiceTypeOK, Asked
  <1>3. c \notin Values(pending) \cup Values(tasks) \cup Values(Told)
    BY <1>2 DEF Once
  <1>4. /\ site' = [site EXCEPT ![c] = s]
        /\ UNCHANGED <<prefs, ready, finished, replies, stats, Told>>
    BY <1>1 DEF ShouldBlock, Told
  <1>5. \/ answer' = [answer EXCEPT ![c] = "allow"] /\ UNCHANGED <<tasks, pending>>
        \/ answer' = [answer EXCEPT ![c] = "open"] /\ tasks' = Append(tasks, c) /\ UNCHANGED pending
        \/ answer' = [answer EXCEPT ![c] = "open"] /\ pending' = Append(pending, c) /\ UNCHANGED tasks
    BY <1>1 DEF ShouldBlock
  <1>6. /\ Append(tasks, c) \in Seq(Asked) /\ Values(Append(tasks, c)) = Values(tasks) \cup {c}
        /\ Unique(Append(tasks, c))
    BY <1>2, <1>3, Appended DEF Once
  <1>7. /\ Append(pending, c) \in Seq(Calls) /\ Values(Append(pending, c)) = Values(pending) \cup {c}
        /\ Unique(Append(pending, c))
    BY <1>2, <1>3, Appended DEF Once
  <1>8. ServiceTypeOK'
    BY <1>2, <1>4, <1>5, <1>6, <1>7 DEF ServiceTypeOK, Asked
  <1>9. Once'
    <2> USE <1>2, <1>3, <1>4 DEF Once
    <2>1. CASE answer' = [answer EXCEPT ![c] = "allow"] /\ UNCHANGED <<tasks, pending>>
      BY <2>1
    <2>2. CASE answer' = [answer EXCEPT ![c] = "open"] /\ tasks' = Append(tasks, c) /\ UNCHANGED pending
      BY <1>6, <2>2
    <2>3. CASE answer' = [answer EXCEPT ![c] = "open"] /\ pending' = Append(pending, c) /\ UNCHANGED tasks
      BY <1>7, <2>3
    <2> QED BY <1>5, <2>1, <2>2, <2>3
  <1> QED BY <1>8, <1>9 DEF Kept

LEMMA ReplyKept ==
  ASSUME Kept, OnReply
  PROVE  Kept'
  <1> DEFINE m == Head(replies)
  <1>0. /\ ServiceTypeOK /\ Once /\ replies # <<>> /\ replies' = Tail(replies)
        /\ replies \in Seq([of : Asked, ok : BOOLEAN])
        /\ tasks \in Seq(Asked) /\ pending \in Seq(Calls)
        /\ answer \in [Calls -> {"unasked", "open", "allow", "block"}]
        /\ UNCHANGED <<prefs, site>>
    BY DEF Kept, ServiceTypeOK, Asked, OnReply
  <1>1. m \in [of : Asked, ok : BOOLEAN] /\ replies' \in Seq([of : Asked, ok : BOOLEAN])
    BY <1>0, HeadTailProperties
  <1>2. Told \in Seq(Asked) /\ Told # <<>> /\ Head(Told) = m.of /\ Told' = Tail(Told)
    BY <1>0, ToldIs, ToldTaken
  <1>3. /\ Values(Told) = Values(Told') \cup {m.of}
        /\ Unique(Told') /\ m.of \notin Values(Told')
    BY <1>0, <1>2, Taken DEF Once
  <1>4. m.ok \in BOOLEAN
    BY <1>1
  <1>5. \/ m.of = IsReady /\ OnEngineReady(m.ok)
        \/ m.of = IsReady /\ UNCHANGED <<ready, finished, tasks, pending, answer, stats>>
        \/ m.of \in Calls /\ OnMatchCompleted(m.of, m.ok)
    BY DEF OnReply
  <1> HIDE DEF m
  <1>6. CASE m.of = IsReady /\ OnEngineReady(m.ok)
    <2> DEFINE d == Dispatched(m.ok)
    <2>1. /\ d \in Seq(Calls) /\ Unique(d)
          /\ Values(d) = {c \in Values(pending) : m.ok /\ Protected(site[c])}
      BY <1>0, <1>4, DispatchedIs DEF Once
    <2>2. /\ ready' = m.ok /\ finished' = TRUE /\ tasks' = tasks \o d /\ pending' = <<>> /\ UNCHANGED stats
          /\ answer' = [c \in Calls |-> IF c \in Waiting /\ ~(m.ok /\ Protected(site[c]))
                                        THEN "allow" ELSE answer[c]]
      BY <1>6 DEF OnEngineReady
    <2> HIDE DEF d
    <2>3. Waiting = Values(pending) /\ Unique(<<>>) /\ Values(<<>>) = {} /\ <<>> \in Seq(Calls)
      BY DEF Waiting, Values, Unique
    <2>4. d \in Seq(Asked)
      <3>1. Calls \subseteq Asked
        BY DEF Asked
      <3> QED BY <2>1, <3>1, SeqMonotonic
    <2>5. Values(tasks) \cap Values(d) = {}
      BY <1>0, <2>1 DEF Once
    <2>6. tasks' \in Seq(Asked) /\ Values(tasks') = Values(tasks) \cup Values(d) /\ Unique(tasks')
      BY <1>0, <2>1, <2>2, <2>4, <2>5, Joined DEF Once
    <2>7. ServiceTypeOK'
      BY <1>0, <1>1, <1>4, <2>2, <2>3, <2>6 DEF ServiceTypeOK, Asked
    <2>8. IsReady \notin Calls
      BY ServiceAssumption
    <2>9. \A c \in Calls : answer'[c] = "open" <=> c \in Values(tasks) \cup Values(d) \cup Values(Told')
      <3> TAKE c \in Calls
      <3>1. CASE c \in Values(pending)
        BY <1>0, <1>3, <1>6, <2>1, <2>2, <2>3, <2>8, <3>1 DEF Once
      <3>2. CASE c \notin Values(pending)
        BY <1>0, <1>3, <1>6, <2>1, <2>2, <2>3, <2>8, <3>2 DEF Once
      <3> QED BY <3>1, <3>2
    <2>10. Once'
      BY <1>0, <1>3, <2>1, <2>2, <2>3, <2>6, <2>9 DEF Once
    <2> QED BY <2>7, <2>10 DEF Kept
  <1>7. CASE m.of = IsReady /\ UNCHANGED <<ready, finished, tasks, pending, answer, stats>>
    <2>1. ServiceTypeOK'
      BY <1>0, <1>1, <1>7 DEF ServiceTypeOK, Asked
    <2>2. Once'
      BY <1>0, <1>3, <1>7, ServiceAssumption DEF Once
    <2> QED BY <2>1, <2>2 DEF Kept
  <1>8. CASE m.of \in Calls /\ OnMatchCompleted(m.of, m.ok)
    <2>1. /\ UNCHANGED <<ready, finished, tasks, pending>>
          /\ session' \in Nat /\ bySite' \in [Sites -> Nat]
      BY <1>0, <1>8 DEF OnMatchCompleted, ServiceTypeOK
    <2>2. PICK verdict \in {"block", "allow"} : answer' = [answer EXCEPT ![m.of] = verdict]
      BY <1>8 DEF OnMatchCompleted
    <2>3. ServiceTypeOK'
      BY <1>0, <1>1, <1>8, <2>1, <2>2 DEF ServiceTypeOK, Asked
    <2>4. Once'
      BY <1>0, <1>3, <1>8, <2>1, <2>2 DEF Once
    <2> QED BY <2>3, <2>4 DEF Kept
  <1> QED BY <1>5, <1>6, <1>7, <1>8

LEMMA SettingsKept ==
  ASSUME ServiceTypeOK,
         \E v \in BOOLEAN : SetEnabled(v) \/ \E s \in Sites : SetEnabledForUrl(s, v)
  PROVE  /\ UNCHANGED <<engine, pending, site, answer, stats, Told>>
         /\ ServiceTypeOK'
  BY DEF SetEnabled, SetEnabledForUrl, ServiceTypeOK, Told

LEMMA KeptStep == Kept /\ [ServiceNext]_serviceVars => Kept'
  <1> SUFFICES ASSUME Kept, [ServiceNext]_serviceVars PROVE Kept'
    OBVIOUS
  <1>1. CASE \E v \in BOOLEAN : SetEnabled(v) \/ \E s \in Sites : SetEnabledForUrl(s, v)
    BY <1>1, SettingsKept DEF Kept, Once
  <1>2. CASE \E ok \in BOOLEAN : EngineRuns(ok)
    BY <1>2, EngineKept
  <1>3. CASE OnReply
    BY <1>3, ReplyKept
  <1>4. CASE Shutdown
    BY <1>4, ShutdownKept
  <1>5. CASE \E c \in Calls : Ask(c)
    BY <1>5, AskKept
  <1>6. CASE UNCHANGED serviceVars
    BY <1>6 DEF Kept, Once, ServiceTypeOK, Told
  <1> QED BY <1>1, <1>2, <1>3, <1>4, <1>5, <1>6 DEF ServiceNext, ServiceStep

(* The places of one element in a sequence without repetition. *)
Places(name, s, x) == {<<name, i>> : i \in {j \in DOMAIN s : s[j] = x}}

LEMMA PlaceOf ==
  ASSUME NEW s, Unique(s), NEW x, NEW name
  PROVE  /\ x \notin Values(s) => Places(name, s, x) = {}
         /\ x \in Values(s) => \E p : Places(name, s, x) = {p}
  <1>1. x \notin Values(s) => Places(name, s, x) = {}
    BY DEF Values, Places
  <1>2. ASSUME x \in Values(s) PROVE \E p : Places(name, s, x) = {p}
    <2>1. PICK i \in DOMAIN s : s[i] = x
      BY <1>2 DEF Values
    <2>2. {j \in DOMAIN s : s[j] = x} = {i}
      BY <2>1 DEF Unique
    <2>3. Places(name, s, x) = {<<name, i>>}
      BY <2>2 DEF Places
    <2> QED BY <2>3
  <1> QED BY <1>1, <1>2

LEMMA HeldInOnePlace == Kept => CallbackHeldOnce
  <1> SUFFICES ASSUME Kept, NEW c \in Calls
               PROVE  Cardinality(Holders(c)) = IF answer[c] = "open" THEN 1 ELSE 0
    BY DEF CallbackHeldOnce
  <1> DEFINE A == Places("pending", pending, c)
             B == Places("tasks", tasks, c)
             D == Places("replies", Told, c)
  <1>1. Holders(c) = A \cup B \cup D
    <2>1. {j \in DOMAIN Told : Told[j] = c} = {j \in DOMAIN replies : replies[j].of = c}
      BY DEF Told
    <2> QED BY <2>1 DEF Holders, Places
  <1>2. Once
    BY DEF Kept
  <1>3. Unique(pending) /\ Unique(tasks) /\ Unique(Told)
    BY <1>2 DEF Once
  <1>4. /\ c \notin Values(pending) => A = {}
        /\ c \in Values(pending) => \E p : A = {p}
    BY <1>3, PlaceOf
  <1>5. /\ c \notin Values(tasks) => B = {}
        /\ c \in Values(tasks) => \E p : B = {p}
    BY <1>3, PlaceOf
  <1>6. /\ c \notin Values(Told) => D = {}
        /\ c \in Values(Told) => \E p : D = {p}
    <2> HIDE DEF Told
    <2> QED BY <1>3, PlaceOf
  <1> HIDE DEF A, B, D
  <1>7. CASE answer[c] = "open"
    <2>1. \E p : A \cup B \cup D = {p}
      BY <1>2, <1>4, <1>5, <1>6, <1>7 DEF Once
    <2> QED BY <1>1, <1>7, <2>1, FS_Singleton
  <1>8. CASE answer[c] # "open"
    <2>1. A \cup B \cup D = {}
      BY <1>2, <1>4, <1>5, <1>6, <1>8 DEF Once
    <2> QED BY <1>1, <1>8, <2>1, FS_EmptySet
  <1> QED BY <1>7, <1>8

(* Every variable keeps its type. *)
THEOREM ServiceTypes == ServiceSpec => []ServiceTypeOK
  <1>1. Kept => ServiceTypeOK
    BY DEF Kept
  <1> QED BY KeptInit, KeptStep, <1>1, PTL DEF ServiceSpec

(* A callback that has not been run is held in exactly one place, and one    *)
(* that has been run in none, for any calls, sites and queue limit.          *)
THEOREM CallbacksAreHeldOnce == ServiceSpec => []CallbackHeldOnce
  BY KeptInit, KeptStep, HeldInOnePlace, PTL DEF ServiceSpec

-----------------------------------------------------------------------------
(* The statistics. *)

Blocked(S) == {c \in Calls : answer[c] = "block" /\ site[c] \in S}
Refused == {c \in Calls : answer[c] = "block"}

Counted ==
    /\ IsFiniteSet(Refused)
    /\ session = Cardinality(Refused)
    /\ \A s \in Sites : bySite[s] = Cardinality(Blocked({s}))

LEMMA CountedInit == ServiceInit => Counted
  <1> SUFFICES ASSUME ServiceInit PROVE Counted
    OBVIOUS
  <1>1. Refused = {} /\ \A s \in Sites : Blocked({s}) = {} /\ bySite[s] = 0
    BY DEF ServiceInit, Refused, Blocked
  <1>2. session = 0
    BY DEF ServiceInit
  <1> QED BY <1>1, <1>2, FS_EmptySet DEF Counted

(* A step that refuses nothing and moves no refused call to another page.    *)
LEMMA CountedSame ==
  ASSUME Counted, UNCHANGED stats,
         \A c \in Calls : /\ answer[c] = "block" <=> answer'[c] = "block"
                          /\ answer[c] = "block" => site'[c] = site[c]
  PROVE  Counted'
  <1>1. Refused' = Refused /\ \A s \in Sites : Blocked({s})' = Blocked({s})
    BY DEF Refused, Blocked
  <1> QED BY <1>1 DEF Counted

LEMMA CountedReply ==
  ASSUME Kept, Counted, OnReply
  PROVE  Counted'
  <1> DEFINE m == Head(replies)
  <1>0. /\ ServiceTypeOK /\ Once /\ replies # <<>>
        /\ answer \in [Calls -> {"unasked", "open", "allow", "block"}]
        /\ session \in Nat /\ bySite \in [Sites -> Nat]
        /\ UNCHANGED site
    BY DEF Kept, ServiceTypeOK, OnReply
  <1>1. m.of \in Values(Told)
    <2>1. Told \in Seq(Asked) /\ Told # <<>> /\ Head(Told) = m.of
      BY <1>0, ToldIs
    <2> HIDE DEF m
    <2> QED BY <2>1, Taken
  <1>2. \/ m.of = IsReady /\ OnEngineReady(m.ok)
        \/ UNCHANGED <<answer, stats>>
        \/ m.of \in Calls /\ OnMatchCompleted(m.of, m.ok)
    BY DEF OnReply
  <1> HIDE DEF m
  <1>3. CASE m.of = IsReady /\ OnEngineReady(m.ok)
    <2>1. /\ UNCHANGED stats
          /\ answer' = [c \in Calls |-> IF c \in Waiting /\ ~(m.ok /\ Protected(site[c]))
                                        THEN "allow" ELSE answer[c]]
      BY <1>3 DEF OnEngineReady
    <2>2. \A c \in Calls : c \in Waiting => answer[c] = "open"
      BY <1>0 DEF Once, Waiting, Values
    <2>3. \A c \in Calls : answer[c] = "block" <=> answer'[c] = "block"
      BY <2>1, <2>2
    <2> QED BY <1>0, <2>1, <2>3, CountedSame
  <1>4. CASE UNCHANGED <<answer, stats>>
    BY <1>0, <1>4, CountedSame
  <1>5. CASE m.of \in Calls /\ OnMatchCompleted(m.of, m.ok)
    <2> DEFINE c == m.of
               v == Verdict(m.of, m.ok)
    <2>1. /\ answer' = [answer EXCEPT ![c] = IF v THEN "block" ELSE "allow"]
          /\ session' = IF v THEN session + 1 ELSE session
          /\ bySite' = [s \in Sites |-> IF v /\ site[c] = s THEN bySite[s] + 1 ELSE bySite[s]]
      BY <1>5 DEF OnMatchCompleted
    <2>2. c \in Calls /\ answer[c] = "open"
      BY <1>0, <1>1, <1>5 DEF Once
    <2> HIDE DEF c, v
    <2>3. CASE ~v
      <3>1. \A d \in Calls : answer[d] = "block" <=> answer'[d] = "block"
        BY <1>0, <2>1, <2>2, <2>3
      <3>2. session' = session /\ bySite' = bySite
        BY <1>0, <2>1, <2>3
      <3> QED BY <1>0, <3>1, <3>2, CountedSame
    <2>4. CASE v
      <3>1. c \notin Refused /\ Refused' = Refused \cup {c}
        BY <1>0, <2>1, <2>2, <2>4 DEF Refused
      <3>2. IsFiniteSet(Refused') /\ session' = Cardinality(Refused')
        BY <1>0, <2>1, <2>4, <3>1, FS_AddElement DEF Counted
      <3>3. ASSUME NEW s \in Sites PROVE bySite'[s] = Cardinality(Blocked({s})')
        <4>1. Blocked({s}) \subseteq Refused
          BY DEF Blocked, Refused
        <4>2. IsFiniteSet(Blocked({s})) /\ bySite[s] = Cardinality(Blocked({s}))
          BY <3>3, <4>1, FS_Subset DEF Counted
        <4>3. CASE site[c] = s
          <5>1. c \notin Blocked({s}) /\ Blocked({s})' = Blocked({s}) \cup {c}
            BY <1>0, <2>1, <2>2, <2>4, <4>3 DEF Blocked
          <5>2. bySite'[s] = bySite[s] + 1
            BY <2>1, <2>4, <3>3, <4>3
          <5> QED BY <4>2, <5>1, <5>2, FS_AddElement
        <4>4. CASE site[c] # s
          <5>1. Blocked({s})' = Blocked({s})
            BY <1>0, <2>1, <2>2, <2>4, <4>4 DEF Blocked
          <5>2. bySite'[s] = bySite[s]
            BY <2>1, <2>4, <3>3, <4>4
          <5> QED BY <4>2, <5>1, <5>2
        <4> QED BY <4>3, <4>4
      <3> QED BY <3>2, <3>3 DEF Counted
    <2> QED BY <2>3, <2>4
  <1> QED BY <1>2, <1>3, <1>4, <1>5

LEMMA CountedStep == Kept /\ Counted /\ [ServiceNext]_serviceVars => Counted'
  <1> SUFFICES ASSUME Kept, Counted, [ServiceNext]_serviceVars PROVE Counted'
    OBVIOUS
  <1>1. CASE UNCHANGED <<answer, site, stats>>
    BY <1>1, CountedSame
  <1>2. ASSUME \E v \in BOOLEAN : SetEnabled(v) \/ \E s \in Sites : SetEnabledForUrl(s, v)
        PROVE  UNCHANGED <<answer, site, stats>>
    BY <1>2 DEF SetEnabled, SetEnabledForUrl
  <1>3. ASSUME \E ok \in BOOLEAN : EngineRuns(ok) PROVE UNCHANGED <<answer, site, stats>>
    BY <1>3 DEF EngineRuns
  <1>4. CASE OnReply
    BY <1>4, CountedReply
  <1>5. CASE Shutdown
    <2>1. \A c \in Calls : c \in Waiting => answer[c] = "open"
      BY DEF Kept, Once, Waiting, Values
    <2>2. /\ UNCHANGED <<site, stats>>
          /\ answer' = [c \in Calls |-> IF c \in Waiting THEN "allow" ELSE answer[c]]
      BY <1>5 DEF Shutdown
    <2> QED BY <2>1, <2>2, CountedSame
  <1>6. ASSUME NEW c \in Calls, Ask(c) PROVE Counted'
    <2>1. PICK s \in Sites \cup {NoSite}, exempt \in BOOLEAN : ShouldBlock(c, s, exempt)
      BY <1>6 DEF Ask
    <2>2. PICK verdict \in {"open", "allow"} : answer' = [answer EXCEPT ![c] = verdict]
      BY <2>1 DEF ShouldBlock
    <2>3. UNCHANGED stats /\ site' = [site EXCEPT ![c] = s] /\ answer[c] = "unasked"
      BY <1>6, <2>1 DEF ShouldBlock, Ask
    <2>4. answer \in [Calls -> {"unasked", "open", "allow", "block"}] /\ site \in [Calls -> Sites \cup {NoSite}]
      BY DEF Kept, ServiceTypeOK
    <2> QED BY <2>2, <2>3, <2>4, CountedSame
  <1>7. CASE UNCHANGED serviceVars
    BY <1>1, <1>7
  <1> QED BY <1>1, <1>2, <1>3, <1>4, <1>5, <1>6, <1>7 DEF ServiceNext, ServiceStep

LEMMA CountsFollow == Kept /\ Counted => CountsAreVerdicts
  <1> SUFFICES ASSUME Kept, Counted PROVE CountsAreVerdicts
    OBVIOUS
  <1>1. Refused = Blocked(Sites \cup {NoSite})
    BY DEF Kept, ServiceTypeOK, Refused, Blocked
  <1> QED BY <1>1 DEF Counted, Blocked, CountsAreVerdicts

(* The blocked counts the user is shown are the verdicts given, in all and   *)
(* per site, for any number of calls.                                        *)
THEOREM CountsStayTrue == ServiceSpec => []CountsAreVerdicts
  BY KeptInit, KeptStep, CountedInit, CountedStep, CountsFollow, PTL DEF ServiceSpec
=============================================================================
