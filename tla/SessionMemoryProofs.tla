-------------------------- MODULE SessionMemoryProofs --------------------------
(* The conversation memory for any number of requests, exchanges, any number *)
(* kept verbatim and any cap: the types, that folding loses nothing, that a  *)
(* load misses nothing, and that the turns stay in order.                    *)
EXTENDS SessionMemory, SequenceTheorems, TLAPS

-----------------------------------------------------------------------------
(* The slices.                                                             *)

LEMMA LastNFacts ==
    ASSUME NEW s \in Seq(Exchanges), NEW n \in Nat \ {0}
    PROVE  LET t == LastN(s, n)
               m == IF Len(s) <= n THEN Len(s) ELSE n
           IN  /\ t \in Seq(Exchanges) /\ Len(t) = m
               /\ \A i \in 1 .. m : t[i] = s[Len(s) - m + i]
<1>1. Len(s) \in Nat /\ \A i \in 1 .. Len(s) : s[i] \in Exchanges
  OBVIOUS
<1>2. CASE Len(s) <= n
  BY <1>1, <1>2 DEF LastN
<1>3. CASE ~ (Len(s) <= n)
  <2> DEFINE a == Len(s) - n + 1
  <2>1. a \in Int /\ Len(s) \in Int /\ \A i \in a .. Len(s) : s[i] \in Exchanges
    BY <1>1, <1>3
  <2>2. /\ SubSeq(s, a, Len(s)) \in Seq(Exchanges)
        /\ Len(SubSeq(s, a, Len(s))) = IF a <= Len(s) THEN Len(s) - a + 1 ELSE 0
        /\ \A i \in 1 .. Len(s) - a + 1 : SubSeq(s, a, Len(s))[i] = s[a + i - 1]
    BY <2>1, SubSeqProperties
  <2>3. LastN(s, n) = SubSeq(s, a, Len(s))
    BY <1>3 DEF LastN
  <2>4. Len(s) - a + 1 = n /\ a <= Len(s) /\ \A i \in 1 .. n : a + i - 1 = Len(s) - n + i
    BY <1>1, <1>3
  <2> QED BY <1>3, <2>2, <2>3, <2>4
<1> QED BY <1>2, <1>3

LEMMA AllButFacts ==
    ASSUME NEW s \in Seq(Exchanges), NEW n \in Nat \ {0}
    PROVE  LET t == AllButLastN(s, n)
               m == IF Len(s) <= n THEN 0 ELSE Len(s) - n
           IN  /\ t \in Seq(Exchanges) /\ Len(t) = m
               /\ \A i \in 1 .. m : t[i] = s[i]
<1>1. Len(s) \in Nat /\ \A i \in 1 .. Len(s) : s[i] \in Exchanges
  OBVIOUS
<1>2. CASE Len(s) <= n
  <2>1. AllButLastN(s, n) = <<>>
    BY <1>2 DEF AllButLastN
  <2>2. <<>> \in Seq(Exchanges) /\ Len(<<>>) = 0
    OBVIOUS
  <2> QED BY <1>2, <2>1, <2>2
<1>3. CASE ~ (Len(s) <= n)
  <2> DEFINE b == Len(s) - n
  <2>1. b \in Int /\ \A i \in 1 .. b : s[i] \in Exchanges
    BY <1>1, <1>3
  <2>2. /\ SubSeq(s, 1, b) \in Seq(Exchanges)
        /\ Len(SubSeq(s, 1, b)) = IF 1 <= b THEN b - 1 + 1 ELSE 0
        /\ \A i \in 1 .. b - 1 + 1 : SubSeq(s, 1, b)[i] = s[1 + i - 1]
    BY <2>1, SubSeqProperties
  <2>3. AllButLastN(s, n) = SubSeq(s, 1, b)
    BY <1>3 DEF AllButLastN
  <2>4. 1 <= b /\ b - 1 + 1 = b /\ \A i \in 1 .. b : 1 + i - 1 = i
    BY <1>1, <1>3
  <2> QED BY <1>3, <2>2, <2>3, <2>4
<1> QED BY <1>2, <1>3

\* The two slices hold the elements of the whole.
LEMMA SlicesCover ==
    ASSUME NEW s \in Seq(Exchanges), NEW n \in Nat \ {0}
    PROVE  Elements(s) = Elements(LastN(s, n)) \cup Elements(AllButLastN(s, n))
<1> DEFINE m == IF Len(s) <= n THEN Len(s) ELSE n
           k == IF Len(s) <= n THEN 0 ELSE Len(s) - n
           t == LastN(s, n)
           u == AllButLastN(s, n)
<1>1. /\ Len(t) = m /\ \A i \in 1 .. m : t[i] = s[Len(s) - m + i]
      /\ Len(u) = k /\ \A i \in 1 .. k : u[i] = s[i]
      /\ Len(s) \in Nat /\ m \in Nat /\ k \in Nat /\ k + m = Len(s)
  <2>1. Len(t) = m /\ \A i \in 1 .. m : t[i] = s[Len(s) - m + i]
    BY LastNFacts
  <2>2. Len(u) = k /\ \A i \in 1 .. k : u[i] = s[i]
    BY AllButFacts
  <2>3. Len(s) \in Nat /\ m \in Nat /\ k \in Nat /\ k + m = Len(s)
    OBVIOUS
  <2> QED BY <2>1, <2>2, <2>3
<1> HIDE DEF m, k, t, u
<1>2. ASSUME NEW i \in 1 .. Len(s) PROVE s[i] \in Elements(t) \cup Elements(u)
  <2>1. CASE i <= k
    BY <1>1, <2>1 DEF Elements
  <2>2. CASE ~ (i <= k)
    <3>1. i - k \in 1 .. m /\ Len(s) - m + (i - k) = i
      BY <1>1, <2>2
    <3>2. t[i - k] = s[i]
      BY <1>1, <3>1
    <3> QED BY <1>1, <3>1, <3>2 DEF Elements
  <2> QED BY <2>1, <2>2
<1>3. ASSUME NEW i \in 1 .. m PROVE t[i] \in Elements(s)
  <2>1. Len(s) - m + i \in 1 .. Len(s)
    BY <1>1
  <2> QED BY <1>1, <2>1 DEF Elements
<1>4. ASSUME NEW i \in 1 .. k PROVE u[i] \in Elements(s)
  <2>1. i \in 1 .. Len(s)
    BY <1>1
  <2> QED BY <1>1, <2>1 DEF Elements
<1> QED BY <1>1, <1>2, <1>3, <1>4 DEF Elements, t, u

Increasing(s) == \A i, j \in 1 .. Len(s) : i < j => s[i] < s[j]

\* The last turns of turns in order are in order, and end alike.
LEMMA LastNOrdered ==
    ASSUME NEW s \in Seq(Exchanges), NEW n \in Nat \ {0}, Increasing(s)
    PROVE  /\ Increasing(LastN(s, n))
           /\ s # <<>> => LastN(s, n) # <<>> /\ LastN(s, n)[Len(LastN(s, n))] = s[Len(s)]
<1> DEFINE m == IF Len(s) <= n THEN Len(s) ELSE n
           t == LastN(s, n)
<1>1. /\ Len(t) = m /\ \A i \in 1 .. m : t[i] = s[Len(s) - m + i]
      /\ Len(s) \in Nat /\ m \in Nat /\ m <= Len(s) /\ (m = 0 => Len(s) = 0)
  <2>1. Len(t) = m /\ \A i \in 1 .. m : t[i] = s[Len(s) - m + i]
    BY LastNFacts
  <2>2. Len(s) \in Nat /\ m \in Nat /\ m <= Len(s) /\ (m = 0 => Len(s) = 0)
    OBVIOUS
  <2> QED BY <2>1, <2>2
<1> HIDE DEF m, t
<1>2. Increasing(t)
  <2> SUFFICES ASSUME NEW i \in 1 .. m, NEW j \in 1 .. m, i < j PROVE t[i] < t[j]
    BY <1>1 DEF Increasing
  <2>1. /\ Len(s) - m + i \in 1 .. Len(s) /\ Len(s) - m + j \in 1 .. Len(s)
        /\ Len(s) - m + i < Len(s) - m + j
    BY <1>1
  <2>2. s[Len(s) - m + i] < s[Len(s) - m + j]
    BY <2>1 DEF Increasing
  <2> QED BY <1>1, <2>2
<1>3. ASSUME s # <<>> PROVE t # <<>> /\ t[Len(t)] = s[Len(s)]
  <2>1. Len(s) # 0
    BY <1>3, EmptySeq
  <2>2. m \in 1 .. m /\ Len(s) - m + m = Len(s)
    BY <1>1, <2>1
  <2>3. Len(<<>>) = 0
    OBVIOUS
  <2> QED BY <1>1, <2>2, <2>3
<1> QED BY <1>2, <1>3 DEF t

\* One exchange more.
LEMMA GrownFacts ==
    ASSUME NEW o \in OpType, o.mine # Nothing
    PROVE  /\ Grown(o) \in Seq(Exchanges) /\ Grown(o) # <<>>
           /\ Grown(o)[Len(Grown(o))] = o.mine
           /\ Elements(Grown(o)) = Elements(o.recent) \cup {o.mine}
           /\ Increasing(o.recent) /\ (\A e \in Elements(o.recent) : e < o.mine) =>
                 Increasing(Grown(o))
<1> DEFINE s == o.recent
           x == o.mine
           t == Append(s, x)
<1>1. s \in Seq(Exchanges) /\ x \in Exchanges /\ Grown(o) = t
  BY DEF OpType, Grown
<1> HIDE DEF s, x
<1>2. Len(s) \in Nat /\ t \in Seq(Exchanges) /\ Len(t) = Len(s) + 1
  BY <1>1
<1>3. \A i \in 1 .. Len(s) + 1 : t[i] = IF i = Len(s) + 1 THEN x ELSE s[i]
  BY <1>1
<1> HIDE DEF t
<1>4. Len(<<>>) = 0
  OBVIOUS
<1>5. Elements(t) = Elements(s) \cup {x}
  <2>1. \A i \in 1 .. Len(s) : i \in 1 .. Len(s) + 1 /\ i # Len(s) + 1
    BY <1>2
  <2>2. \A i \in 1 .. Len(s) + 1 : i = Len(s) + 1 \/ i \in 1 .. Len(s)
    BY <1>2
  <2>3. Len(s) + 1 \in 1 .. Len(s) + 1
    BY <1>2
  <2> QED BY <1>2, <1>3, <2>1, <2>2, <2>3 DEF Elements
<1>6. ASSUME Increasing(s), \A e \in Elements(s) : e < x PROVE Increasing(t)
  <2> SUFFICES ASSUME NEW i \in 1 .. Len(s) + 1, NEW j \in 1 .. Len(s) + 1, i < j
               PROVE  t[i] < t[j]
    BY <1>2 DEF Increasing
  <2>1. i \in 1 .. Len(s) /\ t[i] = s[i]
    BY <1>2, <1>3
  <2>2. CASE j = Len(s) + 1
    BY <1>3, <1>6, <2>1, <2>2 DEF Elements
  <2>3. CASE j # Len(s) + 1
    <3>1. j \in 1 .. Len(s) /\ t[j] = s[j]
      BY <1>2, <1>3, <2>3
    <3> QED BY <1>6, <2>1, <3>1 DEF Increasing
  <2> QED BY <2>2, <2>3
<1> QED BY <1>1, <1>2, <1>3, <1>4, <1>5, <1>6 DEF s, x

-----------------------------------------------------------------------------
(* The invariant.  OpOK relates the locals of a call; SafeOp says, of a call *)
(* no append has overlapped, what it has read or written so far covers.      *)

OpOK(o) ==
    /\ o \in OpType
    /\ o.pc \in {"idle", "done"} => o.mine = Nothing
    /\ o.pc \in {"summarize", "fold", "write"} => o.mine # Nothing

SafeOp(o, sm, fg, dn, st) ==
    /\ o.mine # Nothing =>
          /\ dn \subseteq Elements(o.recent) \cup sm \cup fg
          /\ Increasing(o.recent) /\ o.mine <= st
          /\ o.pc = "summary" => \A e \in Elements(o.recent) : e < o.mine
          /\ o.pc \in {"summarize", "fold", "write"} =>
                o.recent # <<>> /\ o.recent[Len(o.recent)] = o.mine
          /\ o.pc \in {"summarize", "fold"} => sm \subseteq o.gist \cup fg
          /\ o.pc = "fold" => Elements(AllButLastN(o.recent, KeepRecent)) \subseteq o.gist \cup fg
    /\ o.mine = Nothing =>
          /\ o.pc = "summary" => o.expected \subseteq Elements(o.recent) \cup sm \cup fg
          /\ o.pc = "done" => o.expected \subseteq Elements(o.recent) \cup o.gist \cup fg

\* The turns are in order, and none of them is newer than the last append.
Ordered(tn, st) == Increasing(tn) /\ \A e \in Elements(tn) : e <= st

SafeState ==
    /\ \A p \in Procs : SafeOp(op[p], summary, forgotten, done, started)
    /\ \A p, q \in Procs : Appending(p) /\ Appending(q) => p = q
    /\ done \subseteq Elements(turns) \cup summary \cup forgotten
    /\ Ordered(turns, started)

IInv ==
    /\ TypeOK
    /\ \A p \in Procs : OpOK(op[p])
    /\ ~ raced => SafeState

\* What the rest of the system may do while a call waits: the summary is replaced
\* by one that covers it; an append meets no other append.
LEMMA Drift ==
    ASSUME NEW o, NEW sm, NEW fg, NEW dn, NEW st \in Nat, SafeOp(o, sm, fg, dn, st), OpOK(o),
           NEW sm2, NEW fg2, NEW dn2, NEW st2 \in Nat,
           fg \subseteq fg2, sm \subseteq sm2 \cup fg2, st <= st2,
           o.mine # Nothing => sm2 \subseteq sm /\ dn2 = dn
    PROVE  SafeOp(o, sm2, fg2, dn2, st2)
<1>1. CASE o.mine # Nothing
  <2>1. dn2 \subseteq Elements(o.recent) \cup sm2 \cup fg2
    BY <1>1 DEF SafeOp
  <2>2. o.mine <= st2
    BY <1>1 DEF SafeOp, OpOK, OpType, Exchanges, Nothing
  <2> QED BY <1>1, <2>1, <2>2 DEF SafeOp
<1>2. CASE o.mine = Nothing
  BY <1>2 DEF SafeOp
<1> QED BY <1>1, <1>2

\* A step of request p: what it must guarantee of its own call and of the store.
LEMMA Moves ==
    ASSUME IInv, NEW p \in Procs, NEW o, op' = [op EXCEPT ![p] = o], OpOK(o),
           turns' \in Seq(Exchanges), Len(turns') <= HardCap, summary' \in SUBSET Exchanges,
           started' \in 0 .. MaxExchanges, started <= started', done' \in SUBSET Exchanges,
           forgotten' \in SUBSET Exchanges, raced' \in BOOLEAN,
           forgotten \subseteq forgotten',
           ~ raced' =>
              /\ ~ raced
              /\ SafeOp(o, summary', forgotten', done', started')
              /\ summary \subseteq summary' \cup forgotten'
              /\ \A q \in Procs : q # p /\ Appending(q) =>
                    summary' \subseteq summary /\ done' = done /\ o.mine = Nothing
              /\ done' \subseteq Elements(turns') \cup summary' \cup forgotten'
              /\ Ordered(turns', started')
    PROVE  IInv'
<1>1. op \in [Procs -> OpType] /\ o \in OpType /\ started \in Nat /\ started' \in Nat
  BY DEF IInv, TypeOK, OpOK, MemoryAssumption
<1>2. /\ op' \in [Procs -> OpType] /\ op'[p] = o
      /\ \A q \in Procs : q # p => op'[q] = op[q]
  BY <1>1
<1>3. TypeOK'
  BY <1>2 DEF TypeOK
<1>4. \A q \in Procs : OpOK(op'[q])
  BY <1>2 DEF IInv
<1>5. ASSUME ~ raced' PROVE SafeState'
  <2>1. SafeState
    BY <1>5 DEF IInv
  <2>2. ASSUME NEW q \in Procs
        PROVE  SafeOp(op'[q], summary', forgotten', done', started')
    <3>1. CASE q = p
      BY <1>2, <1>5, <3>1
    <3>2. CASE q # p
      <4>1. SafeOp(op[q], summary, forgotten, done, started) /\ OpOK(op[q])
        BY <2>1 DEF SafeState, IInv
      <4>2. op[q].mine # Nothing => summary' \subseteq summary /\ done' = done
        BY <1>5, <3>2 DEF Appending
      <4>3. SafeOp(op[q], summary', forgotten', done', started')
        BY <1>1, <1>5, <4>1, <4>2, Drift
      <4> QED BY <1>2, <3>2, <4>3
    <3> QED BY <3>1, <3>2
  <2>3. \A q, r \in Procs : op'[q].mine # Nothing /\ op'[r].mine # Nothing => q = r
    BY <1>2, <1>5, <2>1 DEF SafeState, Appending
  <2> QED BY <1>5, <2>2, <2>3 DEF SafeState, Appending
<1> QED BY <1>3, <1>4, <1>5 DEF IInv

LEMMA IdleOK == Idle \in OpType /\ [Idle EXCEPT !.pc = "done"] \in OpType
<1>1. <<>> \in Seq(Exchanges)
  OBVIOUS
<1> QED BY <1>1 DEF Idle, OpType, Nothing

\* A call that ends without writing the turns.
LEMMA AbortStep ==
    ASSUME IInv, NEW p \in Procs, Abort(p)
    PROVE  IInv'
<1>1. OpOK(Idle) /\ op' = [op EXCEPT ![p] = Idle]
  BY IdleOK DEF OpOK, Idle, Nothing, Abort, Become
<1>2. SafeOp(Idle, summary, forgotten, done, started)
  BY DEF SafeOp, Idle, Nothing
<1>3. UNCHANGED <<turns, summary, started, done, forgotten, raced>>
  BY DEF Abort
<1>4. started <= started
  BY MemoryAssumption DEF IInv, TypeOK
<1>5. Idle.mine = Nothing
  BY DEF Idle
<1> QED BY <1>1, <1>2, <1>3, <1>4, <1>5, Moves DEF IInv, TypeOK, SafeState

LEMMA LoadStep ==
    ASSUME IInv, NEW p \in Procs, Load(p)
    PROVE  IInv'
<1> DEFINE o == [Idle EXCEPT !.pc = "summary", !.recent = turns, !.expected = done]
<1>1. /\ o \in OpType /\ o.pc = "summary" /\ o.mine = Nothing /\ o.recent = turns
      /\ o.expected = done
  BY IdleOK DEF Idle, OpType, IInv, TypeOK
<1>2. OpOK(o) /\ op' = [op EXCEPT ![p] = o]
  BY <1>1 DEF OpOK, Load, Become
<1> HIDE DEF o
<1>3. ~ raced => SafeOp(o, summary, forgotten, done, started)
  BY <1>1 DEF SafeOp, IInv, SafeState
<1>4. UNCHANGED <<turns, summary, started, done, forgotten, raced>>
  BY DEF Load
<1>5. started <= started
  BY MemoryAssumption DEF IInv, TypeOK
<1> QED BY <1>1, <1>2, <1>3, <1>4, <1>5, Moves DEF IInv, TypeOK, SafeState

LEMMA AppendTurnsStep ==
    ASSUME IInv, NEW p \in Procs, AppendTurns(p)
    PROVE  IInv'
<1> DEFINE o == [Idle EXCEPT !.pc = "summary", !.mine = started + 1, !.recent = turns]
<1>0. /\ started \in Nat /\ started + 1 \in 1 .. MaxExchanges /\ started + 1 # Nothing
      /\ started + 1 \in 0 .. MaxExchanges /\ started' = started + 1
  BY MemoryAssumption DEF IInv, TypeOK, AppendTurns, Nothing
<1>1. /\ o \in OpType /\ o.pc = "summary" /\ o.mine = started + 1 /\ o.recent = turns
  BY <1>0, IdleOK DEF Idle, OpType, Exchanges, IInv, TypeOK
<1>2. OpOK(o) /\ op' = [op EXCEPT ![p] = o]
  BY <1>0, <1>1 DEF OpOK, AppendTurns, Become
<1> HIDE DEF o
<1>3. UNCHANGED <<turns, summary, done, forgotten>> /\ raced' = (raced \/ \E q \in Procs : Appending(q))
  BY DEF AppendTurns
<1>4. raced' \in BOOLEAN
  BY <1>3
<1>5. ASSUME ~ raced'
      PROVE  /\ ~ raced /\ \A q \in Procs : ~ Appending(q)
             /\ SafeOp(o, summary', forgotten', done', started')
             /\ Ordered(turns', started')
  <2>1. SafeState /\ ~ raced /\ \A q \in Procs : ~ Appending(q)
    BY <1>3, <1>5 DEF IInv
  <2>2. \A e \in Elements(turns) : e \in Nat /\ e <= started
    <3>1. turns \in Seq(Exchanges)
      BY DEF IInv, TypeOK
    <3>2. \A i \in 1 .. Len(turns) : turns[i] \in Exchanges
      BY <3>1
    <3>3. \A e \in Elements(turns) : e \in Nat
      BY <3>2 DEF Elements, Exchanges
    <3> QED BY <2>1, <3>3 DEF SafeState, Ordered
  <2>3. \A e \in Elements(turns) : e < started + 1 /\ e <= started + 1
    BY <1>0, <2>2
  <2>4. started + 1 <= started + 1
    BY <1>0
  <2> QED BY <1>0, <1>1, <1>3, <2>1, <2>3, <2>4 DEF SafeState, SafeOp, Ordered
<1>6. started <= started'
  BY <1>0
<1> QED BY <1>0, <1>1, <1>2, <1>3, <1>4, <1>5, <1>6, Moves DEF IInv, TypeOK, SafeState

LEMMA GetSummaryStep ==
    ASSUME IInv, NEW p \in Procs, GetSummary(p)
    PROVE  IInv'
<1> DEFINE j == op[p]
<1>0. /\ j \in OpType /\ j.pc = "summary" /\ OpOK(j) /\ summary \in SUBSET Exchanges
      /\ started <= started
      /\ ~ raced => SafeState /\ SafeOp(j, summary, forgotten, done, started)
  BY MemoryAssumption DEF IInv, TypeOK, GetSummary, At, SafeState
<1>u. UNCHANGED <<turns, summary, started, done, forgotten, raced>>
  BY DEF GetSummary
<1>1. CASE j.mine = Nothing
  <2> DEFINE o == [j EXCEPT !.pc = "done", !.gist = summary]
  <2>1. /\ o \in OpType /\ o.pc = "done" /\ o.mine = Nothing /\ o.gist = summary
        /\ o.recent = j.recent /\ o.expected = j.expected
    BY <1>0, <1>1 DEF OpType
  <2>2. OpOK(o) /\ op' = [op EXCEPT ![p] = o]
    BY <1>1, <2>1 DEF OpOK, GetSummary, Become
  <2> HIDE DEF o
  <2>3. ~ raced => SafeOp(o, summary, forgotten, done, started)
    BY <1>0, <1>1, <2>1 DEF SafeOp
  <2> QED BY <1>0, <1>u, <2>1, <2>2, <2>3, Moves DEF IInv, TypeOK, SafeState
<1>2. CASE j.mine # Nothing
  <2>1. PICK l \in {"write", "summarize"} :
          op' = [op EXCEPT ![p] = [j EXCEPT !.pc = l, !.gist = summary, !.recent = Grown(j)]]
    BY <1>2 DEF GetSummary, Become
  <2> DEFINE o == [j EXCEPT !.pc = l, !.gist = summary, !.recent = Grown(j)]
  <2>2. /\ Grown(j) \in Seq(Exchanges) /\ Grown(j) # <<>> /\ Grown(j)[Len(Grown(j))] = j.mine
        /\ Elements(Grown(j)) = Elements(j.recent) \cup {j.mine}
        /\ Increasing(j.recent) /\ (\A e \in Elements(j.recent) : e < j.mine) => Increasing(Grown(j))
    BY <1>0, <1>2, GrownFacts
  <2>3. /\ o \in OpType /\ o.pc = l /\ o.mine = j.mine /\ o.gist = summary /\ o.recent = Grown(j)
    BY <1>0, <2>2 DEF OpType
  <2>4. OpOK(o) /\ op' = [op EXCEPT ![p] = o]
    BY <1>2, <2>1, <2>3 DEF OpOK
  <2> HIDE DEF o
  <2>5. ~ raced => SafeOp(o, summary, forgotten, done, started)
    BY <1>0, <1>2, <2>2, <2>3 DEF SafeOp
  <2>6. ~ raced => \A q \in Procs : q # p => ~ Appending(q)
    BY <1>0, <1>2 DEF SafeState, Appending
  <2> QED BY <1>0, <1>u, <2>4, <2>5, <2>6, Moves DEF IInv, TypeOK, SafeState
<1> QED BY <1>1, <1>2

\* Where an append stands, and that it is alone.
LEMMA AppendingFacts ==
    ASSUME IInv, NEW p \in Procs, op[p].pc \in {"summarize", "fold", "write"}
    PROVE  /\ op[p] \in OpType /\ op[p].mine \in Exchanges /\ op[p].mine # Nothing
           /\ op[p].recent \in Seq(Exchanges) /\ op[p].gist \in SUBSET Exchanges
           /\ started <= started /\ KeepRecent \in Nat \ {0} /\ HardCap \in Nat \ {0}
           /\ summary \in SUBSET Exchanges /\ forgotten \in SUBSET Exchanges
           /\ ~ raced => /\ SafeState /\ SafeOp(op[p], summary, forgotten, done, started)
                         /\ \A q \in Procs : q # p => ~ Appending(q)
<1>1. op[p] \in OpType /\ OpOK(op[p]) /\ (~ raced => SafeState)
  BY DEF IInv, TypeOK
<1>2. op[p].mine # Nothing /\ op[p].mine \in Exchanges
  BY <1>1 DEF OpOK, OpType, Nothing
<1>3. started <= started /\ KeepRecent \in Nat \ {0} /\ HardCap \in Nat \ {0}
  BY MemoryAssumption DEF IInv, TypeOK
<1>4. ~ raced => /\ SafeOp(op[p], summary, forgotten, done, started)
                 /\ \A q \in Procs : q # p => ~ Appending(q)
  BY <1>1, <1>2 DEF SafeState, Appending
<1> QED BY <1>1, <1>2, <1>3, <1>4 DEF OpType, IInv, TypeOK

LEMMA SummarizeStep ==
    ASSUME IInv, NEW p \in Procs, Summarize(p)
    PROVE  IInv'
<1> DEFINE j == op[p]
           overflow == Elements(AllButLastN(j.recent, KeepRecent))
<1>0. j.pc = "summarize"
  BY DEF Summarize, At
<1>1. /\ j \in OpType /\ j.mine # Nothing /\ j.recent \in Seq(Exchanges)
      /\ j.gist \in SUBSET Exchanges /\ started <= started
      /\ KeepRecent \in Nat \ {0} /\ forgotten \in SUBSET Exchanges
      /\ ~ raced => /\ SafeState /\ SafeOp(j, summary, forgotten, done, started)
                    /\ \A q \in Procs : q # p => ~ Appending(q)
  BY <1>0, AppendingFacts
<1>u. UNCHANGED <<turns, summary, started, done, raced>>
  BY DEF Summarize
<1>2. overflow \in SUBSET Exchanges
  <2>1. AllButLastN(j.recent, KeepRecent) \in Seq(Exchanges)
    BY <1>1, AllButFacts
  <2> QED BY <2>1 DEF Elements
<1>3. ASSUME NEW g \in SUBSET Exchanges, NEW l \in {"fold", "write"},
             op' = [op EXCEPT ![p] = [j EXCEPT !.pc = l, !.gist = g]],
             forgotten' \in SUBSET Exchanges, forgotten \subseteq forgotten',
             l = "fold" => j.gist \cup overflow \subseteq g \cup forgotten'
      PROVE  IInv'
  <2> DEFINE o == [j EXCEPT !.pc = l, !.gist = g]
  <2>1. /\ o \in OpType /\ o.pc = l /\ o.mine = j.mine /\ o.gist = g /\ o.recent = j.recent
    BY <1>1 DEF OpType
  <2>2. OpOK(o) /\ op' = [op EXCEPT ![p] = o]
    BY <1>1, <1>3, <2>1 DEF OpOK
  <2> HIDE DEF o
  <2>3. ~ raced => SafeOp(o, summary, forgotten', done, started)
    <3> SUFFICES ASSUME ~ raced PROVE SafeOp(o, summary, forgotten', done, started)
      OBVIOUS
    <3>1. /\ done \subseteq Elements(j.recent) \cup summary \cup forgotten
          /\ Increasing(j.recent) /\ j.mine <= started
          /\ j.recent # <<>> /\ j.recent[Len(j.recent)] = j.mine
          /\ summary \subseteq j.gist \cup forgotten
      BY <1>0, <1>1 DEF SafeOp
    <3>2. done \subseteq Elements(j.recent) \cup summary \cup forgotten'
      BY <1>3, <3>1
    <3>3. l = "fold" => summary \subseteq g \cup forgotten' /\ overflow \subseteq g \cup forgotten'
      BY <1>3, <3>1
    <3> QED BY <1>1, <2>1, <3>1, <3>2, <3>3 DEF SafeOp
  <2>4. ~ raced => done \subseteq Elements(turns) \cup summary \cup forgotten' /\ Ordered(turns, started)
    BY <1>1, <1>3 DEF SafeState
  <2> QED BY <1>1, <1>3, <1>u, <2>2, <2>3, <2>4, Moves DEF IInv, TypeOK
<1>4. CASE Become(p, [j EXCEPT !.pc = "fold", !.gist = j.gist \cup overflow]) /\ forgotten' = forgotten
  BY <1>1, <1>2, <1>3, <1>4 DEF Become
<1>5. CASE /\ Become(p, [j EXCEPT !.pc = "fold", !.gist = {}])
           /\ forgotten' = forgotten \cup j.gist \cup overflow
  BY <1>1, <1>2, <1>3, <1>5 DEF Become
<1>6. CASE Become(p, [j EXCEPT !.pc = "write"]) /\ forgotten' = forgotten
  <2>1. [j EXCEPT !.pc = "write"] = [j EXCEPT !.pc = "write", !.gist = j.gist]
    BY <1>1 DEF OpType
  <2> QED BY <1>1, <1>3, <1>6, <2>1 DEF Become
<1> QED BY <1>4, <1>5, <1>6 DEF Summarize

LEMMA SetSummaryStep ==
    ASSUME IInv, NEW p \in Procs, SetSummary(p)
    PROVE  IInv'
<1> DEFINE j == op[p]
           kept == LastN(j.recent, KeepRecent)
           overflow == Elements(AllButLastN(j.recent, KeepRecent))
<1>0. j.pc = "fold"
  BY DEF SetSummary, At
<1>1. /\ j \in OpType /\ j.mine # Nothing /\ j.recent \in Seq(Exchanges)
      /\ j.gist \in SUBSET Exchanges /\ started <= started /\ summary \in SUBSET Exchanges
      /\ KeepRecent \in Nat \ {0}
      /\ ~ raced => /\ SafeState /\ SafeOp(j, summary, forgotten, done, started)
                    /\ \A q \in Procs : q # p => ~ Appending(q)
  BY <1>0, AppendingFacts
<1>u. UNCHANGED <<turns, started, done, forgotten, raced>>
  BY DEF SetSummary
<1>2. /\ kept \in Seq(Exchanges)
      /\ Increasing(j.recent) =>
            /\ Increasing(kept)
            /\ j.recent # <<>> => kept # <<>> /\ kept[Len(kept)] = j.recent[Len(j.recent)]
      /\ Elements(j.recent) = Elements(kept) \cup overflow
  BY <1>1, LastNFacts, LastNOrdered, SlicesCover
<1>3. ~ raced => /\ done \subseteq Elements(j.recent) \cup summary \cup forgotten
                 /\ done \subseteq Elements(turns) \cup summary \cup forgotten
                 /\ Increasing(j.recent) /\ j.mine <= started
                 /\ j.recent # <<>> /\ j.recent[Len(j.recent)] = j.mine
                 /\ summary \subseteq j.gist \cup forgotten
                 /\ overflow \subseteq j.gist \cup forgotten
                 /\ Ordered(turns, started)
  BY <1>0, <1>1 DEF SafeOp, SafeState
<1>4. ASSUME NEW t \in Seq(Exchanges), summary' \in {summary, j.gist},
             op' = [op EXCEPT ![p] = [j EXCEPT !.pc = "write", !.recent = t]],
             ~ raced => /\ Increasing(t) /\ t # <<>> /\ t[Len(t)] = j.mine
                        /\ done \subseteq Elements(t) \cup summary' \cup forgotten
      PROVE  IInv'
  <2> DEFINE o == [j EXCEPT !.pc = "write", !.recent = t]
  <2>1. /\ o \in OpType /\ o.pc = "write" /\ o.mine = j.mine /\ o.recent = t
    BY <1>1 DEF OpType
  <2>2. OpOK(o) /\ op' = [op EXCEPT ![p] = o]
    BY <1>1, <1>4, <2>1 DEF OpOK
  <2> HIDE DEF o
  <2>3. ~ raced => SafeOp(o, summary', forgotten, done, started)
    BY <1>1, <1>3, <1>4, <2>1 DEF SafeOp
  <2>4. ~ raced => /\ summary \subseteq summary' \cup forgotten
                   /\ done \subseteq Elements(turns) \cup summary' \cup forgotten
    BY <1>3, <1>4
  <2>5. summary' \in SUBSET Exchanges
    BY <1>1, <1>4
  <2> QED BY <1>1, <1>3, <1>u, <2>2, <2>3, <2>4, <2>5, Moves DEF IInv, TypeOK
<1>5. CASE summary' = j.gist /\ Become(p, [j EXCEPT !.pc = "write", !.recent = kept])
  <2>1. ~ raced => /\ Increasing(kept) /\ kept # <<>> /\ kept[Len(kept)] = j.mine
                   /\ done \subseteq Elements(kept) \cup summary' \cup forgotten
    <3> HIDE DEF kept, overflow
    <3> QED BY <1>2, <1>3, <1>5
  <2> QED BY <1>2, <1>4, <1>5, <2>1 DEF Become
<1>6. CASE summary' \in {summary, j.gist} /\ Become(p, [j EXCEPT !.pc = "write"])
  <2>1. [j EXCEPT !.pc = "write"] = [j EXCEPT !.pc = "write", !.recent = j.recent]
    BY <1>1 DEF OpType
  <2>2. ~ raced => done \subseteq Elements(j.recent) \cup summary' \cup forgotten
    BY <1>3, <1>6
  <2> QED BY <1>1, <1>3, <1>4, <1>6, <2>1, <2>2 DEF Become
<1> QED BY <1>5, <1>6 DEF SetSummary

LEMMA SetTurnsStep ==
    ASSUME IInv, NEW p \in Procs, SetTurns(p)
    PROVE  IInv'
<1> DEFINE j == op[p]
           kept == LastN(j.recent, HardCap)
           overflow == Elements(AllButLastN(j.recent, HardCap))
           o == [Idle EXCEPT !.pc = "done"]
<1>0. j.pc = "write"
  BY DEF SetTurns, At
<1>1. /\ j \in OpType /\ j.mine \in Exchanges /\ j.mine # Nothing /\ j.recent \in Seq(Exchanges)
      /\ started <= started /\ HardCap \in Nat \ {0} /\ forgotten \in SUBSET Exchanges
      /\ ~ raced => /\ SafeState /\ SafeOp(j, summary, forgotten, done, started)
                    /\ \A q \in Procs : q # p => ~ Appending(q)
  BY <1>0, AppendingFacts
<1>u. /\ turns' = kept /\ forgotten' = forgotten \cup overflow /\ done' = done \cup {j.mine}
      /\ op' = [op EXCEPT ![p] = o] /\ UNCHANGED <<summary, started, raced>>
  BY DEF SetTurns, Become
<1>2. /\ kept \in Seq(Exchanges) /\ Len(kept) <= HardCap
      /\ Increasing(j.recent) =>
            /\ Increasing(kept)
            /\ j.recent # <<>> => kept # <<>> /\ kept[Len(kept)] = j.recent[Len(j.recent)]
      /\ Elements(j.recent) = Elements(kept) \cup overflow
  <2>1. Len(j.recent) \in Nat
    BY <1>1
  <2>2. kept \in Seq(Exchanges) /\ Len(kept) = IF Len(j.recent) <= HardCap THEN Len(j.recent) ELSE HardCap
    BY <1>1, LastNFacts
  <2>3. Len(kept) <= HardCap
    BY <1>1, <2>1, <2>2
  <2> QED BY <1>1, <2>2, <2>3, LastNOrdered, SlicesCover
<1>3. overflow \in SUBSET Exchanges
  <2>1. AllButLastN(j.recent, HardCap) \in Seq(Exchanges)
    BY <1>1, AllButFacts
  <2> QED BY <2>1 DEF Elements
<1>4. /\ o \in OpType /\ o.pc = "done" /\ o.mine = Nothing /\ o.expected = {}
  BY IdleOK DEF Idle
<1>5. OpOK(o) /\ SafeOp(o, summary', forgotten', done', started')
  BY <1>4 DEF OpOK, SafeOp
<1> HIDE DEF o, kept, overflow
<1>6. ASSUME ~ raced
      PROVE  /\ done' \subseteq Elements(turns') \cup summary' \cup forgotten'
             /\ Ordered(turns', started')
  <2>1. /\ done \subseteq Elements(j.recent) \cup summary \cup forgotten
        /\ Increasing(j.recent) /\ j.mine <= started
        /\ j.recent # <<>> /\ j.recent[Len(j.recent)] = j.mine
    BY <1>0, <1>1, <1>6 DEF SafeOp
  <2>2. Increasing(kept) /\ kept # <<>> /\ kept[Len(kept)] = j.mine
    BY <1>2, <2>1
  <2>3. Len(kept) \in Nat /\ Len(kept) \in 1 .. Len(kept)
    <3>1. Len(kept) \in Nat \ {0}
      BY <1>2, <2>2, EmptySeq
    <3> QED BY <3>1
  <2>4. j.mine \in Elements(kept)
    BY <2>2, <2>3 DEF Elements
  <2>5. ASSUME NEW e \in Elements(kept) PROVE e <= started
    <3>1. PICK i \in 1 .. Len(kept) : e = kept[i]
      BY DEF Elements
    <3>2. /\ i = Len(kept) \/ i < Len(kept)
          /\ kept[i] \in Nat /\ kept[Len(kept)] \in Nat /\ started \in Nat
      BY <1>2, <2>3, MemoryAssumption DEF IInv, TypeOK, Exchanges
    <3>3. kept[i] = j.mine \/ kept[i] < j.mine
      BY <2>2, <2>3, <3>2 DEF Increasing
    <3> QED BY <2>1, <2>2, <3>1, <3>2, <3>3
  <2> QED BY <1>2, <1>u, <2>1, <2>2, <2>4, <2>5 DEF Ordered
<1>7. forgotten' \in SUBSET Exchanges /\ done' \in SUBSET Exchanges
  BY <1>1, <1>3, <1>u DEF IInv, TypeOK
<1> QED BY <1>1, <1>2, <1>4, <1>5, <1>6, <1>7, <1>u, Moves DEF IInv, TypeOK

\* A TTL runs out: what is dropped is forgotten, and no call moves.
LEMMA ExpireStep ==
    ASSUME IInv, ExpireTurns \/ ExpireSummary
    PROVE  IInv'
<1>1. /\ turns \in Seq(Exchanges) /\ summary \in SUBSET Exchanges /\ started \in Nat
      /\ forgotten \in SUBSET Exchanges /\ started <= started
  BY MemoryAssumption DEF IInv, TypeOK
<1>2. Elements(turns) \in SUBSET Exchanges
  BY <1>1 DEF Elements
<1>3. /\ op' = op /\ started' = started /\ done' = done /\ raced' = raced
      /\ forgotten \subseteq forgotten' /\ forgotten' \in SUBSET Exchanges
      /\ summary' \subseteq summary /\ summary \subseteq summary' \cup forgotten'
      /\ Elements(turns) \subseteq Elements(turns') \cup forgotten'
      /\ turns' = turns \/ turns' = <<>>
  BY <1>1, <1>2 DEF ExpireTurns, ExpireSummary
<1>4. <<>> \in Seq(Exchanges) /\ Len(<<>>) = 0
  OBVIOUS
<1>5. TypeOK'
  <2>1. turns' \in Seq(Exchanges) /\ Len(turns') <= HardCap
    <3>1. turns \in Seq(Exchanges) /\ Len(turns) <= HardCap /\ 0 <= HardCap
      BY MemoryAssumption DEF IInv, TypeOK
    <3>2. CASE turns' = turns
      BY <3>1, <3>2
    <3>3. CASE turns' = <<>>
      BY <1>4, <3>1, <3>3
    <3> QED BY <1>3, <3>2, <3>3
  <2> QED BY <1>1, <1>3, <2>1 DEF IInv, TypeOK
<1>6. ASSUME ~ raced PROVE SafeState'
  <2>1. SafeState
    BY <1>6 DEF IInv
  <2>2. ASSUME NEW q \in Procs PROVE SafeOp(op[q], summary', forgotten', done, started)
    <3>1. SafeOp(op[q], summary, forgotten, done, started) /\ OpOK(op[q])
      BY <2>1 DEF IInv, SafeState
    <3> QED BY <1>1, <1>3, <3>1, Drift
  <2>3. Ordered(<<>>, started)
    BY <1>4 DEF Ordered, Increasing, Elements
  <2>4. Ordered(turns', started)
    BY <1>3, <2>1, <2>3 DEF SafeState
  <2> QED BY <1>3, <2>1, <2>2, <2>4 DEF SafeState, Appending
<1> QED BY <1>3, <1>5, <1>6 DEF IInv

\* The invariant is inductive: one lemma per action.
LEMMA IInvStep == IInv /\ [Next]_vars => IInv'
<1> SUFFICES ASSUME IInv, [Next]_vars PROVE IInv'
  OBVIOUS
<1>1. CASE UNCHANGED vars
  BY <1>1 DEF vars, IInv, TypeOK, OpOK, SafeState, SafeOp, Appending, Ordered
<1> QED
  BY <1>1, LoadStep, AppendTurnsStep, GetSummaryStep, SummarizeStep, SetSummaryStep,
     SetTurnsStep, AbortStep, ExpireStep DEF Next

LEMMA IInvInit == Init => IInv
<1> SUFFICES ASSUME Init PROVE IInv
  OBVIOUS
<1>1. <<>> \in Seq(Exchanges) /\ Len(<<>>) = 0
  OBVIOUS
<1>2. \A p \in Procs : op[p] = Idle
  BY DEF Init
<1>3. TypeOK
  <2>1. turns = <<>> /\ 0 <= HardCap /\ started \in 0 .. MaxExchanges
    BY MemoryAssumption DEF Init
  <2>2. op \in [Procs -> OpType]
    BY IdleOK DEF Init
  <2>3. turns \in Seq(Exchanges) /\ Len(turns) <= HardCap
    BY <1>1, <2>1
  <2> QED BY <2>1, <2>2, <2>3 DEF Init, TypeOK
<1>4. OpOK(Idle) /\ SafeOp(Idle, summary, forgotten, done, started)
  BY IdleOK DEF OpOK, SafeOp, Idle, Nothing
<1>5. Ordered(turns, started)
  BY <1>1 DEF Init, Ordered, Increasing, Elements
<1>6. Idle.mine = Nothing
  BY DEF Idle
<1> QED BY <1>2, <1>3, <1>4, <1>5, <1>6 DEF IInv, SafeState, Appending, Init

LEMMA Invariance == Spec => []IInv
BY IInvInit, IInvStep, PTL DEF Spec

-----------------------------------------------------------------------------
(* The theorems.                                                           *)

\* The variables keep their types, and the stored turns the hard cap
\* (session_memory.py:111-112).
THEOREM MemoryTypes == Spec => []TypeOK
<1>1. IInv => TypeOK
  BY DEF IInv
<1> QED BY <1>1, Invariance, PTL

\* Folding loses no exchange, wherever an append fails or stops
\* (session_memory.py:98-112).
THEOREM FoldingIsLossless == Spec => []FoldingLosesNothing
<1>1. IInv => FoldingLosesNothing
  BY DEF IInv, SafeState, FoldingLosesNothing, Remembered
<1> QED BY <1>1, Invariance, PTL

\* A load, which is no snapshot, misses no exchange (session_memory.py:57-58).
THEOREM LoadsMissNothing == Spec => []LoadsSeeEverything
<1>1. IInv => LoadsSeeEverything
  <2> SUFFICES ASSUME IInv, NEW p \in Procs, op[p].pc = "done", ~ raced
               PROVE  op[p].expected \subseteq Elements(op[p].recent) \cup op[p].gist \cup forgotten
    BY DEF LoadsSeeEverything, At
  <2>1. OpOK(op[p]) /\ SafeOp(op[p], summary, forgotten, done, started)
    BY DEF IInv, SafeState
  <2> QED BY <2>1 DEF OpOK, SafeOp
<1> QED BY <1>1, Invariance, PTL

\* The stored turns are in the order they were appended.
THEOREM TurnsStayInOrder == Spec => []TurnsInOrder
<1>1. IInv => TurnsInOrder
  BY DEF IInv, SafeState, Ordered, Increasing, TurnsInOrder
<1> QED BY <1>1, Invariance, PTL
=============================================================================
