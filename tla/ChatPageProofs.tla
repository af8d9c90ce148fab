---------------------------- MODULE ChatPageProofs ----------------------------
(* What TLAPS proves of the chat page, for any number of sessions and of       *)
(* questions.  The page is typed; the sessions on file and the messages on the *)
(* screen hold, in order, questions of their own session; and a question that  *)
(* was answered is in both, because its stream found its session on the screen.*)
EXTENDS ChatPage, ListProofs

Stream == [session : Nat, text : BOOLEAN, phase : {"open", "answered", "cut", "closed"}]

\* What is on the screen: a question is never empty and never streams.
Numbered(msgs, str) ==
    \A k \in DOMAIN msgs :
        /\ msgs[k].q \in DOMAIN str
        /\ msgs[k].role = "user" => msgs[k].text /\ ~ msgs[k].live

\* What is on file: sessions that exist, each once, and nothing that streams.
Filed(S, str, n) ==
    /\ S \in Seq(ChatSession)
    /\ \A k \in DOMAIN S :
          /\ S[k].id \in 1 .. n
          /\ Numbered(S[k].messages, str)
          /\ \A i \in DOMAIN S[k].messages : ~ S[k].messages[i].live
    /\ \A k, l \in DOMAIN S : S[k].id = S[l].id => k = l

\* The questions of msgs are the session's own and come in order.
Own(msgs, s, str) ==
    /\ \A i \in DOMAIN msgs : msgs[i].role = "user" => str[msgs[i].q].session = s
    /\ \A i, j \in DOMAIN msgs :
          msgs[i].role = "user" /\ msgs[j].role = "user" /\ i < j => msgs[i].q < msgs[j].q

Asked(msgs, q) == \E i \in DOMAIN msgs : msgs[i].role = "user" /\ msgs[i].q = q

\* The questions of K that were asked in the session are among msgs.
Holds(msgs, s, str, K) == \A q \in K : str[q].session = s => Asked(msgs, q)

\* Every session on file holds its own questions, and with K those of K.
Owned(S, str) == \A k \in DOMAIN S : Own(S[k].messages, S[k].id, str)

Held(S, str, K) == \A k \in DOMAIN S : Holds(S[k].messages, S[k].id, str, K)

\* A list of sessions in which the questions of K are kept, while undisturbed.
Fits(S, str, n, K, undisturbed) ==
    /\ Filed(S, str, n)
    /\ undisturbed => Owned(S, str) /\ Held(S, str, K)

PageType ==
    [current : Nat \cup {NoOne}, messages : Seq(Message),
     streaming : BOOLEAN, abort : Nat \cup {NoOne}]

\* The variables but the files have their types.
Typed ==
    /\ page \in PageType
    /\ page.current \in 1 .. made \cup {NoOne}
    /\ page.abort \in DOMAIN stream \cup {NoOne}
    /\ Numbered(page.messages, stream)
    /\ stream \in Seq(Stream)
    /\ \A q \in DOMAIN stream : stream[q].session \in 1 .. made
    /\ made \in Nat /\ kept \subseteq DOMAIN stream /\ left \subseteq DOMAIN stream

\* What the page reads, and what it would read after a reload.
Files ==
    /\ Fits(View, stream, made, kept, disturbed = {})
    /\ Fits(stored, stream, made, {}, disturbed = {})

\* The screen shows the session it says, and every question that streams for it.
Screen ==
    /\ page.current = NoOne => page.messages = <<>>
    /\ Own(page.messages, page.current, stream)
    /\ Holds(page.messages, page.current, stream, kept)
    /\ \A k \in DOMAIN page.messages : page.messages[k].live => page.messages[k].q \notin kept
    /\ \A q \in DOMAIN stream : Streaming(q) /\ q \notin left =>
          stream[q].session = page.current /\ Asked(page.messages, q)

\* A question is settled before its stream ends well.
Phases ==
    \A q \in DOMAIN stream :
        /\ q \in kept => stream[q].phase \in {"answered", "closed"}
        /\ stream[q].phase = "answered" => q \in kept

PageInv ==
    Typed /\ Files /\ OneStreamAtATime /\ (disturbed = {} => Screen /\ Phases)

-----------------------------------------------------------------------------
(* Lists of messages.                                                      *)

LEMMA PickedMessages ==
    ASSUME NEW str, NEW msgs \in Seq(Message), Numbered(msgs, str), NEW P \in SUBSET DOMAIN msgs
    PROVE  /\ Pick(msgs, P) \in Seq(Message) /\ Numbered(Pick(msgs, P), str)
           /\ \A s : Own(msgs, s, str) => Own(Pick(msgs, P), s, str)
           /\ \A i \in P : \E k \in DOMAIN Pick(msgs, P) : Pick(msgs, P)[k] = msgs[i]
           /\ \A k \in DOMAIN Pick(msgs, P) : \E i \in P : Pick(msgs, P)[k] = msgs[i]
<1> DEFINE t == Pick(msgs, P)
<1>1. t \in Seq(Message) /\ \E at : Picked(t, msgs, P, at)
  BY PickPicks
<1>2. PICK at : Picked(t, msgs, P, at)
  BY <1>1
<1> HIDE DEF t
<1>3. /\ DOMAIN t = 1 .. Len(t) /\ Len(t) \in Nat
      /\ DOMAIN msgs = 1 .. Len(msgs) /\ Len(msgs) \in Nat
  BY <1>1
<1>4. /\ \A k \in DOMAIN t : at[k] \in P /\ at[k] \in DOMAIN msgs /\ t[k] = msgs[at[k]]
      /\ \A k, l \in DOMAIN t : k < l => at[k] < at[l]
      /\ \A i \in P : \E k \in DOMAIN t : at[k] = i
  BY <1>2, <1>3 DEF Picked
<1>5. Numbered(t, str)
  BY <1>4 DEF Numbered
<1>6. ASSUME NEW s, Own(msgs, s, str)
      PROVE  Own(t, s, str)
  BY <1>4, <1>6 DEF Own
<1>7. /\ \A i \in P : \E k \in DOMAIN t : t[k] = msgs[i]
      /\ \A k \in DOMAIN t : \E i \in P : t[k] = msgs[i]
  BY <1>4
<1> QED
  BY <1>1, <1>5, <1>6, <1>7 DEF t

\* What is stored of a list loses no question, and nothing of it streams.
LEMMA Cleaned ==
    ASSUME NEW str, NEW msgs \in Seq(Message), Numbered(msgs, str)
    PROVE  /\ Clean(msgs) \in Seq(Message) /\ Numbered(Clean(msgs), str)
           /\ \A i \in DOMAIN Clean(msgs) : ~ Clean(msgs)[i].live
           /\ \A s : Own(msgs, s, str) => Own(Clean(msgs), s, str)
           /\ \A q : Asked(msgs, q) => Asked(Clean(msgs), q)
<1> DEFINE P == {k \in DOMAIN msgs : ~ msgs[k].live \/ msgs[k].text}
           t == Pick(msgs, P)
           c == [k \in DOMAIN t |-> [t[k] EXCEPT !.live = FALSE]]
<1>0. \A k \in DOMAIN msgs : msgs[k].role = "user" => k \in P
  BY DEF Numbered
<1>1. P \in SUBSET DOMAIN msgs
  OBVIOUS
<1> HIDE DEF P
<1>2. /\ t \in Seq(Message) /\ Numbered(t, str)
      /\ \A s : Own(msgs, s, str) => Own(t, s, str)
      /\ \A i \in P : \E k \in DOMAIN t : t[k] = msgs[i]
  BY <1>1, PickedMessages
<1> HIDE DEF t
<1>3. /\ DOMAIN t = 1 .. Len(t) /\ Len(t) \in Nat
      /\ \A k \in DOMAIN t : t[k] \in Message
  BY <1>2
<1>4. \A k \in DOMAIN t : /\ [t[k] EXCEPT !.live = FALSE] \in Message
                          /\ [t[k] EXCEPT !.live = FALSE].q = t[k].q
                          /\ [t[k] EXCEPT !.live = FALSE].role = t[k].role
                          /\ [t[k] EXCEPT !.live = FALSE].text = t[k].text
                          /\ [t[k] EXCEPT !.live = FALSE].live = FALSE
  BY <1>3 DEF Message
<1>5. /\ DOMAIN c = DOMAIN t /\ c \in Seq(Message)
      /\ \A k \in DOMAIN t : /\ c[k].q = t[k].q /\ c[k].role = t[k].role
                             /\ c[k].text = t[k].text /\ c[k].live = FALSE
  <2>1. c \in [1 .. Len(t) -> Message]
    BY <1>3, <1>4
  <2>2. c \in Seq(Message)
    <3> HIDE DEF c
    <3> QED
      BY <2>1, <1>3
  <2> QED
    BY <2>2, <1>4
<1>6. Clean(msgs) = c
  BY DEF Clean, t, P
<1> HIDE DEF c
<1>7. Numbered(c, str) /\ \A i \in DOMAIN c : ~ c[i].live
  BY <1>2, <1>5 DEF Numbered
<1>8. ASSUME NEW s, Own(msgs, s, str)
      PROVE  Own(c, s, str)
  <2>1. Own(t, s, str)
    BY <1>2, <1>8
  <2> QED
    BY <2>1, <1>5 DEF Own
<1>9. ASSUME NEW q, Asked(msgs, q)
      PROVE  Asked(c, q)
  <2>1. PICK i \in DOMAIN msgs : msgs[i].role = "user" /\ msgs[i].q = q
    BY <1>9 DEF Asked
  <2>2. PICK k \in DOMAIN t : t[k] = msgs[i]
    BY <1>0, <1>2, <2>1
  <2> QED
    BY <2>1, <2>2, <1>5 DEF Asked
<1> QED
  BY <1>5, <1>6, <1>7, <1>8, <1>9

\* A token or an answer changes no question.
LEMMA MappedMessages ==
    ASSUME NEW str, page.messages \in Seq(Message), Numbered(page.messages, str),
           NEW q, NEW text \in BOOLEAN, NEW live \in BOOLEAN
    PROVE  /\ Mapped(q, text, live) \in Seq(Message) /\ Numbered(Mapped(q, text, live), str)
           /\ \A s : Own(page.messages, s, str) => Own(Mapped(q, text, live), s, str)
           /\ \A r : Asked(page.messages, r) => Asked(Mapped(q, text, live), r)
           /\ DOMAIN Mapped(q, text, live) = DOMAIN page.messages
           /\ \A k \in DOMAIN page.messages :
                 /\ Mapped(q, text, live)[k].q = page.messages[k].q
                 /\ Mapped(q, text, live)[k].live =>
                       page.messages[k].q = q \/ page.messages[k].live
<1> DEFINE old == page.messages
           new(k) == [old[k] EXCEPT !.text = text, !.live = live]
           m == Mapped(q, text, live)
<1>1. \A k \in DOMAIN old : /\ old[k] \in Message /\ new(k) \in Message
                            /\ new(k).q = old[k].q /\ new(k).role = old[k].role
                            /\ new(k).text = text /\ new(k).live = live
  <2>1. \A k \in DOMAIN old : old[k] \in Message
    OBVIOUS
  <2> QED
    BY <2>1 DEF Message
<1>2. m = [k \in DOMAIN old |->
              IF old[k].q = q /\ old[k].role = "assistant" THEN new(k) ELSE old[k]]
  BY DEF Mapped
<1>3. DOMAIN old = 1 .. Len(old) /\ Len(old) \in Nat
  OBVIOUS
<1> HIDE DEF new, m, old
<1>4. m \in [1 .. Len(old) -> Message]
  BY <1>1, <1>2, <1>3
<1>5. m \in Seq(Message) /\ DOMAIN m = DOMAIN old
  BY <1>3, <1>4
<1>6. \A k \in DOMAIN old :
         /\ m[k].q = old[k].q /\ m[k].role = old[k].role
         /\ old[k].role = "user" => m[k] = old[k]
         /\ m[k] = old[k] \/ (m[k].live = live /\ old[k].q = q)
         /\ old[k].q = q => old[k].role = "user" \/ m[k].live = live
  BY <1>1, <1>2 DEF Message
<1>7. Numbered(m, str)
  BY <1>5, <1>6 DEF Numbered, old
<1>8. ASSUME NEW s, Own(old, s, str)
      PROVE  Own(m, s, str)
  BY <1>5, <1>6, <1>8 DEF Own
<1>9. ASSUME NEW r, Asked(old, r)
      PROVE  Asked(m, r)
  BY <1>5, <1>6, <1>9 DEF Asked
<1>10. \A k \in DOMAIN old : m[k].live => old[k].q = q \/ old[k].live
  BY <1>6
<1> QED
  BY <1>5, <1>6, <1>7, <1>8, <1>9, <1>10 DEF old, m

\* An answer that has ended streams no longer, and its question never did.
LEMMA SettledMessages ==
    ASSUME NEW str, page.messages \in Seq(Message), Numbered(page.messages, str),
           NEW q, NEW text \in BOOLEAN, NEW k \in DOMAIN page.messages,
           Mapped(q, text, FALSE)[k].live
    PROVE  page.messages[k].q # q /\ page.messages[k].live
<1>1. page.messages[k] \in Message
  OBVIOUS
<1>2. CASE page.messages[k].q = q /\ page.messages[k].role = "assistant"
  <2>1. Mapped(q, text, FALSE)[k] = [page.messages[k] EXCEPT !.text = text, !.live = FALSE]
    BY <1>2 DEF Mapped
  <2>2. Mapped(q, text, FALSE)[k].live = FALSE
    BY <1>1, <2>1 DEF Message
  <2> QED
    BY <2>2
<1>3. CASE ~ (page.messages[k].q = q /\ page.messages[k].role = "assistant")
  <2>1. Mapped(q, text, FALSE)[k] = page.messages[k]
    BY <1>3 DEF Mapped
  <2>2. page.messages[k].role # "user"
    BY <2>1 DEF Numbered
  <2> QED
    BY <1>1, <1>3, <2>1, <2>2 DEF Message
<1> QED
  BY <1>2, <1>3

\* The streams keep their sessions, whatever happens to them.
Extends(str2, str) ==
    /\ DOMAIN str \subseteq DOMAIN str2
    /\ \A q \in DOMAIN str : str2[q].session = str[q].session

LEMMA MessagesStay ==
    ASSUME NEW str, NEW str2, Extends(str2, str), NEW msgs, Numbered(msgs, str)
    PROVE  Numbered(msgs, str2) /\ \A s : Own(msgs, s, str) => Own(msgs, s, str2)
BY DEF Numbered, Own, Extends

LEMMA FilesStay ==
    ASSUME NEW str, NEW str2, Extends(str2, str), NEW n \in Nat, NEW n2 \in Nat, n <= n2,
           NEW S, Filed(S, str, n)
    PROVE  /\ Filed(S, str2, n2)
           /\ Owned(S, str) => Owned(S, str2)
           /\ \A K \in SUBSET DOMAIN str : Held(S, str, K) => Held(S, str2, K)
<1>1. \A k \in DOMAIN S : Numbered(S[k].messages, str2)
  BY MessagesStay DEF Filed
<1>2. Filed(S, str2, n2)
  <2>1. \A k \in DOMAIN S : S[k].id \in 1 .. n => S[k].id \in 1 .. n2
    OBVIOUS
  <2> QED
    BY <1>1, <2>1 DEF Filed
<1>3. Owned(S, str) => Owned(S, str2)
  BY MessagesStay DEF Filed, Owned
<1>4. ASSUME NEW K \in SUBSET DOMAIN str, Held(S, str, K)
      PROVE  Held(S, str2, K)
  BY <1>4 DEF Held, Holds, Extends
<1> QED
  BY <1>2, <1>3, <1>4

-----------------------------------------------------------------------------
(* The sessions on file.                                                   *)

LEMMA SessionFound ==
    ASSUME View \in Seq(ChatSession), NEW s
    PROVE  \/ Session(s) = 0 /\ \A k \in DOMAIN View : View[k].id # s
           \/ Session(s) # 0 /\ Session(s) \in DOMAIN View /\ View[Session(s)].id = s
<1> DEFINE I == {i \in 1 .. Len(View) : View[i].id = s}
<1>1. Session(s) = IF I # {} THEN Min(I) ELSE 0
  BY DEF Session, SelectInSeq
<1>2. DOMAIN View = 1 .. Len(View) /\ Len(View) \in Nat
  OBVIOUS
<1>3. I \subseteq Nat /\ 0 \notin I
  BY <1>2
<1>4. CASE I = {}
  BY <1>1, <1>2, <1>4
<1>5. CASE I # {}
  <2>1. \A i \in I : i \in DOMAIN View /\ View[i].id = s
    BY <1>2
  <2> HIDE DEF I
  <2>2. Min(I) \in I
    BY <1>3, <1>5, FirstOf
  <2> QED
    BY <2>1, <2>2, <1>1, <1>3, <1>5
<1> QED
  BY <1>4, <1>5

LEMMA SomeoneIsNot ==
    NoOne \notin Nat /\ NoOne \notin Seq(ChatSession)
BY ChatAssumption

\* A write that fails leaves what it wrote in memory.
LEMMA WriteKeeps ==
    ASSUME NEW x \in Seq(ChatSession), Write(x)
    PROVE  /\ View' = x
           /\ stored' = x \/ stored' = stored
           /\ fallback' = NoOne \/ fallback' = x
<1>1. x # NoOne
  BY SomeoneIsNot
<1> QED
  BY <1>1 DEF Write, View

LEMMA NewSessionFits ==
    ASSUME NEW str, NEW n \in Nat, NEW K \in SUBSET DOMAIN str, NEW S, NEW undisturbed,
           Fits(S, str, n, K, undisturbed), \A q \in DOMAIN str : str[q].session \in 1 .. n
    PROVE  /\ <<[id |-> n + 1, messages |-> <<>>]>> \o S \in Seq(ChatSession)
           /\ Fits(<<[id |-> n + 1, messages |-> <<>>]>> \o S, str, n + 1, K, undisturbed)
<1> DEFINE new == [id |-> n + 1, messages |-> <<>>]
           T == <<new>> \o S
<1>1. /\ S \in Seq(ChatSession) /\ new \in ChatSession /\ new.id = n + 1
      /\ new.messages = <<>> /\ DOMAIN new.messages = {}
  <2>1. <<>> \in Seq(Message) /\ DOMAIN <<>> = {}
    OBVIOUS
  <2> QED
    BY <2>1 DEF Fits, Filed, ChatSession
<1>2. DOMAIN S = 1 .. Len(S) /\ Len(S) \in Nat
  BY <1>1
<1> HIDE DEF new
<1>3. /\ T \in Seq(ChatSession) /\ DOMAIN T = 1 .. Len(S) + 1
      /\ T[1] = new /\ \A k \in 2 .. Len(S) + 1 : T[k] = S[k - 1] /\ k - 1 \in DOMAIN S
  BY <1>1, <1>2
<1> HIDE DEF T
<1>4. \A k \in DOMAIN T : \/ k = 1 /\ T[k] = new
                          \/ k # 1 /\ k - 1 \in DOMAIN S /\ T[k] = S[k - 1]
  BY <1>2, <1>3
<1>5. \A k \in DOMAIN S : S[k].id \in 1 .. n /\ S[k].id # n + 1
  BY DEF Fits, Filed
<1>6. Filed(T, str, n + 1)
  <2>1. ASSUME NEW k \in DOMAIN T
        PROVE  /\ T[k].id \in 1 .. n + 1
               /\ Numbered(T[k].messages, str)
               /\ \A i \in DOMAIN T[k].messages : ~ T[k].messages[i].live
    <3>1. CASE T[k] = new
      BY <3>1, <1>1 DEF Numbered
    <3>2. CASE k - 1 \in DOMAIN S /\ T[k] = S[k - 1]
      <4>1. T[k].id \in 1 .. n + 1
        BY <3>2, <1>5
      <4> QED
        BY <3>2, <4>1 DEF Fits, Filed
    <3> QED
      BY <3>1, <3>2, <1>4
  <2>2. ASSUME NEW k \in DOMAIN T, NEW l \in DOMAIN T, T[k].id = T[l].id
        PROVE  k = l
    <3>1. k \in Nat /\ l \in Nat
      BY <1>2, <1>3
    <3>2. CASE k = 1 /\ l # 1
      BY <3>2, <2>2, <1>1, <1>4, <1>5
    <3>3. CASE k # 1 /\ l = 1
      BY <3>3, <2>2, <1>1, <1>4, <1>5
    <3>4. CASE k # 1 /\ l # 1
      <4>1. S[k - 1].id = S[l - 1].id /\ k - 1 \in DOMAIN S /\ l - 1 \in DOMAIN S
        BY <3>4, <2>2, <1>4
      <4>2. k - 1 = l - 1
        BY <4>1 DEF Fits, Filed
      <4> QED
        BY <4>2, <3>1
    <3> QED
      BY <3>2, <3>3, <3>4
  <2> QED
    BY <1>3, <2>1, <2>2 DEF Filed
<1>7. ASSUME undisturbed
      PROVE  Owned(T, str) /\ Held(T, str, K)
  <2>1. Owned(S, str) /\ Held(S, str, K)
    BY <1>7 DEF Fits
  <2>2. Own(new.messages, new.id, str) /\ Holds(new.messages, new.id, str, K)
    <3>1. \A q \in K : str[q].session # n + 1
      OBVIOUS
    <3> QED
      BY <1>1, <3>1 DEF Own, Holds
  <2> QED
    BY <1>4, <2>1, <2>2 DEF Owned, Held
<1> QED
  BY <1>3, <1>6, <1>7 DEF T, new, Fits

LEMMA RestFits ==
    ASSUME NEW str, NEW n, NEW K, NEW S, NEW undisturbed,
           Fits(S, str, n, K, undisturbed), NEW P \in SUBSET DOMAIN S
    PROVE  /\ Pick(S, P) \in Seq(ChatSession)
           /\ Fits(Pick(S, P), str, n, K, undisturbed)
<1> DEFINE t == Pick(S, P)
<1>0. S \in Seq(ChatSession)
  BY DEF Fits, Filed
<1>1. t \in Seq(ChatSession) /\ \E at : Picked(t, S, P, at)
  BY <1>0, PickPicks
<1>2. PICK at : Picked(t, S, P, at)
  BY <1>1
<1> HIDE DEF t
<1>3. DOMAIN t = 1 .. Len(t) /\ Len(t) \in Nat /\ DOMAIN S = 1 .. Len(S) /\ Len(S) \in Nat
  BY <1>0, <1>1
<1>4. /\ \A k \in DOMAIN t : at[k] \in DOMAIN S /\ t[k] = S[at[k]] /\ at[k] \in Nat
      /\ \A k, l \in DOMAIN t : k < l => at[k] < at[l]
  BY <1>2, <1>3 DEF Picked
<1>5. ASSUME NEW k \in DOMAIN t, NEW l \in DOMAIN t, t[k].id = t[l].id
      PROVE  k = l
  <2>1. at[k] = at[l] /\ at[k] \in Nat /\ at[l] \in Nat
    BY <1>4, <1>5 DEF Fits, Filed
  <2>2. k \in Nat /\ l \in Nat /\ ~ (k < l) /\ ~ (l < k)
    BY <1>3, <1>4, <2>1
  <2> QED
    BY <2>2
<1>6. Filed(t, str, n)
  BY <1>1, <1>4, <1>5 DEF Fits, Filed
<1>7. undisturbed => Owned(t, str) /\ Held(t, str, K)
  BY <1>4 DEF Fits, Owned, Held
<1> QED
  BY <1>1, <1>6, <1>7 DEF t, Fits

\* Messages stored for a session: they hold its questions of K2, and no others of
\* K2 are new.
LEMMA StoredFits ==
    ASSUME NEW str, NEW n, NEW K, NEW K2, NEW S, NEW undisturbed,
           Fits(S, str, n, K, undisturbed), NEW j \in DOMAIN S,
           NEW msgs \in Seq(Message), Numbered(msgs, str),
           undisturbed =>
              /\ Own(msgs, S[j].id, str) /\ Holds(msgs, S[j].id, str, K2)
              /\ \A q \in K2 \ K : str[q].session = S[j].id
    PROVE  /\ [S EXCEPT ![j].messages = Clean(msgs)] \in Seq(ChatSession)
           /\ Fits([S EXCEPT ![j].messages = Clean(msgs)], str, n, K2, undisturbed)
<1> DEFINE c == Clean(msgs)
           new == [S[j] EXCEPT !.messages = c]
           t == [S EXCEPT ![j].messages = c]
<1>1. /\ c \in Seq(Message) /\ Numbered(c, str) /\ \A i \in DOMAIN c : ~ c[i].live
      /\ \A s : Own(msgs, s, str) => Own(c, s, str)
      /\ \A q : Asked(msgs, q) => Asked(c, q)
  BY Cleaned
<1> HIDE DEF c
<1>2. S \in Seq(ChatSession) /\ S[j] \in ChatSession
  <2>1. S \in Seq(ChatSession)
    BY DEF Fits, Filed
  <2> QED
    BY <2>1
<1>3. new \in ChatSession /\ new.id = S[j].id /\ new.messages = c
  BY <1>1, <1>2 DEF ChatSession
<1>4. t = [S EXCEPT ![j] = new]
  OBVIOUS
<1> HIDE DEF new, t
<1>5. /\ t \in Seq(ChatSession) /\ DOMAIN t = DOMAIN S
      /\ t[j] = new /\ \A k \in DOMAIN S : k # j => t[k] = S[k]
  BY <1>2, <1>3, <1>4
<1>6. \A k \in DOMAIN S : t[k].id = S[k].id
  BY <1>3, <1>5
<1>7. Filed(t, str, n)
  <2>1. ASSUME NEW k \in DOMAIN t
        PROVE  /\ Numbered(t[k].messages, str)
               /\ \A i \in DOMAIN t[k].messages : ~ t[k].messages[i].live
    <3>1. CASE k = j
      BY <3>1, <1>1, <1>3, <1>5
    <3>2. CASE k # j
      BY <3>2, <1>5 DEF Fits, Filed
    <3> QED
      BY <3>1, <3>2
  <2> QED
    BY <1>5, <1>6, <2>1 DEF Fits, Filed
<1>8. ASSUME undisturbed
      PROVE  Owned(t, str) /\ Held(t, str, K2)
  <2>1. Owned(S, str) /\ Held(S, str, K)
    BY <1>8 DEF Fits
  <2>2. Own(c, S[j].id, str) /\ Holds(c, S[j].id, str, K2)
    BY <1>1, <1>8 DEF Holds
  <2>3. Owned(t, str)
    BY <2>1, <2>2, <1>3, <1>5, <1>6 DEF Owned
  <2>4. ASSUME NEW k \in DOMAIN t
        PROVE  Holds(t[k].messages, t[k].id, str, K2)
    <3>1. CASE k = j
      BY <3>1, <2>2, <1>3, <1>5
    <3>2. CASE k # j
      <4>1. t[k] = S[k] /\ S[k].id # S[j].id
        BY <3>2, <1>5 DEF Fits, Filed
      <4>2. \A q \in K2 : str[q].session = S[k].id => q \in K
        BY <4>1, <1>8
      <4>3. Holds(S[k].messages, S[k].id, str, K)
        BY <2>1, <1>5 DEF Held
      <4> QED
        BY <4>1, <4>2, <4>3 DEF Holds
    <3> QED
      BY <3>1, <3>2
  <2> QED
    BY <2>3, <2>4 DEF Held
<1> QED
  BY <1>5, <1>7, <1>8 DEF t, c, Fits

LEMMA FitsStays ==
    ASSUME NEW str, NEW str2, Extends(str2, str), NEW n \in Nat, NEW n2 \in Nat, n <= n2,
           NEW K \in SUBSET DOMAIN str, NEW K2 \in SUBSET K, NEW u, NEW u2, u2 => u, NEW S,
           Fits(S, str, n, K, u)
    PROVE  Fits(S, str2, n2, K2, u2)
<1>1. Filed(S, str2, n2)
  BY FilesStay DEF Fits
<1>2. ASSUME u2
      PROVE  Owned(S, str2) /\ Held(S, str2, K2)
  <2>1. Owned(S, str) /\ Held(S, str, K)
    BY <1>2 DEF Fits
  <2>2. Owned(S, str2) /\ Held(S, str2, K)
    BY <2>1, FilesStay DEF Fits
  <2> QED
    BY <2>2 DEF Held, Holds
<1> QED
  BY <1>1, <1>2 DEF Fits

\* A write that may fail: either way the page reads what was written.
LEMMA Written ==
    ASSUME NEW x, Write(x), Fits(x, stream', made', kept', disturbed' = {}),
           Fits(stored, stream', made', {}, disturbed' = {})
    PROVE  Files'
<1>1. x \in Seq(ChatSession)
  BY DEF Fits, Filed
<1>2. View' = x /\ (stored' = x \/ stored' = stored)
  BY <1>1, WriteKeeps
<1>3. Fits(x, stream', made', {}, disturbed' = {})
  BY DEF Fits, Held, Holds
<1> QED
  BY <1>2, <1>3 DEF Files

\* What is not written stays as good as it was.
LEMMA Unwritten ==
    ASSUME PageInv, UNCHANGED <<stored, fallback>>, Extends(stream', stream),
           made' \in Nat, made <= made', kept' \subseteq kept, disturbed' = {} => disturbed = {}
    PROVE  Files'
<1>1. View' = View /\ stored' = stored
  BY DEF View
<1>2. /\ made \in Nat /\ kept \in SUBSET DOMAIN stream /\ kept' \in SUBSET kept
      /\ {} \in SUBSET DOMAIN stream /\ {} \in SUBSET {}
      /\ Fits(View, stream, made, kept, disturbed = {})
      /\ Fits(stored, stream, made, {}, disturbed = {})
  BY DEF PageInv, Typed, Files
<1>3. Fits(View, stream', made', kept', disturbed' = {})
  BY <1>2, FitsStays
<1>4. Fits(stored, stream', made', {}, disturbed' = {})
  BY <1>2, FitsStays
<1> QED
  BY <1>1, <1>3, <1>4 DEF Files

-----------------------------------------------------------------------------
(* The screen.                                                             *)

\* Messages read from a file.
Loaded(msgs, s, str, n, K, undisturbed) ==
    /\ msgs \in Seq(Message) /\ Numbered(msgs, str)
    /\ \A k \in DOMAIN msgs : ~ msgs[k].live
    /\ s \in 1 .. n \cup {NoOne}
    /\ s = NoOne => msgs = <<>>
    /\ undisturbed => Own(msgs, s, str) /\ Holds(msgs, s, str, K)

LEMMA FileLoads ==
    ASSUME NEW str, NEW n \in Nat, NEW K, NEW u, NEW S, Fits(S, str, n, K, u), NEW k \in DOMAIN S
    PROVE  Loaded(S[k].messages, S[k].id, str, n, K, u)
<1>1. S \in Seq(ChatSession)
  BY DEF Fits, Filed
<1>2. S[k] \in ChatSession
  BY <1>1
<1>3. S[k].messages \in Seq(Message) /\ S[k].id # NoOne
  BY <1>2, SomeoneIsNot DEF ChatSession
<1> QED
  BY <1>3 DEF Fits, Filed, Owned, Held, Loaded

LEMMA NothingLoads ==
    ASSUME NEW str, NEW n \in Nat, NEW K \in SUBSET DOMAIN str, NEW u,
           NEW s \in 1 .. n \cup {NoOne}, \A q \in DOMAIN str : str[q].session # s
    PROVE  Loaded(<<>>, s, str, n, K, u)
<1>1. <<>> \in Seq(Message) /\ DOMAIN <<>> = {}
  OBVIOUS
<1> QED
  BY <1>1 DEF Loaded, Numbered, Own, Holds

LEMMA FirstLoads ==
    ASSUME NEW str, NEW n \in Nat, NEW K \in SUBSET DOMAIN str, NEW u, NEW S, Fits(S, str, n, K, u),
           page \in PageType, \A q \in DOMAIN str : str[q].session \in Nat
    PROVE  /\ First(S) \in PageType
           /\ First(S).streaming = page.streaming /\ First(S).abort = page.abort
           /\ Loaded(First(S).messages, First(S).current, str, n, K, u)
<1>1. S \in Seq(ChatSession)
  BY DEF Fits, Filed
<1>2. CASE S = <<>>
  <2>1. First(S) = [page EXCEPT !.current = NoOne, !.messages = <<>>]
    BY <1>2 DEF First
  <2>2. /\ First(S) \in PageType /\ First(S).current = NoOne /\ First(S).messages = <<>>
        /\ First(S).streaming = page.streaming /\ First(S).abort = page.abort
    <3>1. <<>> \in Seq(Message)
      OBVIOUS
    <3> QED
      BY <2>1, <3>1 DEF PageType
  <2>3. Loaded(<<>>, NoOne, str, n, K, u)
    BY NothingLoads, SomeoneIsNot
  <2> QED
    BY <2>2, <2>3
<1>3. CASE S # <<>>
  <2>1. 1 \in DOMAIN S /\ Head(S) = S[1] /\ S[1] \in ChatSession
    BY <1>1, <1>3
  <2>2. First(S) = [page EXCEPT !.current = S[1].id, !.messages = S[1].messages]
    BY <1>3, <2>1 DEF First
  <2>3. S[1].id \in Nat /\ S[1].messages \in Seq(Message)
    BY <2>1 DEF ChatSession
  <2>4. /\ First(S) \in PageType
        /\ First(S).current = S[1].id /\ First(S).messages = S[1].messages
        /\ First(S).streaming = page.streaming /\ First(S).abort = page.abort
    BY <2>2, <2>3 DEF PageType
  <2>5. Loaded(S[1].messages, S[1].id, str, n, K, u)
    BY <2>1, FileLoads
  <2> QED
    BY <2>4, <2>5
<1> QED
  BY <1>2, <1>3

\* The user goes to another session: what streams there is left.
LEMMA Reshown ==
    ASSUME PageInv, page' \in PageType, page'.streaming = page.streaming, page'.abort = page.abort,
           made' \in Nat, made <= made',
           Loaded(page'.messages, page'.current, stream, made', kept, disturbed = {}),
           Leaving, UNCHANGED <<stream, kept, disturbed>>
    PROVE  Typed' /\ OneStreamAtATime' /\ (disturbed' = {} => Screen' /\ Phases')
<1>1. Typed'
  <2>1. left' \subseteq DOMAIN stream'
    BY DEF PageInv, Typed, Leaving
  <2>2. \A q \in DOMAIN stream : stream[q].session \in 1 .. made'
    BY DEF PageInv, Typed
  <2> QED
    BY <2>1, <2>2 DEF PageInv, Typed, Loaded
<1>2. OneStreamAtATime'
  BY DEF PageInv, OneStreamAtATime
<1>3. ASSUME disturbed' = {}
      PROVE  Screen' /\ Phases'
  <2>1. Phases'
    BY <1>3 DEF PageInv, Phases
  <2>2. \A q \in DOMAIN stream' : ~ (Streaming(q)' /\ q \notin left')
    BY DEF Leaving, Streaming
  <2> QED
    BY <1>3, <2>1, <2>2 DEF Loaded, Screen
<1> QED
  BY <1>1, <1>2, <1>3

LEMMA SameStreams ==
    \A str : Extends(str, str)
BY DEF Extends

\* createSession, from the page's files and with the streams there are.
LEMMA Created ==
    ASSUME PageInv, Create
    PROVE  /\ made' = made + 1 /\ made' \in Nat
           /\ Fits(View', stream, made', kept, disturbed = {})
           /\ Fits(stored', stream, made', {}, disturbed = {})
<1> DEFINE x == <<[id |-> made + 1, messages |-> <<>>]>> \o View
           u == (disturbed = {})
<1>1. /\ made' = made + 1 /\ made \in Nat /\ made' \in Nat /\ made <= made'
      /\ kept \in SUBSET DOMAIN stream /\ {} \in SUBSET DOMAIN stream /\ {} \in SUBSET {}
      /\ \A q \in DOMAIN stream : stream[q].session \in 1 .. made
      /\ Fits(View, stream, made, kept, u) /\ Fits(stored, stream, made, {}, u)
      /\ Write(x)
  BY DEF PageInv, Typed, Files, Create
<1> HIDE DEF u
<1>2. x \in Seq(ChatSession) /\ Fits(x, stream, made', kept, u)
  BY <1>1, NewSessionFits
<1> HIDE DEF x
<1>3. View' = x /\ (stored' = x \/ stored' = stored)
  BY <1>1, <1>2, WriteKeeps
<1>4. Fits(x, stream, made', {}, u)
  BY <1>2 DEF Fits, Held, Holds
<1>5. Fits(stored, stream, made', {}, u)
  BY <1>1, SameStreams, FitsStays
<1> QED
  BY <1>1, <1>2, <1>3, <1>4, <1>5 DEF u

-----------------------------------------------------------------------------
(* The steps.                                                              *)

LEMMA NewChatKeeps ==
    ASSUME PageInv, NewChat
    PROVE  PageInv'
<1>1. /\ Create /\ page' = [page EXCEPT !.current = made + 1, !.messages = <<>>]
      /\ Leaving /\ UNCHANGED <<stream, kept, disturbed>>
  BY DEF NewChat
<1>2. /\ made' = made + 1 /\ made' \in Nat /\ made \in Nat /\ made <= made'
      /\ Fits(View', stream, made', kept, disturbed = {})
      /\ Fits(stored', stream, made', {}, disturbed = {})
  <2>1. made \in Nat
    BY DEF PageInv, Typed
  <2> QED
    BY <1>1, <2>1, Created
<1>3. Files'
  BY <1>1, <1>2 DEF Files
<1>4. /\ page' \in PageType /\ page'.current = made' /\ page'.messages = <<>>
      /\ page'.streaming = page.streaming /\ page'.abort = page.abort
  <2>1. page \in PageType /\ <<>> \in Seq(Message)
    BY DEF PageInv, Typed
  <2> QED
    BY <1>1, <1>2, <2>1 DEF PageType
<1>5. Loaded(<<>>, made', stream, made', kept, disturbed = {})
  <2>1. /\ \A q \in DOMAIN stream : stream[q].session # made'
        /\ kept \in SUBSET DOMAIN stream /\ made' \in 1 .. made' \cup {NoOne}
    BY <1>2 DEF PageInv, Typed
  <2> QED
    BY <1>2, <2>1, NothingLoads
<1> QED
  BY <1>1, <1>2, <1>3, <1>4, <1>5, Reshown DEF PageInv

LEMMA SelectKeeps ==
    ASSUME PageInv, Select
    PROVE  PageInv'
<1>1. /\ Leaving /\ UNCHANGED <<stream, stored, fallback, made, kept, disturbed>>
      /\ made \in Nat /\ kept \subseteq kept
      /\ Fits(View, stream, made, kept, disturbed = {}) /\ page \in PageType
  BY DEF Select, PageInv, Typed, Files
<1>2. PICK k \in DOMAIN View : page' = Show(View[k].id)
  BY DEF Select
<1>3. View \in Seq(ChatSession) /\ View[k] \in ChatSession
  <2>1. View \in Seq(ChatSession)
    BY <1>1 DEF Fits, Filed
  <2> QED
    BY <2>1
<1>4. Session(View[k].id) = k
  <2>1. Session(View[k].id) \in DOMAIN View /\ View[Session(View[k].id)].id = View[k].id
    BY <1>3, SessionFound
  <2> QED
    BY <2>1, <1>1 DEF Fits, Filed
<1>5. page' = [page EXCEPT !.current = View[k].id, !.messages = View[k].messages]
  <2>1. View[k].id # NoOne
    BY <1>3, SomeoneIsNot DEF ChatSession
  <2> QED
    BY <1>2, <1>4, <2>1 DEF Show
<1>6. /\ page' \in PageType /\ page'.current = View[k].id /\ page'.messages = View[k].messages
      /\ page'.streaming = page.streaming /\ page'.abort = page.abort
  <2>1. View[k].id \in Nat /\ View[k].messages \in Seq(Message)
    BY <1>3 DEF ChatSession
  <2> QED
    BY <1>1, <1>5, <2>1 DEF PageType
<1>7. Loaded(View[k].messages, View[k].id, stream, made, kept, disturbed = {})
  BY <1>1, FileLoads
<1>8. Files'
  <2>1. Extends(stream', stream)
    BY <1>1, SameStreams
  <2> QED
    BY <1>1, <2>1, Unwritten
<1>9. Typed' /\ OneStreamAtATime' /\ (disturbed' = {} => Screen' /\ Phases')
  <2>1. made' \in Nat /\ made <= made'
    BY <1>1
  <2>2. Loaded(page'.messages, page'.current, stream, made', kept, disturbed = {})
    BY <1>1, <1>6, <1>7
  <2> QED
    BY <1>1, <1>6, <2>1, <2>2, Reshown
<1> QED
  BY <1>8, <1>9 DEF PageInv

LEMMA DeleteKeeps ==
    ASSUME PageInv, Delete
    PROVE  PageInv'
<1>1. PICK k \in DOMAIN View :
         LET s == View[k].id
             rest == Pick(View, {l \in DOMAIN View : View[l].id # s})
         IN  /\ Write(rest)
             /\ IF s = page.current THEN page' = First(rest) /\ Leaving
                ELSE UNCHANGED <<page, left>>
             /\ UNCHANGED <<stream, made, kept, disturbed>>
  BY DEF Delete
<1> DEFINE P == {l \in DOMAIN View : View[l].id # View[k].id}
           rest == Pick(View, P)
           u == (disturbed = {})
<1>2. /\ Write(rest) /\ UNCHANGED <<stream, made, kept, disturbed>>
      /\ \/ page' = First(rest) /\ Leaving
         \/ UNCHANGED <<page, left>>
  BY <1>1
<1>3. /\ Fits(View, stream, made, kept, u) /\ Fits(stored, stream, made, {}, u)
      /\ page \in PageType /\ made \in Nat /\ kept \in SUBSET DOMAIN stream
      /\ \A q \in DOMAIN stream : stream[q].session \in Nat
  BY DEF PageInv, Typed, Files
<1>4. Fits(rest, stream, made, kept, u)
  <2>1. P \in SUBSET DOMAIN View
    OBVIOUS
  <2> HIDE DEF P, u
  <2> QED
    BY <1>3, <2>1, RestFits
<1> HIDE DEF rest
<1>5. Files'
  BY <1>2, <1>3, <1>4, Written
<1>6. CASE page' = First(rest) /\ Leaving
  <2>1. /\ page' \in PageType
        /\ page'.streaming = page.streaming /\ page'.abort = page.abort
        /\ Loaded(page'.messages, page'.current, stream, made, kept, u)
    <3> HIDE DEF u
    <3> QED
      BY <1>3, <1>4, <1>6, FirstLoads
  <2>2. Typed' /\ OneStreamAtATime' /\ (disturbed' = {} => Screen' /\ Phases')
    <3>1. made' \in Nat /\ made <= made'
      BY <1>2, <1>3
    <3>2. Loaded(page'.messages, page'.current, stream, made', kept, disturbed = {})
      BY <1>2, <2>1
    <3> QED
      BY <1>2, <1>6, <2>1, <3>1, <3>2, Reshown
  <2> QED
    BY <1>5, <2>2 DEF PageInv
<1>7. CASE UNCHANGED <<page, left>>
  <2>1. Typed'
    BY <1>2, <1>7 DEF PageInv, Typed
  <2>2. OneStreamAtATime'
    BY <1>2, <1>7 DEF PageInv, OneStreamAtATime
  <2>3. disturbed' = {} => Screen' /\ Phases'
    BY <1>2, <1>7 DEF PageInv, Screen, Phases, Streaming
  <2> QED
    BY <1>5, <2>1, <2>2, <2>3 DEF PageInv
<1> QED
  BY <1>2, <1>6, <1>7

\* The question and the empty answer that handleSubmit adds.
WithQuestion(msgs, q) == msgs \o <<Posted(q, "user"), Posted(q, "assistant")>>

LEMMA PostedMessages ==
    ASSUME NEW str \in Seq(Stream), NEW str2, Extends(str2, str), NEW msgs \in Seq(Message),
           Numbered(msgs, str), NEW q, q = Len(str) + 1, q \in DOMAIN str2
    PROVE  /\ WithQuestion(msgs, q) \in Seq(Message) /\ Numbered(WithQuestion(msgs, q), str2)
           /\ Own(msgs, str2[q].session, str) => Own(WithQuestion(msgs, q), str2[q].session, str2)
           /\ \A r : Asked(msgs, r) => Asked(WithQuestion(msgs, q), r)
           /\ Asked(WithQuestion(msgs, q), q)
           /\ \A k \in DOMAIN WithQuestion(msgs, q) :
                 LET m == WithQuestion(msgs, q)
                 IN  m[k].live => m[k].q = q \/ (k \in DOMAIN msgs /\ m[k] = msgs[k])
<1> DEFINE s == str2[q].session
           m == WithQuestion(msgs, q)
           a == Posted(q, "user")
           b == Posted(q, "assistant")
           n == Len(msgs)
<1>1. n \in Nat /\ DOMAIN msgs = 1 .. n /\ q \in Nat /\ DOMAIN str = 1 .. q - 1
  OBVIOUS
<1>2. /\ a \in Message /\ a.q = q /\ a.role = "user" /\ a.text = TRUE /\ a.live = FALSE
      /\ b \in Message /\ b.q = q /\ b.role = "assistant"
  BY <1>1 DEF Posted, Message
<1>0. m = msgs \o <<a, b>>
  BY DEF WithQuestion
<1> HIDE DEF a, b, m, s
<1>3. m \in Seq(Message) /\ DOMAIN m = 1 .. n + 2 /\ m[n + 1] = a /\ m[n + 2] = b
  BY <1>1, <1>2, <1>0
<1>4. \A k \in 1 .. n : m[k] = msgs[k]
  BY <1>1, <1>2, <1>0
<1>5. \A k \in DOMAIN m : \/ k \in DOMAIN msgs /\ m[k] = msgs[k]
                          \/ k = n + 1 /\ m[k] = a
                          \/ k = n + 2 /\ m[k] = b
  <2>1. ASSUME NEW k \in DOMAIN m
        PROVE  k \in DOMAIN msgs \/ k = n + 1 \/ k = n + 2
    <3>1. k \in 1 .. n + 2
      BY <1>3
    <3> QED
      BY <3>1, <1>1
  <2>2. \A k \in DOMAIN msgs : m[k] = msgs[k]
    BY <1>1, <1>4
  <2> QED
    BY <2>1, <2>2, <1>3
<1>6. \A k \in DOMAIN msgs : msgs[k].q \in DOMAIN str /\ msgs[k].q < q /\ msgs[k].q \in Nat
  <2>1. \A k \in DOMAIN msgs : msgs[k].q \in 1 .. q - 1
    BY <1>1 DEF Numbered
  <2> QED
    BY <1>1, <2>1
<1>7. Numbered(m, str2)
  <2>1. \A k \in DOMAIN m : m[k].q \in DOMAIN str2
    BY <1>2, <1>5, <1>6 DEF Extends
  <2>2. \A k \in DOMAIN m : m[k].role = "user" => m[k].text /\ ~ m[k].live
    BY <1>2, <1>5 DEF Numbered
  <2> QED
    BY <2>1, <2>2 DEF Numbered
<1>8. ASSUME Own(msgs, s, str)
      PROVE  Own(m, s, str2)
  <2>1. ASSUME NEW i \in DOMAIN m, m[i].role = "user"
        PROVE  str2[m[i].q].session = s
    <3>1. CASE i \in DOMAIN msgs /\ m[i] = msgs[i]
      BY <3>1, <2>1, <1>6, <1>8 DEF Own, Extends
    <3>2. CASE m[i].q = q
      BY <3>2 DEF s
    <3> QED
      BY <3>1, <3>2, <1>2, <1>5
  <2>2. ASSUME NEW i \in DOMAIN m, NEW j \in DOMAIN m, m[i].role = "user", m[j].role = "user",
               i < j
        PROVE  m[i].q < m[j].q
    <3>1. i \in DOMAIN msgs /\ m[i] = msgs[i]
      BY <2>2, <1>1, <1>2, <1>3, <1>5
    <3>2. CASE j \in DOMAIN msgs /\ m[j] = msgs[j]
      BY <3>1, <3>2, <2>2, <1>8 DEF Own
    <3>3. CASE m[j] = a
      BY <3>1, <3>3, <1>2, <1>6
    <3> QED
      BY <3>2, <3>3, <2>2, <1>2, <1>5
  <2>3. \A i \in DOMAIN m : m[i].role = "user" => str2[m[i].q].session = s
    BY <2>1
  <2>4. \A i, j \in DOMAIN m :
           m[i].role = "user" /\ m[j].role = "user" /\ i < j => m[i].q < m[j].q
    BY <2>2
  <2> QED
    BY <2>3, <2>4 DEF Own
<1>9. (\A r : Asked(msgs, r) => Asked(m, r)) /\ Asked(m, q)
  <2>1. n + 1 \in DOMAIN m
    BY <1>1, <1>3
  <2>2. \A k \in DOMAIN msgs : k \in DOMAIN m
    BY <1>1, <1>3
  <2> QED
    BY <2>1, <2>2, <1>1, <1>2, <1>3, <1>4 DEF Asked
<1>10. \A k \in DOMAIN m : m[k].live => m[k].q = q \/ (k \in DOMAIN msgs /\ m[k] = msgs[k])
  BY <1>2, <1>5
<1> QED
  BY <1>3, <1>7, <1>8, <1>9, <1>10 DEF m, s

LEMMA SubmitKeeps ==
    ASSUME PageInv, Submit
    PROVE  PageInv'
<1> DEFINE q == Len(stream) + 1
           s == IF page.current = NoOne THEN made + 1 ELSE page.current
           new == [session |-> s, text |-> FALSE, phase |-> "open"]
           m == WithQuestion(page.messages, q)
           u == (disturbed = {})
<1>1. /\ ~ page.streaming
      /\ IF page.current = NoOne THEN Create ELSE UNCHANGED <<stored, fallback, made>>
      /\ page' = [current |-> s, streaming |-> TRUE, abort |-> q, messages |-> m]
      /\ stream' = Append(stream, new)
      /\ UNCHANGED <<kept, left, disturbed>>
  BY DEF Submit, MayAsk, WithQuestion
<1>2. /\ page \in PageType /\ page.current \in 1 .. made \cup {NoOne}
      /\ stream \in Seq(Stream) /\ made \in Nat /\ page.messages \in Seq(Message)
      /\ \A r \in DOMAIN stream : stream[r].session \in 1 .. made
      /\ kept \in SUBSET DOMAIN stream /\ left \in SUBSET DOMAIN stream
      /\ Numbered(page.messages, stream)
  BY DEF PageInv, Typed, PageType
<1>3. /\ made' \in Nat /\ made <= made' /\ s \in 1 .. made' /\ s # NoOne
      /\ Fits(View', stream, made', kept, u) /\ Fits(stored', stream, made', {}, u)
  <2>1. CASE page.current = NoOne
    <3>1. Create
      BY <1>1, <2>1
    <3>2. s = made + 1
      BY <2>1
    <3> QED
      BY <3>1, <3>2, <1>2, Created, SomeoneIsNot
  <2>2. CASE page.current # NoOne
    <3>1. UNCHANGED <<stored, fallback, made>> /\ s = page.current
      BY <1>1, <2>2
    <3>2. View' = View
      BY <3>1 DEF View
    <3> QED
      BY <3>1, <3>2, <1>2, <2>2 DEF PageInv, Files
  <2> QED
    BY <2>1, <2>2
<1>4. /\ page.current # NoOne => s = page.current
      /\ page.current = NoOne => \A r \in DOMAIN stream : stream[r].session # s
  BY <1>2
<1> HIDE DEF s
<1>5. new \in Stream /\ new.session = s /\ new.phase = "open"
  BY <1>3 DEF Stream
<1> HIDE DEF new
<1>6. /\ stream' \in Seq(Stream) /\ DOMAIN stream' = 1 .. q /\ q \in Nat /\ q \in DOMAIN stream'
      /\ stream'[q] = new /\ DOMAIN stream = 1 .. q - 1 /\ q \notin DOMAIN stream
      /\ \A r \in DOMAIN stream : stream'[r] = stream[r]
      /\ \A r \in DOMAIN stream' : r \in DOMAIN stream \/ r = q
  <2>1. /\ stream' \in Seq(Stream) /\ Len(stream') = q /\ q \in Nat /\ Len(stream) = q - 1
        /\ stream'[q] = new /\ \A r \in 1 .. q - 1 : stream'[r] = stream[r]
    BY <1>1, <1>2, <1>5
  <2>2. DOMAIN stream = 1 .. q - 1 /\ DOMAIN stream' = 1 .. q
    BY <1>2, <2>1
  <2> HIDE DEF q
  <2> QED
    BY <2>1, <2>2
<1>7. Extends(stream', stream)
  BY <1>6 DEF Extends
<1>8. /\ m \in Seq(Message) /\ Numbered(m, stream')
      /\ Own(page.messages, s, stream) => Own(m, s, stream')
      /\ \A r : Asked(page.messages, r) => Asked(m, r)
      /\ Asked(m, q)
      /\ \A k \in DOMAIN m : m[k].live =>
            m[k].q = q \/ (k \in DOMAIN page.messages /\ m[k] = page.messages[k])
  <2>1. /\ stream'[q].session = s /\ q = Len(stream) + 1
    BY <1>5, <1>6
  <2>2. /\ stream \in Seq(Stream) /\ page.messages \in Seq(Message)
        /\ Numbered(page.messages, stream) /\ q \in DOMAIN stream'
    BY <1>2, <1>6
  <2> HIDE DEF q, u
  <2> QED
    BY ONLY <2>1, <2>2, <1>7, PostedMessages
<1> HIDE DEF q, m
<1>9. /\ page' \in PageType /\ page'.current = s /\ page'.streaming = TRUE /\ page'.abort = q
      /\ page'.messages = m
  BY <1>1, <1>3, <1>6, <1>8 DEF PageType
<1>10. Files'
  <2>1. /\ kept \in SUBSET kept /\ {} \in SUBSET DOMAIN stream /\ {} \in SUBSET {}
        /\ made' <= made' /\ (disturbed' = {} => u)
    BY <1>1, <1>3
  <2> HIDE DEF u
  <2>2. Fits(View', stream', made', kept, disturbed' = {})
    BY <2>1, <1>2, <1>3, <1>7, FitsStays
  <2>3. Fits(stored', stream', made', {}, disturbed' = {})
    BY <2>1, <1>2, <1>3, <1>7, FitsStays
  <2> QED
    BY <2>2, <2>3, <1>1 DEF Files
<1>11. Typed'
  <2>1. \A r \in DOMAIN stream' : stream'[r].session \in 1 .. made'
    BY <1>2, <1>3, <1>5, <1>6
  <2> QED
    BY <2>1, <1>1, <1>2, <1>3, <1>6, <1>8, <1>9 DEF Typed
<1>12. OneStreamAtATime'
  <2>1. "late" \notin disturbed => \A r \in DOMAIN stream : stream[r].phase # "open"
    BY <1>1 DEF PageInv, OneStreamAtATime
  <2> QED
    BY <2>1, <1>1, <1>6, <1>9 DEF OneStreamAtATime
<1>13. ASSUME disturbed' = {}
       PROVE  Screen' /\ Phases'
  <2>0. Screen /\ Phases
    BY <1>1, <1>13 DEF PageInv
  <2>1. Own(page.messages, s, stream)
    <3>1. CASE page.current = NoOne
      <4>1. page.messages = <<>>
        BY <2>0, <3>1 DEF Screen
      <4>2. DOMAIN <<>> = {}
        OBVIOUS
      <4> QED
        BY <4>1, <4>2 DEF Own
    <3>2. CASE page.current # NoOne
      BY <2>0, <3>2, <1>4 DEF Screen
    <3> QED
      BY <3>1, <3>2
  <2>2. Own(m, s, stream')
    BY <2>1, <1>8
  <2>3. \A r \in DOMAIN stream : stream[r].session = s => s = page.current
    BY <1>4
  <2>4. Holds(m, s, stream', kept)
    BY <2>0, <2>3, <1>2, <1>6, <1>8 DEF Screen, Holds
  <2>5. \A k \in DOMAIN m : m[k].live => m[k].q \notin kept
    BY <2>0, <1>2, <1>6, <1>8 DEF Screen
  <2>6. ASSUME NEW r \in DOMAIN stream', Streaming(r)', r \notin left'
        PROVE  stream'[r].session = s /\ Asked(m, r)
    <3>1. CASE r = q
      BY <3>1, <1>5, <1>6, <1>8
    <3>2. CASE r \in DOMAIN stream
      <4>1. Streaming(r) /\ r \notin left
        BY <3>2, <2>6, <1>1, <1>6 DEF Streaming
      <4>2. stream[r].session = page.current /\ Asked(page.messages, r)
        BY <4>1, <3>2, <2>0 DEF Screen
      <4>3. page.current # NoOne
        BY <4>2, <3>2, <1>2, SomeoneIsNot
      <4> QED
        BY <4>2, <4>3, <3>2, <1>4, <1>6, <1>8
    <3> QED
      BY <3>1, <3>2, <1>6
  <2>7. Screen'
    BY <2>2, <2>4, <2>5, <2>6, <1>1, <1>3, <1>9 DEF Screen
  <2>8. Phases'
    BY <2>0, <1>1, <1>2, <1>5, <1>6 DEF Phases
  <2> QED
    BY <2>7, <2>8
<1> QED
  BY <1>10, <1>11, <1>12, <1>13 DEF PageInv

\* A list of messages stored under the session s, if it is still on file.
LEMMA Persisted ==
    ASSUME PageInv, NEW s, NEW msgs \in Seq(Message), Numbered(msgs, stream), Persist(s, msgs),
           UNCHANGED made, Extends(stream', stream), kept' \in SUBSET DOMAIN stream,
           disturbed' = {} =>
              /\ disturbed = {} /\ Own(msgs, s, stream) /\ Holds(msgs, s, stream, kept')
              /\ \A q \in kept' \ kept : stream[q].session = s
    PROVE  Files'
<1> DEFINE u == (disturbed' = {})
           j == Session(s)
<1>1. /\ made \in Nat /\ made <= made /\ made' = made /\ kept \in SUBSET DOMAIN stream
      /\ kept \in SUBSET kept /\ kept' \in SUBSET kept' /\ {} \in SUBSET DOMAIN stream
      /\ {} \in SUBSET {}
      /\ (u => disturbed = {})
      /\ Fits(View, stream, made, kept, disturbed = {})
      /\ Fits(stored, stream, made, {}, disturbed = {})
  BY DEF PageInv, Typed, Files
<1>2. Fits(View, stream, made, kept, u) /\ Fits(stored, stream', made, {}, u)
  <2> HIDE DEF u
  <2> QED
    BY <1>1, SameStreams, FitsStays
<1>3. View \in Seq(ChatSession)
  BY <1>1 DEF Fits, Filed
<1>4. CASE j = 0
  <2>1. UNCHANGED <<stored, fallback>> /\ View' = View
    BY <1>4 DEF Persist, View
  <2>2. \A k \in DOMAIN View : View[k].id # s
    BY <1>3, <1>4, SessionFound
  <2>3. ASSUME u
        PROVE  Held(View, stream, kept')
    <3>1. ASSUME NEW k \in DOMAIN View, NEW q \in kept', stream[q].session = View[k].id
          PROVE  Asked(View[k].messages, q)
      <4>1. q \in kept
        BY <2>2, <2>3, <3>1
      <4>2. Holds(View[k].messages, View[k].id, stream, kept)
        BY <1>2, <2>3 DEF Fits, Held
      <4> QED
        BY <4>1, <4>2, <3>1 DEF Holds
    <3> QED
      BY <3>1 DEF Held, Holds
  <2>4. Fits(View, stream, made, kept', u)
    BY <1>2, <2>3 DEF Fits
  <2>5. Fits(View, stream', made, kept', u)
    <3> HIDE DEF u
    <3> QED
      BY <1>1, <2>4, FitsStays
  <2> QED
    BY <1>1, <1>2, <2>1, <2>5 DEF Files
<1>5. CASE j # 0
  <2>1. j \in DOMAIN View /\ View[j].id = s
    BY <1>3, <1>5, SessionFound
  <2> DEFINE x == [View EXCEPT ![j].messages = Clean(msgs)]
  <2>2. Write(x)
    BY <1>5 DEF Persist
  <2>3. u => /\ Own(msgs, View[j].id, stream) /\ Holds(msgs, View[j].id, stream, kept')
             /\ \A q \in kept' \ kept : stream[q].session = View[j].id
    BY <2>1
  <2> HIDE DEF u, j
  <2>4. Fits(x, stream, made, kept', u)
    BY <1>2, <2>1, <2>3, StoredFits
  <2> HIDE DEF x
  <2>5. Fits(x, stream', made, kept', u)
    BY <1>1, <2>4, FitsStays
  <2> QED
    BY <1>1, <1>2, <2>2, <2>5, Written DEF u
<1> QED
  BY <1>4, <1>5

\* A stream in another phase, or with text.
LEMMA StreamGoesOn ==
    ASSUME NEW str \in Seq(Stream), NEW q \in DOMAIN str, NEW next \in Stream,
           next.session = str[q].session
    PROVE  LET str2 == [str EXCEPT ![q] = next]
           IN  /\ str2 \in Seq(Stream) /\ DOMAIN str2 = DOMAIN str /\ Extends(str2, str)
               /\ str2[q] = next /\ \A r \in DOMAIN str : r # q => str2[r] = str[r]
BY DEF Extends

LEMMA TokenKeeps ==
    ASSUME PageInv, NEW q \in DOMAIN stream, Token(q)
    PROVE  PageInv'
<1> DEFINE next == [stream[q] EXCEPT !.text = TRUE]
           m == Mapped(q, TRUE, TRUE)
<1>1. /\ stream[q].phase = "open"
      /\ stream' = [stream EXCEPT ![q] = next]
      /\ page' = [page EXCEPT !.messages = m]
      /\ UNCHANGED <<stored, fallback, made, kept, left, disturbed>>
  BY DEF Token
<1>2. /\ page \in PageType /\ stream \in Seq(Stream) /\ stream[q] \in Stream
      /\ page.messages \in Seq(Message) /\ Numbered(page.messages, stream) /\ made \in Nat
      /\ kept \subseteq kept
  BY DEF PageInv, Typed, PageType
<1>3. next \in Stream /\ next.session = stream[q].session /\ next.phase = stream[q].phase
  BY <1>2 DEF Stream
<1> HIDE DEF next
<1>4. /\ stream' \in Seq(Stream) /\ DOMAIN stream' = DOMAIN stream /\ Extends(stream', stream)
      /\ stream'[q] = next /\ \A r \in DOMAIN stream : r # q => stream'[r] = stream[r]
  BY <1>1, <1>2, <1>3, StreamGoesOn
<1>5. \A r \in DOMAIN stream : /\ stream'[r].session = stream[r].session
                               /\ stream'[r].phase = stream[r].phase
  BY <1>3, <1>4
<1>6. /\ m \in Seq(Message) /\ Numbered(m, stream)
      /\ \A s : Own(page.messages, s, stream) => Own(m, s, stream)
      /\ \A r : Asked(page.messages, r) => Asked(m, r)
      /\ DOMAIN m = DOMAIN page.messages
      /\ \A k \in DOMAIN page.messages :
            /\ m[k].q = page.messages[k].q
            /\ m[k].live => page.messages[k].q = q \/ page.messages[k].live
  <2>1. page.messages \in Seq(Message) /\ Numbered(page.messages, stream) /\ TRUE \in BOOLEAN
    BY <1>2
  <2> HIDE DEF m
  <2>2. /\ m \in Seq(Message) /\ Numbered(m, stream)
        /\ \A s : Own(page.messages, s, stream) => Own(m, s, stream)
        /\ \A r : Asked(page.messages, r) => Asked(m, r)
        /\ DOMAIN m = DOMAIN page.messages
    BY ONLY <2>1, MappedMessages DEF m
  <2>3. \A k \in DOMAIN page.messages :
            m[k].q = page.messages[k].q
            /\ (m[k].live => page.messages[k].q = q \/ page.messages[k].live)
    BY ONLY <2>1, MappedMessages DEF m
  <2> QED
    BY <2>2, <2>3
<1> HIDE DEF m
<1>7. Numbered(m, stream') /\ \A s : Own(m, s, stream) => Own(m, s, stream')
  BY <1>4, <1>6, MessagesStay
<1>8. /\ page' \in PageType /\ page'.current = page.current /\ page'.messages = m
      /\ page'.streaming = page.streaming /\ page'.abort = page.abort
  BY <1>1, <1>2, <1>6 DEF PageType
<1>9. Files'
  BY <1>1, <1>2, <1>4, Unwritten
<1>10. Typed'
  BY <1>1, <1>4, <1>5, <1>7, <1>8 DEF PageInv, Typed
<1>11. OneStreamAtATime'
  BY <1>1, <1>4, <1>5, <1>8 DEF PageInv, OneStreamAtATime
<1>12. ASSUME disturbed' = {}
       PROVE  Screen' /\ Phases'
  <2>1. Screen /\ Phases
    BY <1>1, <1>12 DEF PageInv
  <2>2. q \notin kept
    BY <1>1, <2>1 DEF Phases
  <2>3. page.current = NoOne => m = <<>>
    BY <2>1, <1>6 DEF Screen
  <2>4. Own(m, page.current, stream')
    BY <2>1, <1>6, <1>7 DEF Screen
  <2>5. Holds(m, page.current, stream', kept)
    BY <2>1, <1>2, <1>5, <1>6 DEF Screen, Holds, PageInv, Typed
  <2>6. \A k \in DOMAIN m : m[k].live => m[k].q \notin kept
    BY <2>1, <2>2, <1>6 DEF Screen
  <2>7. \A r \in DOMAIN stream : Streaming(r)' <=> Streaming(r)
    BY <1>5 DEF Streaming
  <2>8. \A r \in DOMAIN stream : Streaming(r)' /\ r \notin left =>
           stream'[r].session = page.current /\ Asked(m, r)
    BY <2>1, <2>7, <1>5, <1>6 DEF Screen
  <2>9. Screen'
    BY <2>3, <2>4, <2>5, <2>6, <2>8, <1>1, <1>4, <1>8 DEF Screen
  <2>10. Phases'
    BY <2>1, <1>1, <1>4, <1>5 DEF Phases
  <2> QED
    BY <2>9, <2>10
<1> QED
  BY <1>9, <1>10, <1>11, <1>12 DEF PageInv

\* onDone and onError of a question that streams.
LEMMA SettleKeeps ==
    ASSUME PageInv, NEW q \in DOMAIN stream, Streaming(q), NEW phase \in {"answered", "closed"},
           Settle(q, phase)
    PROVE  PageInv'
<1> DEFINE next == [stream[q] EXCEPT !.phase = phase]
           m == Mapped(q, stream[q].text, FALSE)
           s == stream[q].session
<1>1. /\ page' = [Settled EXCEPT !.messages = m]
      /\ Persist(s, m)
      /\ stream' = [stream EXCEPT ![q] = next]
      /\ kept' = kept \cup {q} /\ UNCHANGED <<made, left>>
  BY DEF Settle
<1>2. /\ disturbed \subseteq disturbed'
      /\ q \in left => "strayed" \in disturbed'
      /\ (\E r \in DOMAIN stream : r # q /\ stream[r].phase = "open") => "late" \in disturbed'
  BY DEF Settle
<1>3. /\ page \in PageType /\ stream \in Seq(Stream) /\ stream[q] \in Stream
      /\ page.messages \in Seq(Message) /\ Numbered(page.messages, stream) /\ made \in Nat
      /\ kept \subseteq DOMAIN stream /\ kept' \in SUBSET DOMAIN stream
  BY <1>1 DEF PageInv, Typed, PageType
<1>4. next \in Stream /\ next.session = s /\ next.phase = phase /\ stream[q].text \in BOOLEAN
  BY <1>3 DEF Stream
<1> HIDE DEF next
<1>5. /\ stream' \in Seq(Stream) /\ DOMAIN stream' = DOMAIN stream /\ Extends(stream', stream)
      /\ stream'[q] = next /\ \A r \in DOMAIN stream : r # q => stream'[r] = stream[r]
  BY <1>1, <1>3, <1>4, StreamGoesOn
<1>6. \A r \in DOMAIN stream : stream'[r].session = stream[r].session
  BY <1>4, <1>5
<1>7. /\ m \in Seq(Message) /\ Numbered(m, stream)
      /\ \A x : Own(page.messages, x, stream) => Own(m, x, stream)
      /\ \A r : Asked(page.messages, r) => Asked(m, r)
      /\ DOMAIN m = DOMAIN page.messages
      /\ \A k \in DOMAIN page.messages :
            /\ m[k].q = page.messages[k].q
            /\ m[k].live => page.messages[k].q # q /\ page.messages[k].live
  <2>1. page.messages \in Seq(Message) /\ Numbered(page.messages, stream)
        /\ stream[q].text \in BOOLEAN /\ FALSE \in BOOLEAN
    BY <1>3, <1>4
  <2> DEFINE t == stream[q].text
  <2>0. t \in BOOLEAN /\ m = Mapped(q, t, FALSE)
    BY <2>1
  <2> HIDE DEF m, t
  <2>2. /\ m \in Seq(Message) /\ Numbered(m, stream)
        /\ \A x : Own(page.messages, x, stream) => Own(m, x, stream)
        /\ \A r : Asked(page.messages, r) => Asked(m, r)
        /\ DOMAIN m = DOMAIN page.messages
    BY ONLY <2>1, <2>0, MappedMessages
  <2>3. \A k \in DOMAIN page.messages : m[k].q = page.messages[k].q
    BY ONLY <2>1, <2>0, MappedMessages
  <2>4. \A k \in DOMAIN page.messages :
            m[k].live => page.messages[k].q # q /\ page.messages[k].live
    BY ONLY <2>1, <2>0, SettledMessages
  <2> QED
    BY <2>2, <2>3, <2>4
<1> HIDE DEF m
<1>8. Numbered(m, stream') /\ \A x : Own(m, x, stream) => Own(m, x, stream')
  BY <1>5, <1>7, MessagesStay
<1>9. /\ page' \in PageType /\ page'.current = page.current /\ page'.messages = m
      /\ page'.streaming = FALSE /\ page'.abort = NoOne
  <2>1. Settled \in PageType /\ Settled.current = page.current
        /\ Settled.streaming = FALSE /\ Settled.abort = NoOne
    BY <1>3 DEF Settled, PageType
  <2> QED
    BY <2>1, <1>1, <1>7 DEF PageType
<1>10. Typed'
  <2>1. left' \subseteq DOMAIN stream' /\ kept' \subseteq DOMAIN stream'
    BY <1>1, <1>3, <1>5 DEF PageInv, Typed
  <2>2. \A r \in DOMAIN stream' : stream'[r].session \in 1 .. made'
    BY <1>1, <1>5, <1>6 DEF PageInv, Typed
  <2> QED
    BY <2>1, <2>2, <1>1, <1>5, <1>8, <1>9 DEF PageInv, Typed
<1>11. OneStreamAtATime'
  <2>1. ASSUME "late" \notin disturbed', NEW r \in DOMAIN stream'
        PROVE  stream'[r].phase # "open"
    <3>1. CASE r = q
      BY <3>1, <1>4, <1>5
    <3>2. CASE r # q
      BY <3>2, <2>1, <1>2, <1>5
    <3> QED
      BY <3>1, <3>2
  <2> QED
    BY <2>1 DEF OneStreamAtATime
<1>12. ASSUME disturbed' = {}
       PROVE  /\ disturbed = {} /\ Screen /\ Phases /\ q \notin left
              /\ page.current = s /\ Asked(page.messages, q)
  <2>1. disturbed = {} /\ q \notin left
    BY <1>2, <1>12
  <2>2. Screen /\ Phases
    BY <2>1 DEF PageInv
  <2> QED
    BY <2>1, <2>2 DEF Screen
<1>13. ASSUME disturbed' = {}
       PROVE  /\ Own(m, s, stream) /\ Holds(m, s, stream, kept')
  <2>1. Own(page.messages, s, stream) /\ Holds(page.messages, s, stream, kept)
    BY <1>12, <1>13 DEF Screen
  <2>2. Asked(m, q)
    BY <1>7, <1>12, <1>13
  <2> QED
    BY <2>1, <2>2, <1>1, <1>7 DEF Holds
<1>14. Files'
  BY <1>1, <1>3, <1>5, <1>7, <1>12, <1>13, Persisted
<1>15. ASSUME disturbed' = {}
       PROVE  Screen' /\ Phases'
  <2>1. disturbed = {} /\ Screen /\ Phases /\ q \notin left /\ page.current = s
    BY <1>12, <1>15
  <2>2. page.current = NoOne => m = <<>>
    BY <2>1, <1>7 DEF Screen
  <2>3. Own(m, s, stream')
    BY <1>8, <1>13, <1>15
  <2>4. Holds(m, s, stream', kept')
    BY <1>13, <1>15, <1>3, <1>6 DEF Holds
  <2>5. \A k \in DOMAIN m : m[k].live => m[k].q \notin kept'
    BY <2>1, <1>1, <1>7 DEF Screen
  <2>6. ASSUME NEW r \in DOMAIN stream, Streaming(r)', r \notin left
        PROVE  stream'[r].session = s /\ Asked(m, r)
    <3>1. Streaming(r)
      <4>1. CASE r = q
        BY <4>1
      <4>2. CASE r # q
        BY <4>2, <2>6, <1>5 DEF Streaming
      <4> QED
        BY <4>1, <4>2
    <3>2. stream[r].session = s /\ Asked(page.messages, r)
      BY <3>1, <2>1, <2>6 DEF Screen
    <3> QED
      BY <3>2, <1>6, <1>7
  <2>7. Screen'
    BY <2>1, <2>2, <2>3, <2>4, <2>5, <2>6, <1>1, <1>5, <1>9 DEF Screen
  <2>8. Phases'
    BY <2>1, <1>1, <1>4, <1>5 DEF Phases
  <2> QED
    BY <2>7, <2>8
<1> QED
  BY <1>10, <1>11, <1>14, <1>15 DEF PageInv

LEMMA EndKeeps ==
    ASSUME PageInv, NEW q \in DOMAIN stream, End(q)
    PROVE  PageInv'
<1> DEFINE p == IF stream[q].phase = "open" THEN "cut" ELSE "closed"
           next == [stream[q] EXCEPT !.phase = p]
<1>1. /\ Streaming(q) /\ stream' = [stream EXCEPT ![q] = next]
      /\ UNCHANGED <<page, stored, fallback, made, kept, left, disturbed>>
  BY DEF End
<1>2. /\ stream \in Seq(Stream) /\ stream[q] \in Stream /\ made \in Nat /\ kept \subseteq kept
  BY DEF PageInv, Typed
<1>3. /\ next \in Stream /\ next.session = stream[q].session /\ next.phase = p
      /\ p \in {"cut", "closed"} /\ (stream[q].phase # "open" => p = "closed")
  BY <1>2 DEF Stream
<1> HIDE DEF next, p
<1>4. /\ stream' \in Seq(Stream) /\ DOMAIN stream' = DOMAIN stream /\ Extends(stream', stream)
      /\ stream'[q] = next /\ \A r \in DOMAIN stream : r # q => stream'[r] = stream[r]
  BY <1>1, <1>2, <1>3, StreamGoesOn
<1>5. \A r \in DOMAIN stream :
         /\ stream'[r].session = stream[r].session
         /\ stream'[r].phase \in {"open", "answered"} => r # q /\ stream'[r] = stream[r]
  BY <1>3, <1>4
<1>6. Files'
  BY <1>1, <1>2, <1>4, Unwritten
<1>7. Numbered(page.messages, stream') /\
      \A s : Own(page.messages, s, stream) => Own(page.messages, s, stream')
  <2>1. Numbered(page.messages, stream)
    BY DEF PageInv, Typed
  <2> QED
    BY <2>1, <1>4, MessagesStay
<1>8. Typed'
  BY <1>1, <1>4, <1>5, <1>7 DEF PageInv, Typed
<1>9. OneStreamAtATime'
  BY <1>1, <1>4, <1>5 DEF PageInv, OneStreamAtATime
<1>10. ASSUME disturbed' = {}
       PROVE  Screen' /\ Phases'
  <2>1. Screen /\ Phases
    BY <1>1, <1>10 DEF PageInv
  <2>2. Own(page.messages, page.current, stream')
    BY <2>1, <1>7 DEF Screen
  <2>3. Holds(page.messages, page.current, stream', kept)
    BY <2>1, <1>5 DEF Screen, Holds, PageInv, Typed
  <2>4. \A r \in DOMAIN stream : Streaming(r)' => Streaming(r) /\ stream'[r] = stream[r]
    BY <1>5 DEF Streaming
  <2>5. Screen'
    BY <2>1, <2>2, <2>3, <2>4, <1>1, <1>4 DEF Screen
  <2>6. ASSUME NEW r \in DOMAIN stream'
        PROVE  /\ r \in kept => stream'[r].phase \in {"answered", "closed"}
               /\ stream'[r].phase = "answered" => r \in kept
    <3>1. CASE r = q
      BY <3>1, <2>1, <1>3, <1>4 DEF Phases
    <3>2. CASE r # q
      BY <3>2, <2>1, <1>4 DEF Phases
    <3> QED
      BY <3>1, <3>2
  <2> QED
    BY <2>5, <2>6, <1>1 DEF Phases
<1> QED
  BY <1>6, <1>8, <1>9, <1>10 DEF PageInv

LEMMA AbortKeeps ==
    ASSUME PageInv, Abort
    PROVE  PageInv'
<1> DEFINE I == {k \in 1 .. Len(page.messages) : page.messages[k].live}
           live == SelectInSeq(page.messages, LAMBDA m : m.live)
           P == {k \in DOMAIN page.messages : page.messages[k].q # page.messages[live].q}
           next == IF live = 0 THEN page.messages ELSE Pick(page.messages, P)
<1>1. /\ page.streaming
      /\ page' = [Settled EXCEPT !.messages = next]
      /\ stream' = [q \in DOMAIN stream |->
                      IF q = page.abort THEN [stream[q] EXCEPT !.phase = "closed"] ELSE stream[q]]
      /\ IF live # 0 /\ page.current # NoOne THEN Persist(page.current, next)
         ELSE UNCHANGED <<stored, fallback>>
      /\ UNCHANGED <<made, kept, left, disturbed>>
  BY DEF Abort
<1>2. /\ page \in PageType /\ stream \in Seq(Stream) /\ page.messages \in Seq(Message)
      /\ Numbered(page.messages, stream) /\ made \in Nat /\ kept \subseteq kept
      /\ kept \in SUBSET DOMAIN stream
  BY DEF PageInv, Typed, PageType
<1>3. live # 0 => live \in DOMAIN page.messages /\ page.messages[live].live
  <2>1. live = IF I # {} THEN Min(I) ELSE 0
    BY DEF SelectInSeq
  <2>2. I \subseteq Nat /\ \A k \in I : k \in DOMAIN page.messages /\ page.messages[k].live
    BY <1>2
  <2> HIDE DEF I, live
  <2> QED
    BY <2>1, <2>2, FirstOf
<1> HIDE DEF live
<1>4. /\ next \in Seq(Message) /\ Numbered(next, stream)
      /\ \A s : Own(page.messages, s, stream) => Own(next, s, stream)
      /\ \A r : Asked(page.messages, r) /\ (live # 0 => r # page.messages[live].q) => Asked(next, r)
      /\ \A k \in DOMAIN next : \E i \in DOMAIN page.messages : next[k] = page.messages[i]
      /\ live = 0 => next = page.messages
  <2>1. CASE live = 0
    BY <2>1, <1>2
  <2>2. CASE live # 0
    <3> DEFINE t == Pick(page.messages, P)
    <3>1. P \in SUBSET DOMAIN page.messages /\ next = t
      BY <2>2
    <3>2. \A k \in DOMAIN page.messages : page.messages[k].q # page.messages[live].q => k \in P
      OBVIOUS
    <3> HIDE DEF P
    <3>3. /\ t \in Seq(Message) /\ Numbered(t, stream)
          /\ \A s : Own(page.messages, s, stream) => Own(t, s, stream)
          /\ \A i \in P : \E k \in DOMAIN t : t[k] = page.messages[i]
          /\ \A k \in DOMAIN t : \E i \in P : t[k] = page.messages[i]
      BY <3>1, <1>2, PickedMessages
    <3> HIDE DEF t, next
    <3>4. \A r : Asked(page.messages, r) /\ r # page.messages[live].q => Asked(t, r)
      BY <3>2, <3>3 DEF Asked
    <3> QED
      BY <2>2, <3>1, <3>3, <3>4
  <2> QED
    BY <2>1, <2>2
<1> HIDE DEF next, P
<1>5. /\ stream' \in Seq(Stream) /\ DOMAIN stream' = DOMAIN stream
      /\ \A r \in DOMAIN stream : /\ stream'[r].session = stream[r].session
                                  /\ r = page.abort => stream'[r].phase = "closed"
                                  /\ r # page.abort => stream'[r] = stream[r]
  <2> DEFINE new(r) == IF r = page.abort THEN [stream[r] EXCEPT !.phase = "closed"] ELSE stream[r]
  <2>1. \A r \in DOMAIN stream : stream[r] \in Stream
    BY <1>2
  <2>2. \A r \in DOMAIN stream : /\ new(r) \in Stream /\ new(r).session = stream[r].session
                                 /\ r = page.abort => new(r).phase = "closed"
                                 /\ r # page.abort => new(r) = stream[r]
    BY <2>1 DEF Stream
  <2>3. stream' = [r \in DOMAIN stream |-> new(r)]
    BY <1>1
  <2> HIDE DEF new
  <2>4. stream' \in [1 .. Len(stream) -> Stream] /\ Len(stream) \in Nat
    BY <2>2, <2>3, <1>2
  <2> QED
    BY <2>2, <2>3, <2>4
<1>6. Extends(stream', stream)
  BY <1>5 DEF Extends
<1>7. Numbered(next, stream') /\ \A s : Own(next, s, stream) => Own(next, s, stream')
  BY <1>4, <1>6, MessagesStay
<1>8. /\ page' \in PageType /\ page'.current = page.current /\ page'.messages = next
      /\ page'.streaming = FALSE /\ page'.abort = NoOne
  <2>1. Settled \in PageType /\ Settled.current = page.current
        /\ Settled.streaming = FALSE /\ Settled.abort = NoOne
    BY <1>2 DEF Settled, PageType
  <2> QED
    BY <2>1, <1>1, <1>4 DEF PageType
<1>9. Typed'
  BY <1>1, <1>5, <1>7, <1>8 DEF PageInv, Typed
<1>10. OneStreamAtATime'
  <2>1. ASSUME "late" \notin disturbed', NEW r \in DOMAIN stream'
        PROVE  stream'[r].phase # "open"
    BY <2>1, <1>1, <1>5 DEF PageInv, OneStreamAtATime
  <2> QED
    BY <2>1 DEF OneStreamAtATime
<1>11. ASSUME disturbed = {}
       PROVE  /\ Own(next, page.current, stream) /\ Holds(next, page.current, stream, kept)
              /\ live # 0 => page.messages[live].q \notin kept
  <2>1. Screen
    BY <1>11 DEF PageInv
  <2>2. live # 0 => page.messages[live].q \notin kept
    BY <2>1, <1>3 DEF Screen
  <2>3. Own(next, page.current, stream)
    BY <2>1, <1>4 DEF Screen
  <2>4. Holds(next, page.current, stream, kept)
    BY <2>1, <2>2, <1>4 DEF Screen, Holds
  <2> QED
    BY <2>2, <2>3, <2>4
<1>12. Files'
  <2>1. CASE live # 0 /\ page.current # NoOne
    <3>1. Persist(page.current, next)
      BY <2>1, <1>1
    <3>2. disturbed' = {} =>
             /\ disturbed = {} /\ Own(next, page.current, stream)
             /\ Holds(next, page.current, stream, kept')
             /\ \A q \in kept' \ kept : stream[q].session = page.current
      BY <1>1, <1>11
    <3>3. kept' \in SUBSET DOMAIN stream /\ made' = made
      BY <1>1, <1>2
    <3> QED
      BY <3>1, <3>2, <3>3, <1>4, <1>6, Persisted
  <2>2. CASE ~ (live # 0 /\ page.current # NoOne)
    <3>1. UNCHANGED <<stored, fallback>>
      BY <2>2, <1>1
    <3> QED
      BY <3>1, <1>1, <1>2, <1>6, Unwritten
  <2> QED
    BY <2>1, <2>2
<1>13. ASSUME disturbed' = {}
       PROVE  Screen' /\ Phases'
  <2>1. disturbed = {} /\ Screen /\ Phases /\ OneStreamAtATime
    BY <1>1, <1>13 DEF PageInv
  <2>2. page.current = NoOne => next = <<>>
    <3>1. DOMAIN <<>> = {}
      OBVIOUS
    <3>2. page.current = NoOne => live = 0
      BY <2>1, <3>1, <1>3 DEF Screen
    <3> QED
      BY <2>1, <3>2, <1>4 DEF Screen
  <2>3. Own(next, page.current, stream') /\ Holds(next, page.current, stream', kept)
    <3>1. Own(next, page.current, stream')
      BY <2>1, <1>7, <1>11
    <3>2. Holds(next, page.current, stream', kept)
      BY <2>1, <1>2, <1>5, <1>11 DEF Holds
    <3> QED
      BY <3>1, <3>2
  <2>4. \A k \in DOMAIN next : next[k].live => next[k].q \notin kept
    BY <2>1, <1>4 DEF Screen
  <2>5. ASSUME NEW r \in DOMAIN stream, Streaming(r)', r \notin left
        PROVE  stream'[r].session = page.current /\ Asked(next, r)
    <3>1. r # page.abort /\ Streaming(r) /\ stream[r].phase # "open"
      BY <2>1, <2>5, <1>5 DEF Streaming, OneStreamAtATime
    <3>2. r \in kept
      BY <2>1, <3>1 DEF Streaming, Phases
    <3>3. live # 0 => r # page.messages[live].q
      BY <2>1, <3>2, <1>11
    <3>4. stream[r].session = page.current /\ Asked(page.messages, r)
      BY <2>1, <2>5, <3>1 DEF Screen
    <3> QED
      BY <3>3, <3>4, <1>4, <1>5
  <2>6. Screen'
    BY <2>2, <2>3, <2>4, <2>5, <1>1, <1>5, <1>8 DEF Screen
  <2>7. Phases'
    BY <2>1, <1>1, <1>5 DEF Phases
  <2> QED
    BY <2>6, <2>7
<1> QED
  BY <1>9, <1>10, <1>12, <1>13 DEF PageInv

LEMMA ReopenKeeps ==
    ASSUME PageInv, Reopen
    PROVE  PageInv'
<1> DEFINE found == IF fallback' # NoOne THEN fallback' ELSE stored
           u == (disturbed = {})
<1>1. /\ fallback' \in {fallback, NoOne}
      /\ page' = [First(found) EXCEPT !.streaming = FALSE, !.abort = NoOne]
      /\ stream' = [q \in DOMAIN stream |-> [stream[q] EXCEPT !.phase = "closed"]]
      /\ kept' = IF fallback' = fallback THEN kept ELSE kept \cap AskedIn(stored)
      /\ UNCHANGED <<stored, made, left, disturbed>>
  BY DEF Reopen
<1>2. /\ page \in PageType /\ stream \in Seq(Stream) /\ made \in Nat /\ made <= made
      /\ kept \in SUBSET DOMAIN stream /\ {} \in SUBSET DOMAIN stream /\ {} \in SUBSET {}
      /\ \A q \in DOMAIN stream : stream[q].session \in 1 .. made
      /\ Fits(View, stream, made, kept, u) /\ Fits(stored, stream, made, {}, u)
  BY DEF PageInv, Typed, Files
<1>3. View' = found
  BY <1>1 DEF View
<1>4. kept' \in SUBSET kept /\ kept' \in SUBSET kept' /\ Fits(found, stream, made, kept', u)
  <2>1. CASE fallback' = fallback
    <3>1. found = View /\ kept' = kept
      BY <2>1, <1>1 DEF View
    <3> QED
      BY <3>1, <1>2
  <2>2. CASE fallback' # fallback
    <3>1. found = stored /\ kept' = kept \cap AskedIn(stored)
      BY <2>2, <1>1
    <3>2. ASSUME u
          PROVE  Owned(stored, stream) /\ Held(stored, stream, kept')
      <4>1. Owned(stored, stream)
        BY <3>2, <1>2 DEF Fits
      <4>2. ASSUME NEW k \in DOMAIN stored, NEW q \in kept', stream[q].session = stored[k].id
            PROVE  Asked(stored[k].messages, q)
        <5>1. PICK l \in DOMAIN stored : \E i \in DOMAIN stored[l].messages :
                      stored[l].messages[i].role = "user" /\ stored[l].messages[i].q = q
          BY <3>1 DEF AskedIn
        <5>2. stream[q].session = stored[l].id
          BY <4>1, <5>1 DEF Owned, Own
        <5>3. k = l
          BY <4>2, <5>2, <1>2 DEF Fits, Filed
        <5> QED
          BY <5>1, <5>3 DEF Asked
      <4> QED
        BY <4>1, <4>2 DEF Held, Holds
    <3>3. Filed(stored, stream, made)
      BY <1>2 DEF Fits
    <3>4. Fits(stored, stream, made, kept', u)
      BY <3>2, <3>3 DEF Fits
    <3> QED
      BY <3>1, <3>4
  <2> QED
    BY <2>1, <2>2
<1> HIDE DEF found, u
<1>5. /\ stream' \in Seq(Stream) /\ DOMAIN stream' = DOMAIN stream
      /\ \A r \in DOMAIN stream : /\ stream'[r].session = stream[r].session
                                  /\ stream'[r].phase = "closed"
  <2> DEFINE new(r) == [stream[r] EXCEPT !.phase = "closed"]
  <2>1. \A r \in DOMAIN stream : stream[r] \in Stream
    BY <1>2
  <2>2. \A r \in DOMAIN stream : /\ new(r) \in Stream /\ new(r).session = stream[r].session
                                 /\ new(r).phase = "closed"
    BY <2>1 DEF Stream
  <2>3. stream' = [r \in DOMAIN stream |-> new(r)]
    BY <1>1
  <2> HIDE DEF new
  <2>4. stream' \in [1 .. Len(stream) -> Stream] /\ Len(stream) \in Nat
    BY <2>2, <2>3, <1>2
  <2> QED
    BY <2>2, <2>3, <2>4
<1>6. Extends(stream', stream)
  BY <1>5 DEF Extends
<1>7. kept' \in SUBSET DOMAIN stream
  BY <1>2, <1>4
<1>8. Fits(found, stream', made, kept', u) /\ Fits(stored, stream', made, {}, u)
  BY <1>2, <1>4, <1>6, <1>7, FitsStays
<1>9. Files'
  BY <1>1, <1>3, <1>8 DEF Files, u
<1>10. /\ First(found) \in PageType
       /\ Loaded(First(found).messages, First(found).current, stream', made, kept', u)
  <2>1. \A q \in DOMAIN stream' : stream'[q].session \in Nat
    BY <1>2, <1>5
  <2>2. kept' \in SUBSET DOMAIN stream'
    BY <1>5, <1>7
  <2> QED
    BY <2>1, <2>2, <1>2, <1>8, FirstLoads
<1>11. /\ page' \in PageType /\ page'.streaming = FALSE /\ page'.abort = NoOne
       /\ Loaded(page'.messages, page'.current, stream', made, kept', u)
  BY <1>1, <1>10 DEF PageType
<1>12. Typed'
  <2>1. \A q \in DOMAIN stream' : stream'[q].session \in 1 .. made
    BY <1>2, <1>5
  <2>2. left' \subseteq DOMAIN stream' /\ kept' \subseteq DOMAIN stream'
    BY <1>1, <1>5, <1>7 DEF PageInv, Typed
  <2> QED
    BY <2>1, <2>2, <1>1, <1>2, <1>5, <1>11 DEF Typed, Loaded
<1>13. OneStreamAtATime'
  BY <1>5 DEF OneStreamAtATime
<1>14. ASSUME disturbed' = {}
       PROVE  Screen' /\ Phases'
  <2>1. Own(page'.messages, page'.current, stream')
        /\ Holds(page'.messages, page'.current, stream', kept')
    BY <1>1, <1>11, <1>14 DEF Loaded, u
  <2>2. \A r \in DOMAIN stream' : ~ Streaming(r)'
    BY <1>5 DEF Streaming
  <2>3. Screen'
    BY <2>1, <2>2, <1>11 DEF Screen, Loaded
  <2>4. Phases'
    BY <1>5 DEF Phases
  <2> QED
    BY <2>3, <2>4
<1> QED
  BY <1>9, <1>12, <1>13, <1>14 DEF PageInv

-----------------------------------------------------------------------------
(* The invariant, and what it says.                                        *)

LEMMA PageInitially ==
    ASSUME PageInit
    PROVE  PageInv
<1>1. /\ page = [current |-> NoOne, messages |-> <<>>, streaming |-> FALSE, abort |-> NoOne]
      /\ stream = <<>> /\ stored = <<>> /\ fallback = NoOne /\ made = 0
      /\ kept = {} /\ left = {} /\ disturbed = {}
  BY DEF PageInit
<1>2. \A T : <<>> \in Seq(T) /\ DOMAIN <<>> = {}
  OBVIOUS
<1>3. View = <<>>
  BY <1>1 DEF View
<1>4. page \in PageType /\ page.current = NoOne /\ page.messages = <<>> /\ page.abort = NoOne
  BY <1>1, <1>2 DEF PageType
<1>5. Typed
  BY <1>1, <1>2, <1>4 DEF Typed, Numbered
<1>6. Files
  BY <1>1, <1>2, <1>3 DEF Files, Fits, Filed, Owned, Held
<1>7. OneStreamAtATime
  BY <1>1, <1>2 DEF OneStreamAtATime
<1>8. Screen /\ Phases
  BY <1>1, <1>2, <1>4 DEF Screen, Phases, Own, Holds
<1> QED
  BY <1>5, <1>6, <1>7, <1>8 DEF PageInv

LEMMA PageKeeps ==
    ASSUME PageInv, [PageNext]_pageVars
    PROVE  PageInv'
<1>1. CASE NewChat
  BY <1>1, NewChatKeeps
<1>2. CASE Select
  BY <1>2, SelectKeeps
<1>3. CASE Delete
  BY <1>3, DeleteKeeps
<1>4. CASE Submit
  BY <1>4, SubmitKeeps
<1>5. CASE Abort
  BY <1>5, AbortKeeps
<1>6. CASE Reopen
  BY <1>6, ReopenKeeps
<1>7. ASSUME NEW q \in DOMAIN stream,
             Token(q) \/ Done(q) \/ ErrorEvent(q) \/ Break(q) \/ End(q)
      PROVE  PageInv'
  <2>1. CASE Token(q)
    BY <2>1, TokenKeeps
  <2>2. CASE Done(q)
    <3>1. Streaming(q) /\ Settle(q, "answered")
      BY <2>2 DEF Done, Streaming
    <3> QED
      BY <3>1, SettleKeeps
  <2>3. CASE ErrorEvent(q)
    <3>1. Streaming(q) /\ Settle(q, "answered")
      BY <2>3 DEF ErrorEvent
    <3> QED
      BY <3>1, SettleKeeps
  <2>4. CASE Break(q)
    <3>1. Streaming(q) /\ Settle(q, "closed")
      BY <2>4 DEF Break
    <3> QED
      BY <3>1, SettleKeeps
  <2>5. CASE End(q)
    BY <2>5, EndKeeps
  <2> QED
    BY <1>7, <2>1, <2>2, <2>3, <2>4, <2>5
<1>8. CASE UNCHANGED pageVars
  <2>1. View' = View
    BY <1>8 DEF pageVars, View
  <2>2. Typed' /\ Files'
    BY <1>8, <2>1 DEF pageVars, PageInv, Typed, Files
  <2>3. OneStreamAtATime' /\ (disturbed' = {} => Screen' /\ Phases')
    BY <1>8 DEF pageVars, PageInv, OneStreamAtATime, Screen, Phases, Streaming
  <2> QED
    BY <2>2, <2>3 DEF PageInv
<1> QED
  BY <1>1, <1>2, <1>3, <1>4, <1>5, <1>6, <1>7, <1>8 DEF PageNext

LEMMA PageHolds == PageSpec => []PageInv
<1>1. PageInit => PageInv
  BY PageInitially
<1>2. PageInv /\ [PageNext]_pageVars => PageInv'
  BY PageKeeps
<1> QED
  BY <1>1, <1>2, PTL DEF PageSpec

\* The types: no session is listed twice, and what is stored does not stream.
THEOREM PageTypeCorrect == PageSpec => []TypeOK
<1>1. PageInv => TypeOK
  <2> SUFFICES ASSUME PageInv
               PROVE  TypeOK
    OBVIOUS
  <2>1. page.streaming \in BOOLEAN
    BY DEF PageInv, Typed, PageType
  <2>2. \A q \in DOMAIN stream : stream[q].phase \in {"open", "answered", "cut", "closed"}
    <3>1. \A q \in DOMAIN stream : stream[q] \in Stream
      BY DEF PageInv, Typed
    <3> QED
      BY <3>1 DEF Stream
  <2> QED
    BY <2>1, <2>2 DEF PageInv, Typed, Files, Fits, Filed, TypeOK
<1> QED
  BY <1>1, PageHolds, PTL

\* The page streams one answer at a time, with the Stop button on it, unless a
\* stream that had its `done` or `error` broke, or sent another `error`, while the
\* next question was under way.
THEOREM OneAnswerStreams == PageSpec => []OneStreamAtATime
<1>1. PageInv => OneStreamAtATime
  BY DEF PageInv
<1> QED
  BY <1>1, PageHolds, PTL

\* A session on file holds its own questions, in order, and every one that was
\* answered or failed, unless a stream ended after its session was left or two
\* streams overlapped.
THEOREM SessionsAreTheirOwn == PageSpec => []SessionsKeepTheirOwn
<1>1. PageInv => SessionsKeepTheirOwn
  <2> SUFFICES ASSUME PageInv, disturbed = {}, NEW k \in DOMAIN View
               PROVE  LET msgs == View[k].messages
                          asked == {i \in DOMAIN msgs : msgs[i].role = "user"}
                          its(q) == stream[q].session = View[k].id
                      IN  /\ \A i \in asked : its(msgs[i].q)
                          /\ \A i, j \in asked : i < j => msgs[i].q < msgs[j].q
                          /\ \A q \in kept : its(q) => \E i \in asked : msgs[i].q = q
    BY DEF SessionsKeepTheirOwn
  <2>1. /\ Own(View[k].messages, View[k].id, stream)
        /\ Holds(View[k].messages, View[k].id, stream, kept)
    BY DEF PageInv, Files, Fits, Owned, Held
  <2> QED
    BY <2>1 DEF Own, Holds, Asked
<1> QED
  BY <1>1, PageHolds, PTL
=============================================================================
