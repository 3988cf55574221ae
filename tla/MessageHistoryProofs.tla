-------------------------- MODULE MessageHistoryProofs --------------------------
(***************************************************************************)
(* Proofs about the messages of a request: what the context optimizer, the *)
(* sliding window and the semantic stage may do to a conversation, for     *)
(* conversations of any length, any settings of the stages and either API. *)
(*                                                                         *)
(* The parts, in order: what a client may hold (HistoryInv: no call is     *)
(* made before an earlier one is answered, and one message answers all     *)
(* calls of another over the API of Anthropic); a stage that cuts and puts *)
(* something harmless in front (CutShort), as the window, the semantic     *)
(* stage and, without blocks, the context optimizer do; the context        *)
(* optimizer over blocks (ContextCut: at most one message is recovered,    *)
(* and its answer is the first of the recent ones); the steps of the       *)
(* specification (WorkingInv); and, last, which answers compress_request   *)
(* compresses (PipelineInv).                                               *)
(***************************************************************************)
EXTENDS RequestCompression, FoldFacts, SequenceTheorems

-------------------------------------------------------------------------------
\* What every message is like.
WellMade(a, m) ==
  /\ m \in Message
  /\ m.text \/ m.uses \cup m.results # {}
  /\ m.content = "string" => m.text
  /\ \A id \in m.uses : id[1] = m.turn
  /\ \A id \in m.results : id[1] < m.turn
  /\ m.uses = {} \/ m.results = {}
  /\ m.uses # {} => m.role = "assistant"
  /\ m.role = "system" => m.turn = 1 /\ m.uses = {} /\ m.results = {}
  /\ m.uses \cup m.results # {} => m.content = IF a = "anthropic" THEN "blocks" ELSE "string"

\* n comes after m: no call is made before an earlier one is answered, and over
\* the API of Anthropic one message answers all calls of another.
Follows(a, m, n) ==
  /\ m.turn < n.turn
  /\ m.uses # {} => \A id \in n.results : m.turn <= id[1]
  /\ \A id \in m.results, other \in n.results :
       id[1] <= other[1] /\ (a = "anthropic" => id[1] # other[1])

\* A list of messages a client of the API a may hold.
WellTold(a, s) ==
  /\ s \in Seq(Message)
  /\ \A i \in 1..Len(s) : WellMade(a, s[i])
  /\ \A i, j \in 1..Len(s) : i < j => Follows(a, s[i], s[j])

\* The conversation, as every client tells it; its messages are of the turns so far.
HistoryInv ==
  /\ api \in {"anthropic", "openai"}
  /\ turns \in 1..MaxMessages
  /\ WellTold(api, history)
  /\ \A i \in 1..Len(history) : history[i].turn \in 1..turns

\* A step of the client adds messages of new turns; what it keeps moves to the front
\* only.
HistoryMoves ==
  /\ turns <= turns'
  /\ \A j \in 1..Len(history') :
       \/ history'[j].turn > turns
       \/ \E i \in j..Len(history) : history'[j] = history[i]

\* A message without calls and results is well made.
LEMMA SaysWellMade ==
  ASSUME NEW a, NEW role \in {"user", "assistant"}, NEW content \in Content,
         NEW turn \in 0..MaxMessages
  PROVE  WellMade(a, Says(role, content, turn)) /\ Says(role, content, turn).turn = turn
         /\ Says(role, content, turn).results = {} /\ Says(role, content, turn).uses = {}
BY DEF WellMade, Says, Message, Content

\* Something is said after all that was said before.
LEMMA TellOn ==
  ASSUME NEW a, NEW s, WellTold(a, s), NEW new, WellTold(a, new),
         \A i \in 1..Len(s), j \in 1..Len(new) : Follows(a, s[i], new[j])
  PROVE  WellTold(a, s \o new)
<1> DEFINE t == s \o new
<1>1. /\ t \in Seq(Message) /\ Len(t) = Len(s) + Len(new) /\ Len(s) \in Nat /\ Len(new) \in Nat
      /\ \A i \in 1..Len(t) : t[i] = IF i <= Len(s) THEN s[i] ELSE new[i - Len(s)]
  BY DEF WellTold
<1> HIDE DEF t
<1>2. ASSUME NEW i \in 1..Len(t) PROVE WellMade(a, t[i])
  <2>1. CASE i <= Len(s)
    BY <1>1, <2>1 DEF WellTold
  <2>2. CASE i > Len(s)
    <3>1. i - Len(s) \in 1..Len(new) /\ t[i] = new[i - Len(s)]
      BY <1>1, <2>2
    <3>2. QED
      BY <3>1 DEF WellTold
  <2>3. QED
    BY <1>1, <2>1, <2>2
<1>3. ASSUME NEW i \in 1..Len(t), NEW j \in 1..Len(t), i < j PROVE Follows(a, t[i], t[j])
  <2>1. CASE j <= Len(s)
    <3>1. i \in 1..Len(s) /\ j \in 1..Len(s) /\ t[i] = s[i] /\ t[j] = s[j]
      BY <1>1, <1>3, <2>1
    <3>2. QED
      BY <1>3, <3>1 DEF WellTold
  <2>2. CASE i <= Len(s) /\ j > Len(s)
    <3>1. i \in 1..Len(s) /\ j - Len(s) \in 1..Len(new) /\ t[i] = s[i]
          /\ t[j] = new[j - Len(s)]
      BY <1>1, <2>2
    <3>2. QED
      BY <3>1
  <2>3. CASE i > Len(s)
    <3>1. i - Len(s) \in 1..Len(new) /\ j - Len(s) \in 1..Len(new)
          /\ t[i] = new[i - Len(s)] /\ t[j] = new[j - Len(s)] /\ i - Len(s) < j - Len(s)
      BY <1>1, <1>3, <2>3
    <3>2. QED
      BY <3>1 DEF WellTold
  <2>4. QED
    BY <1>1, <2>1, <2>2, <2>3
<1>4. QED
  BY <1>1, <1>2, <1>3 DEF WellTold, t

\* Whatever the client says is said after all before.
LEMMA SayKeeps ==
  ASSUME HistoryInv, NEW new \in Seq(Message), Say(new), WellTold(api, new), UNCHANGED api,
         \A j \in 1..Len(new) : new[j].turn \in turns + 1..turns + Len(new),
         \A i \in 1..Len(history), j \in 1..Len(new) : Follows(api, history[i], new[j])
  PROVE  HistoryInv' /\ HistoryMoves
<1>1. WellTold(api, history \o new)
  BY TellOn DEF HistoryInv
<1>2. turns' = turns + Len(new) /\ history' = history \o new /\ turns + Len(new) <= MaxMessages
  BY DEF Say, Room
<1>3. turns \in Nat /\ turns >= 1 /\ Len(new) \in Nat /\ Len(history) \in Nat
  BY BoundAssumption DEF HistoryInv, WellTold
<1>4. turns' \in 1..MaxMessages
  BY <1>2, <1>3, BoundAssumption
<1>5. ASSUME NEW i \in 1..Len(history') PROVE history'[i].turn \in 1..turns'
  <2>1. CASE i <= Len(history)
    <3>1. history'[i] = history[i] /\ i \in 1..Len(history)
      BY <1>2, <2>1 DEF HistoryInv, WellTold
    <3>2. history[i].turn \in 1..turns
      BY <3>1 DEF HistoryInv
    <3>3. QED
      BY <1>2, <1>3, <3>1, <3>2
  <2>2. CASE i > Len(history)
    <3>1. history'[i] = new[i - Len(history)] /\ i - Len(history) \in 1..Len(new)
      BY <1>2, <2>2 DEF HistoryInv, WellTold
    <3>2. QED
      BY <1>2, <1>3, <3>1
  <2>3. QED
    BY <1>2, <2>1, <2>2 DEF HistoryInv, WellTold
<1>6. ASSUME NEW j \in 1..Len(history')
      PROVE  history'[j].turn > turns \/ \E i \in j..Len(history) : history'[j] = history[i]
  <2>1. CASE j <= Len(history)
    <3>1. history'[j] = history[j] /\ j \in j..Len(history)
      BY <1>2, <1>3, <2>1 DEF HistoryInv, WellTold
    <3>2. QED
      BY <3>1
  <2>2. CASE j > Len(history)
    <3>1. history'[j] = new[j - Len(history)] /\ j - Len(history) \in 1..Len(new)
      BY <1>2, <2>2 DEF HistoryInv, WellTold
    <3>2. QED
      BY <1>3, <3>1
  <2>3. QED
    BY <1>2, <2>1, <2>2 DEF HistoryInv, WellTold
<1>7. HistoryMoves
  BY <1>2, <1>3, <1>6 DEF HistoryMoves
<1>8. QED
  BY <1>1, <1>2, <1>4, <1>5, <1>7 DEF HistoryInv

\* A single message without results is always in order.
LEMMA OneMessage ==
  ASSUME HistoryInv, NEW m, WellMade(api, m), m.turn = turns + 1, m.results = {},
         Say(<<m>>), UNCHANGED api
  PROVE  HistoryInv' /\ HistoryMoves
<1> DEFINE new == <<m>>
<1>1. new \in Seq(Message) /\ Len(new) = 1 /\ new[1] = m
  BY DEF WellMade
<1>2. turns \in Nat
  BY BoundAssumption DEF HistoryInv
<1> HIDE DEF new
<1>3. WellTold(api, new)
  BY <1>1 DEF WellTold
<1>4. \A j \in 1..Len(new) : new[j].turn \in turns + 1..turns + Len(new)
  BY <1>1, <1>2
<1>5. \A i \in 1..Len(history), j \in 1..Len(new) : Follows(api, history[i], new[j])
  <2> SUFFICES ASSUME NEW i \in 1..Len(history) PROVE Follows(api, history[i], m)
    BY <1>1
  <2>1. history[i].turn \in 1..turns
    BY DEF HistoryInv
  <2>2. QED
    BY <1>2, <2>1 DEF Follows
<1>6. Say(new)
  BY DEF new
<1>7. QED
  BY <1>1, <1>3, <1>4, <1>5, <1>6, SayKeeps

\* SetToSeq makes a sequence of a finite set.
LEMMA SetToSeqLists ==
  ASSUME NEW S, IsFiniteSet(S)
  PROVE  SetToSeq(S) \in Seq(S)
<1>1. Cardinality(S) \in Nat /\ ExistsBijection(1..Cardinality(S), S)
  BY FS_CardinalityType
<1>2. PICK f \in [1..Cardinality(S) -> S] : IsInjective(f)
  BY <1>1 DEF ExistsBijection, Bijection, Injection
<1>3. SetToSeq(S) \in [1..Cardinality(S) -> S]
  BY <1>2 DEF SetToSeq
<1>4. QED
  BY <1>1, <1>3

\* What answers the calls of the last message.
LEMMA AnswerWellTold ==
  ASSUME HistoryInv, NEW ids \in SUBSET ToolId, ids # {}, \A id \in ids : id[1] = turns,
         NEW text \in BOOLEAN, turns + Len(Answer(ids, text)) <= MaxMessages
  PROVE  /\ WellTold(api, Answer(ids, text))
         /\ \A j \in 1..Len(Answer(ids, text)) :
              /\ Answer(ids, text)[j].turn \in turns + 1..turns + Len(Answer(ids, text))
              /\ Answer(ids, text)[j].results \subseteq ids
<1> DEFINE new == Answer(ids, text)
<1>1. turns \in Nat /\ turns >= 1 /\ MaxMessages \in Nat
  BY BoundAssumption DEF HistoryInv
<1>2. CASE api = "anthropic"
  <2> DEFINE m == [Says("user", "blocks", turns + 1) EXCEPT !.results = ids, !.text = text]
  <2>1. new = <<m>>
    BY <1>2 DEF Answer
  <2>2. Len(new) = 1 /\ new[1] = m
    BY <2>1
  <2>3. turns + 1 \in 0..MaxMessages
    BY <1>1, <2>2
  <2>a. /\ m \in Message /\ m.turn = turns + 1 /\ m.results = ids /\ m.uses = {}
        /\ m.role = "user" /\ m.content = "blocks"
    BY <2>3 DEF Says, Message, Content
  <2>b. \A id \in ids : id[1] < turns + 1
    BY <1>1
  <2>4. WellMade(api, m) /\ m.turn = turns + 1 /\ m.results = ids
    <3> HIDE DEF m
    <3> QED BY <1>2, <2>a, <2>b DEF WellMade
  <2> HIDE DEF m, new
  <2>5. new \in Seq(Message)
    BY <2>1, <2>4 DEF WellMade
  <2>6. WellTold(api, new)
    BY <2>2, <2>4, <2>5 DEF WellTold
  <2>7. \A j \in 1..Len(new) : new[j].turn \in turns + 1..turns + Len(new)
                               /\ new[j].results \subseteq ids
    BY <1>1, <2>2, <2>4
  <2>8. QED
    BY <2>6, <2>7 DEF new
<1>3. CASE api # "anthropic"
  <2> DEFINE seq == SetToSeq(ids)
             m(i) == [Says("tool", "string", turns + i) EXCEPT !.results = {seq[i]}]
  <2>1. api = "openai"
    BY <1>3 DEF HistoryInv
  <2>2. new = [i \in 1..Len(seq) |-> m(i)]
    BY <1>3 DEF Answer
  <2>3. seq \in Seq(ids)
    <3>1. ids \in SUBSET {<<turns, 1>>, <<turns, 2>>}
      <4>1. ASSUME NEW id \in ids PROVE id = <<turns, 1>> \/ id = <<turns, 2>>
        BY DEF ToolId
      <4>2. QED
        BY <4>1
    <3> DEFINE x == <<turns, 1>>
               y == <<turns, 2>>
    <3>2. ids \in SUBSET ({x} \cup {y})
      BY <3>1
    <3> HIDE DEF x, y
    <3>3. IsFiniteSet({x} \cup {y})
      <4>1. IsFiniteSet({x})
        BY FS_Singleton
      <4>2. QED
        BY <4>1, FS_AddElement
    <3>4. IsFiniteSet(ids)
      BY <3>2, <3>3, FS_Subset
    <3>5. QED
      BY <3>4, SetToSeqLists
  <2> HIDE DEF seq
  <2>4. Len(seq) \in Nat /\ Len(new) = Len(seq) /\ \A i \in 1..Len(seq) : new[i] = m(i)
    BY <2>2, <2>3
  <2>5. ASSUME NEW i \in 1..Len(seq)
        PROVE  WellMade(api, m(i)) /\ m(i).turn = turns + i /\ m(i).results \subseteq ids
               /\ m(i).uses = {}
    <3>1. turns + i \in 0..MaxMessages /\ seq[i] \in ids /\ seq[i] \in ToolId
      BY <1>1, <2>3, <2>4
    <3>2. seq[i][1] = turns /\ turns < turns + i
      BY <1>1, <3>1
    <3>3. m(i) \in Message /\ m(i).turn = turns + i /\ m(i).results = {seq[i]}
          /\ m(i).uses = {} /\ m(i).text /\ m(i).role = "tool" /\ m(i).content = "string"
      BY <3>1 DEF Says, Message, Content
    <3> HIDE DEF m
    <3>4. QED
      BY <2>1, <3>1, <3>2, <3>3 DEF WellMade
  <2>6. new \in Seq(Message)
    <3>1. \A i \in 1..Len(seq) : m(i) \in Message
      BY <2>5 DEF WellMade
    <3> HIDE DEF m, new
    <3>2. QED
      BY <2>2, <2>4, <3>1
  <2>7. ASSUME NEW i \in 1..Len(seq), NEW j \in 1..Len(seq), i < j
        PROVE  Follows(api, m(i), m(j))
    <3>1. \A id \in m(i).results, other \in m(j).results : id[1] = turns /\ other[1] = turns
      BY <2>5
    <3>2. m(i).turn = turns + i /\ m(j).turn = turns + j /\ m(i).uses = {}
      BY <2>5
    <3> HIDE DEF m
    <3>4. m(i).turn < m(j).turn
      BY <1>1, <2>4, <2>7, <3>2
    <3>3. QED
      BY <1>1, <2>1, <3>1, <3>2, <3>4 DEF Follows
  <2> HIDE DEF new, m
  <2>8. WellTold(api, new)
    BY <2>4, <2>5, <2>6, <2>7 DEF WellTold
  <2>9. \A j \in 1..Len(new) : new[j].turn \in turns + 1..turns + Len(new)
                               /\ new[j].results \subseteq ids
    BY <1>1, <2>4, <2>5
  <2>10. QED
    BY <2>8, <2>9 DEF new
<1>4. QED
  BY <1>2, <1>3

\* The answers of the agent to the calls of the last message are in order.
LEMMA ToolsAnswerKeeps ==
  ASSUME HistoryInv, ToolsAnswer
  PROVE  HistoryInv' /\ HistoryMoves
<1> DEFINE m == Last(history)
           ids == m.uses
<1>1. history # <<>> /\ Open(m) /\ UNCHANGED api
  BY DEF ToolsAnswer
<1>2. PICK text \in BOOLEAN : Say(Answer(ids, text))
  BY DEF ToolsAnswer
<1>3. Len(history) \in 1..Len(history) /\ m = history[Len(history)]
  BY <1>1 DEF HistoryInv, WellTold, Last
<1>4. WellMade(api, m) /\ m.turn = turns /\ ids # {}
  BY <1>1, <1>3 DEF HistoryInv, WellTold, Open
<1>5. ids \in SUBSET ToolId /\ \A id \in ids : id[1] = turns
  BY <1>4 DEF WellMade, Message
<1> HIDE DEF m, ids
<1> DEFINE new == Answer(ids, text)
<1>6. turns + Len(new) <= MaxMessages
  BY <1>2 DEF Say, Room
<1>7. /\ WellTold(api, new)
      /\ \A j \in 1..Len(new) : /\ new[j].turn \in turns + 1..turns + Len(new)
                                /\ new[j].results \subseteq ids
  BY <1>4, <1>5, <1>6, AnswerWellTold
<1> HIDE DEF new
<1>8. new \in Seq(Message)
  BY <1>7 DEF WellTold
<1>9. ASSUME NEW i \in 1..Len(history), NEW j \in 1..Len(new)
      PROVE  Follows(api, history[i], new[j])
  <2>1. turns \in Nat /\ history[i].turn \in 1..turns /\ WellMade(api, history[i])
    BY BoundAssumption DEF HistoryInv, WellTold
  <2>2. new[j].turn > turns
    BY <1>7, <1>8, <2>1
  <2>3. \A id \in new[j].results : id[1] = turns
    BY <1>5, <1>7
  <2>4. \A id \in history[i].results : id[1] < history[i].turn /\ id[1] \in Nat
    BY <2>1 DEF WellMade, Message, ToolId
  <2>5. history[i].turn < new[j].turn /\ history[i].turn \in Nat
    <3>1. new[j].turn \in turns + 1..turns + Len(new) /\ Len(new) \in Nat
      BY <1>7, <1>8
    <3>2. QED
      BY <2>1, <3>1
  <2>6. \A id \in history[i].results, other \in new[j].results :
          id[1] <= other[1] /\ id[1] # other[1]
    BY <2>1, <2>3, <2>4
  <2>7. \A id \in new[j].results : history[i].turn <= id[1]
    BY <2>1, <2>3
  <2>8. QED
    BY <2>5, <2>6, <2>7 DEF Follows
<1>10. QED
  BY <1>1, <1>2, <1>7, <1>8, <1>9, SayKeeps DEF new

\* The elements of RemoveAt.
LEMMA RemovedAt ==
  ASSUME NEW S, NEW s \in Seq(S), NEW i \in 1..Len(s)
  PROVE  /\ RemoveAt(s, i) \in Seq(S) /\ Len(RemoveAt(s, i)) = Len(s) - 1
         /\ \A k \in 1..Len(s) - 1 : RemoveAt(s, i)[k] = s[IF k < i THEN k ELSE k + 1]
<1> DEFINE a == SubSeq(s, 1, i - 1)
           b == SubSeq(s, i + 1, Len(s))
<1>0. Len(s) \in Nat
  OBVIOUS
<1>1. a \in Seq(S) /\ Len(a) = i - 1 /\ \A k \in 1..i - 1 : a[k] = s[k]
  OBVIOUS
<1>2. b \in Seq(S) /\ Len(b) = Len(s) - i /\ \A k \in 1..Len(s) - i : b[k] = s[i + k]
  OBVIOUS
<1>3. RemoveAt(s, i) = a \o b
  BY DEF RemoveAt
<1> HIDE DEF a, b
<1>4. a \o b \in Seq(S) /\ Len(a \o b) = Len(s) - 1
  <2>1. a \o b \in Seq(S) /\ Len(a \o b) = Len(a) + Len(b)
    <3>1. a \in Seq(S) /\ b \in Seq(S)
      BY <1>1, <1>2
    <3>2. QED
      BY <3>1, ConcatProperties
  <2>2. QED
    BY <1>0, <1>1, <1>2, <2>1
<1>5. ASSUME NEW k \in 1..Len(s) - 1 PROVE (a \o b)[k] = s[IF k < i THEN k ELSE k + 1]
  <2>1. CASE k < i
    <3>1. k \in 1..i - 1
      BY <2>1
    <3>2. (a \o b)[k] = a[k]
      BY <1>1, <1>2, <3>1
    <3>3. QED
      BY <1>1, <2>1, <3>1, <3>2
  <2>2. CASE k >= i
    <3>1. k - (i - 1) \in 1..Len(s) - i /\ i + (k - (i - 1)) = k + 1
      BY <2>2
    <3>2. (a \o b)[k] = b[k - (i - 1)]
      BY <1>1, <1>2, <2>2
    <3>3. QED
      BY <1>2, <2>2, <3>1, <3>2
  <2>3. k < i \/ k >= i
    BY <1>0
  <2>4. QED
    BY <2>1, <2>2, <2>3
<1>6. QED
  BY <1>3, <1>4, <1>5

\* What is left when a message is forgotten is still in order.
LEMMA ClientForgetsKeeps ==
  ASSUME HistoryInv, ClientForgets
  PROVE  HistoryInv' /\ HistoryMoves
<1>1. PICK i \in 1..Len(history) - 1 : history' = RemoveAt(history, i)
  BY DEF ClientForgets
<1>2. UNCHANGED <<api, turns>>
  BY DEF ClientForgets
<1>3. history \in Seq(Message) /\ i \in 1..Len(history)
  BY DEF HistoryInv, WellTold
<1> DEFINE from(k) == IF k < i THEN k ELSE k + 1
<1>4. /\ history' \in Seq(Message) /\ Len(history') = Len(history) - 1
      /\ \A k \in 1..Len(history) - 1 : history'[k] = history[from(k)]
  BY <1>1, <1>3, RemovedAt
<1>5. /\ \A k \in 1..Len(history') : from(k) \in 1..Len(history)
      /\ \A j, k \in 1..Len(history') : j < k => from(j) < from(k)
  BY <1>3, <1>4
<1> HIDE DEF from
<1>6. WellTold(api, history')
  BY <1>4, <1>5 DEF HistoryInv, WellTold
<1>7. \A k \in 1..Len(history') : history'[k].turn \in 1..turns
  BY <1>4, <1>5 DEF HistoryInv
<1>8. HistoryMoves
  <2>1. turns \in Nat
    BY BoundAssumption DEF HistoryInv
  <2>2. ASSUME NEW j \in 1..Len(history') PROVE \E k \in j..Len(history) : history'[j] = history[k]
    <3>1. from(j) \in j..Len(history) /\ history'[j] = history[from(j)]
      BY <1>3, <1>4 DEF from
    <3>2. QED
      BY <3>1
  <2>3. QED
    BY <1>2, <2>1, <2>2 DEF HistoryMoves
<1>9. QED
  BY <1>2, <1>6, <1>7, <1>8 DEF HistoryInv

\* A question of the user is in order.
LEMMA UserAsksKeeps ==
  ASSUME HistoryInv, UserAsks
  PROVE  HistoryInv' /\ HistoryMoves
<1> DEFINE m == Says("user", "string", turns + 1)
<1>1. Say(<<m>>) /\ UNCHANGED api
  BY DEF UserAsks
<1>2. turns \in Nat /\ turns + 1 \in 0..MaxMessages
  <2>1. turns \in Nat /\ MaxMessages \in Nat
    BY BoundAssumption DEF HistoryInv
  <2>2. turns + 1 <= MaxMessages
    <3>1. turns + Len(<<m>>) <= MaxMessages
      BY <1>1 DEF Say, Room
    <3> HIDE DEF m
    <3>2. QED
      BY <3>1
  <2>3. QED
    BY <2>1, <2>2
<1>3. WellMade(api, m) /\ m.turn = turns + 1 /\ m.results = {}
  BY <1>2, SaysWellMade DEF Content
<1> HIDE DEF m
<1>4. QED
  BY <1>1, <1>3, OneMessage

\* An answer of the model is in order: its calls are of its own turn.
LEMMA ModelAnswersKeeps ==
  ASSUME HistoryInv, ModelAnswers
  PROVE  HistoryInv' /\ HistoryMoves
<1>1. PICK calls \in {{}, {1}, {1, 2}} :
        LET uses == {turns + 1} \X calls
            content == IF api = "anthropic" THEN "blocks" ELSE "string"
        IN  Say(<<[Says("assistant", content, turns + 1) EXCEPT !.uses = uses]>>)
  BY DEF ModelAnswers
<1> DEFINE uses == {turns + 1} \X calls
           content == IF api = "anthropic" THEN "blocks" ELSE "string"
           m == [Says("assistant", content, turns + 1) EXCEPT !.uses = uses]
<1>2. Say(<<m>>) /\ UNCHANGED api
  BY <1>1 DEF ModelAnswers
<1>3. turns \in Nat /\ turns + 1 \in 1..MaxMessages
  <2>1. turns \in Nat /\ MaxMessages \in Nat
    BY BoundAssumption DEF HistoryInv
  <2>2. turns + 1 <= MaxMessages
    <3>1. turns + Len(<<m>>) <= MaxMessages
      BY <1>2 DEF Say, Room
    <3> HIDE DEF m
    <3>2. QED
      BY <3>1
  <2>3. QED
    BY <2>1, <2>2
<1>4. uses \in SUBSET ToolId /\ \A id \in uses : id[1] = turns + 1
  <2>1. calls \subseteq {1, 2}
    OBVIOUS
  <2>2. QED
    BY <1>3, <2>1 DEF ToolId
<1>5. content \in Content
  BY DEF Content
<1> HIDE DEF uses
<1>6. /\ m \in Message /\ m.turn = turns + 1 /\ m.uses = uses /\ m.results = {}
      /\ m.text /\ m.role = "assistant" /\ m.content = content
  <2> HIDE DEF content
  <2> DEFINE says == Says("assistant", content, turns + 1)
  <2>1. says \in Message /\ says.turn = turns + 1 /\ says.results = {} /\ says.text
        /\ says.role = "assistant" /\ says.content = content
    BY <1>3, <1>5 DEF Says, Message
  <2>2. m = [says EXCEPT !.uses = uses]
    OBVIOUS
  <2> HIDE DEF says, m
  <2>3. QED
    BY <1>4, <2>1, <2>2 DEF Message
<1>7. WellMade(api, m)
  <2> HIDE DEF m
  <2> QED BY <1>4, <1>6 DEF WellMade
<1> HIDE DEF m
<1>8. QED
  BY <1>2, <1>6, <1>7, OneMessage

\* The conversation starts with one or two messages that are in order.
LEMMA HistoryInit ==
  ASSUME Init
  PROVE  HistoryInv
<1>1. PICK system \in {"absent"} \cup (IF api = "openai" THEN Content ELSE {}) :
        LET first == IF system = "absent" THEN <<>> ELSE <<Says("system", system, 1)>>
        IN  history = first \o <<Says("user", "string", Len(first) + 1)>>
  BY DEF Init
<1>2. api \in {"anthropic", "openai"} /\ turns = Len(history)
  BY DEF Init
<1>3. MaxMessages \in Nat /\ MaxMessages >= 2
  BY BoundAssumption
<1>4. CASE system = "absent"
  <2> DEFINE m == Says("user", "string", 1)
  <2>1. history = <<m>>
    BY <1>1, <1>4
  <2>2. WellMade(api, m) /\ m.turn = 1
    BY <1>3, SaysWellMade DEF Content
  <2> HIDE DEF m
  <2>3. history \in Seq(Message) /\ Len(history) = 1 /\ history[1] = m
    BY <2>1, <2>2 DEF WellMade
  <2>4. QED
    BY <1>2, <1>3, <2>2, <2>3 DEF HistoryInv, WellTold
<1>5. CASE system # "absent"
  <2> DEFINE f == Says("system", system, 1)
             m == Says("user", "string", 2)
  <2>1. system \in Content
    BY <1>5
  <2>2. history = <<f>> \o <<m>>
    <3> DEFINE first == <<f>>
    <3>1. history = first \o <<Says("user", "string", Len(first) + 1)>>
      BY <1>1, <1>5
    <3>2. Len(first) + 1 = 2
      <4> HIDE DEF f
      <4> QED OBVIOUS
    <3> HIDE DEF first
    <3>3. history = first \o <<Says("user", "string", 2)>>
      BY <3>1, <3>2
    <3>4. QED
      BY <3>3 DEF first
  <2>3. WellMade(api, m) /\ m.turn = 2 /\ m.results = {}
    <3>1. 2 \in 0..MaxMessages /\ "string" \in Content
      BY <1>3 DEF Content
    <3>2. QED
      BY <3>1, SaysWellMade
  <2>4. WellMade(api, f) /\ f.turn = 1 /\ f.results = {} /\ f.uses = {}
    BY <1>3, <2>1 DEF WellMade, Says, Message, Content
  <2> HIDE DEF f, m
  <2>5. /\ history \in Seq(Message) /\ Len(history) = 2
        /\ history[1] = f /\ history[2] = m
    <3> DEFINE x == <<f>>
               y == <<m>>
    <3>1. /\ x \in Seq(Message) /\ Len(x) = 1 /\ x[1] = f
          /\ y \in Seq(Message) /\ Len(y) = 1 /\ y[1] = m
      BY <2>3, <2>4 DEF WellMade
    <3>2. history = x \o y
      BY <2>2
    <3> HIDE DEF x, y
    <3>3. QED
      BY <3>1, <3>2, ConcatProperties
  <2>6. Follows(api, f, m)
    BY <2>3, <2>4 DEF Follows
  <2>7. \A i \in 1..Len(history) : i = 1 \/ i = 2
    BY <2>5
  <2>8. WellTold(api, history)
    BY <2>3, <2>4, <2>5, <2>6, <2>7 DEF WellTold
  <2>9. QED
    BY <1>2, <1>3, <2>3, <2>4, <2>5, <2>7, <2>8 DEF HistoryInv
<1>6. QED
  BY <1>4, <1>5

\* Every step keeps the conversation in order; those of the proxy leave it alone.
LEMMA HistoryStep ==
  ASSUME HistoryInv, [Next]_vars
  PROVE  HistoryInv' /\ HistoryMoves
<1>1. CASE UserAsks
  BY <1>1, UserAsksKeeps
<1>2. CASE ToolsAnswer
  BY <1>2, ToolsAnswerKeeps
<1>3. CASE ModelAnswers
  BY <1>3, ModelAnswersKeeps
<1>4. CASE ClientForgets
  BY <1>4, ClientForgetsKeeps
<1>5. CASE Pipeline \/ Engine \/ UNCHANGED vars
  <2>1. UNCHANGED <<api, history, turns>>
    <3>1. ContextOptimize => UNCHANGED <<api, history, turns>>
      BY DEF ContextOptimize, Cut
    <3>2. SlidingWindow => UNCHANGED <<api, history, turns>>
      BY DEF SlidingWindow, Cut
    <3>3. CondenseHistory => UNCHANGED <<api, history, turns>>
      BY DEF CondenseHistory, Cut
    <3>4. QED
      BY <1>5, <3>1, <3>2, <3>3 DEF Pipeline, Engine, Pass, vars
  <2>2. HistoryMoves
    <3>1. turns \in Nat /\ Len(history) \in Nat
      BY BoundAssumption DEF HistoryInv, WellTold
    <3>2. \A j \in 1..Len(history') : j \in j..Len(history) /\ history'[j] = history[j]
      BY <2>1, <3>1
    <3>3. QED
      BY <2>1, <3>1, <3>2 DEF HistoryMoves
  <2>3. QED
    BY <2>1, <2>2 DEF HistoryInv
<1>6. QED
  BY <1>1, <1>2, <1>3, <1>4, <1>5 DEF Next, Client

-------------------------------------------------------------------------------
\* InOrderOnce, OrphansOnlyAtTheCut and LatestTurnsSurvive, of any lists.
InOrder(s) ==
  \A i, j \in 1..Len(s) :
    i < j /\ s[i].turn # 0 => \/ s[j].turn > s[i].turn
                              \/ s[j].turn = 0 /\ s[i].role = "system"

\* A result whose call is missing is behind nothing but results, summaries and the
\* system message.
Confined(s) ==
  \A i \in 1..Len(s) : \A id \in s[i].results :
    \/ Owned(s, i, id)
    \/ \A k \in 1..i : Carries(s[k]) \/ s[k].turn = 0 \/ s[k].role = "system"

\* The end of h is the end of s, as much of it as the stages in cs promise.
Latest(h, s, cs) ==
  \E n \in {Len(h)} \cup {Promised(Len(h))[c] : c \in cs} :
    /\ n \in 0..Len(h) /\ n <= Len(s)
    /\ \A c \in cs : n <= Promised(Len(h))[c]
    /\ Ending(s, n) = Ending(h, n)

\* A list a stage may be given: only its first message can be of the system.
Orderly(a, s) ==
  /\ s \in Seq(Message)
  /\ \A i \in 1..Len(s) : WellMade(a, s[i])
  /\ InOrder(s)
  /\ \A i \in 2..Len(s) : s[i].role # "system"

\* What is put in front of the end of w in the place of the rest.
Harmless(a, x, w) ==
  /\ x \in Seq(Message)
  /\ \A i \in 1..Len(x) :
       /\ WellMade(a, x[i]) /\ x[i].uses = {} /\ x[i].results = {}
       /\ \/ x[i].turn = 0
          \/ i = 1 /\ x[i].role = "system" /\ w # <<>> /\ x[i] = w[1]

\* The elements of the last n.
LEMMA EndingIs ==
  ASSUME NEW S, NEW s \in Seq(S), NEW n \in 0..Len(s)
  PROVE  /\ Ending(s, n) \in Seq(S) /\ Len(Ending(s, n)) = n
         /\ \A k \in 1..n : Ending(s, n)[k] = s[Len(s) - n + k]
BY DEF Ending

\* Lists with the same last n messages have the same last k, for k up to n.
LEMMA EndingOfEnding ==
  ASSUME NEW S, NEW s \in Seq(S), NEW T, NEW t \in Seq(T), NEW n \in Nat,
         n <= Len(s), n <= Len(t), Ending(s, n) = Ending(t, n), NEW k \in 0..n
  PROVE  Ending(s, k) = Ending(t, k)
<1>1. /\ Ending(s, n) \in Seq(S)
      /\ \A j \in 1..n : Ending(s, n)[j] = s[Len(s) - n + j]
      /\ \A j \in 1..n : Ending(t, n)[j] = t[Len(t) - n + j]
  <2>1. n \in 0..Len(s) /\ n \in 0..Len(t)
    OBVIOUS
  <2>2. QED
    BY <2>1, EndingIs
<1>2. /\ Ending(s, k) \in Seq(S) /\ Len(Ending(s, k)) = k
      /\ Ending(t, k) \in Seq(T) /\ Len(Ending(t, k)) = k
      /\ \A j \in 1..k : Ending(s, k)[j] = s[Len(s) - k + j]
      /\ \A j \in 1..k : Ending(t, k)[j] = t[Len(t) - k + j]
  <2>1. k \in 0..Len(s) /\ k \in 0..Len(t)
    OBVIOUS
  <2>2. QED
    BY <2>1, EndingIs
<1>3. ASSUME NEW j \in 1..k PROVE Ending(s, k)[j] = Ending(t, k)[j]
  <2>1. n - k + j \in 1..n
    OBVIOUS
  <2>2. s[Len(s) - n + (n - k + j)] = t[Len(t) - n + (n - k + j)]
    BY <1>1, <2>1
  <2>3. Len(s) - n + (n - k + j) = Len(s) - k + j
        /\ Len(t) - n + (n - k + j) = Len(t) - k + j
    OBVIOUS
  <2>4. QED
    BY <1>2, <2>2, <2>3
<1> DEFINE x == Ending(s, k)
           y == Ending(t, k)
<1>4. x \in Seq(S) /\ y \in Seq(T) /\ Len(x) = Len(y) /\ \A j \in 1..Len(x) : x[j] = y[j]
  BY <1>2, <1>3
<1> HIDE DEF x, y
<1>5. x = y
  BY <1>4
<1>6. QED
  BY <1>5 DEF x, y

\* The elements of x followed by the last n of w.
LEMMA CutIs ==
  ASSUME NEW S, NEW w \in Seq(S), NEW x \in Seq(S), NEW n \in 0..Len(w)
  PROVE  LET v == x \o Ending(w, n)
             shift == Len(w) - n - Len(x)
         IN  /\ v \in Seq(S) /\ Len(v) = Len(x) + n
             /\ \A i \in 1..Len(x) : v[i] = x[i]
             /\ \A i \in Len(x) + 1..Len(v) :
                  i + shift \in Len(w) - n + 1..Len(w) /\ v[i] = w[i + shift]
<1> DEFINE e == Ending(w, n)
           v == x \o e
           shift == Len(w) - n - Len(x)
<1>1. e \in Seq(S) /\ Len(e) = n /\ \A k \in 1..n : e[k] = w[Len(w) - n + k]
  BY EndingIs
<1> HIDE DEF e
<1>2. /\ v \in Seq(S) /\ Len(v) = Len(x) + n
      /\ \A i \in 1..Len(v) : v[i] = IF i <= Len(x) THEN x[i] ELSE e[i - Len(x)]
  <2>1. /\ x \o e \in Seq(S) /\ Len(x \o e) = Len(x) + Len(e)
        /\ \A i \in 1..Len(x) + Len(e) :
             (x \o e)[i] = IF i <= Len(x) THEN x[i] ELSE e[i - Len(x)]
    BY <1>1, ConcatProperties
  <2>2. QED
    BY <1>1, <2>1
<1> HIDE DEF v
<1>3. Len(x) \in Nat /\ Len(w) \in Nat /\ n \in Nat
  OBVIOUS
<1>4. \A i \in 1..Len(x) : v[i] = x[i]
  BY <1>2, <1>3
<1>5. ASSUME NEW i \in Len(x) + 1..Len(v)
      PROVE  i + shift \in Len(w) - n + 1..Len(w) /\ v[i] = w[i + shift]
  <2>1. i - Len(x) \in 1..n /\ Len(w) - n + (i - Len(x)) = i + shift
    BY <1>2, <1>3
  <2>2. v[i] = e[i - Len(x)]
    BY <1>2, <1>3
  <2>3. QED
    BY <1>1, <1>3, <2>1, <2>2
<1>6. QED
  BY <1>2, <1>4, <1>5 DEF v, e

\* A call is made in one message: it carries the number of its turn.
LEMMA UsedOnce ==
  ASSUME NEW a, NEW s, Orderly(a, s), NEW i \in 1..Len(s), NEW j \in 1..Len(s),
         NEW id \in s[i].uses, id \in s[j].uses
  PROVE  i = j
<1>1. WellMade(a, s[i]) /\ WellMade(a, s[j])
  BY DEF Orderly
<1>2. s[i].turn = id[1] /\ s[j].turn = id[1] /\ id \in ToolId
  BY <1>1 DEF WellMade, Message
<1>3. id[1] \in Nat /\ id[1] # 0
  BY <1>2, BoundAssumption DEF ToolId
<1>4. s[i].role = "assistant" /\ s[j].role = "assistant"
  BY <1>1 DEF WellMade
<1>5. ~ (i < j)
  BY <1>2, <1>3, <1>4 DEF Orderly, InOrder
<1>6. ~ (j < i)
  BY <1>2, <1>3, <1>4 DEF Orderly, InOrder
<1>7. QED
  BY <1>5, <1>6

\* i is an answer to the call of id in j.
Behind(s, j, id, i) ==
  /\ i \in j + 1..Len(s) /\ id \in s[i].results
  /\ \A k \in j + 1..i : Carries(s[k])

\* Answered, with Owned resolved: the owner of an answer is the message that calls.
LEMMA AnsweredBehind ==
  ASSUME NEW a, NEW s, Orderly(a, s)
  PROVE  Answered(s) <=> \A j \in 1..Len(s) : \A id \in s[j].uses : \E i : Behind(s, j, id, i)
<1>0. Len(s) \in Nat
  BY DEF Orderly
<1>1. ASSUME Answered(s), NEW j \in 1..Len(s), NEW id \in s[j].uses
      PROVE  \E i : Behind(s, j, id, i)
  <2>1. PICK i \in j + 1..Len(s) : id \in s[i].results /\ Owned(s, i, id)
    BY <1>1 DEF Answered
  <2>2. PICK h \in 1..i - 1 : id \in s[h].uses /\ \A k \in h + 1..i : Carries(s[k])
    BY <2>1 DEF Owned
  <2>3. h = j
    <3>1. h \in 1..Len(s)
      BY <1>0
    <3>2. QED
      BY <2>2, <3>1, UsedOnce
  <2>4. QED
    BY <2>1, <2>2, <2>3 DEF Behind
<1>2. ASSUME \A j \in 1..Len(s) : \A id \in s[j].uses : \E i : Behind(s, j, id, i),
             NEW j \in 1..Len(s), NEW id \in s[j].uses
      PROVE  \E i \in j + 1..Len(s) : id \in s[i].results /\ Owned(s, i, id)
  <2>1. PICK i : Behind(s, j, id, i)
    BY <1>2
  <2>2. j \in 1..i - 1
    BY <1>0, <2>1 DEF Behind
  <2>3. QED
    BY <2>1, <2>2 DEF Behind, Owned
<1>3. QED
  BY <1>1, <1>2 DEF Answered

\* v is x and the last n messages of w, element by element.
CutFrom(v, x, w, n) ==
  /\ v = x \o Ending(w, n)
  /\ v \in Seq(Message) /\ Len(v) = Len(x) + n
  /\ \A i \in 1..Len(x) : v[i] = x[i]
  /\ \A i \in Len(x) + 1..Len(v) :
       /\ i + (Len(w) - n - Len(x)) \in Len(w) - n + 1..Len(w)
       /\ v[i] = w[i + (Len(w) - n - Len(x))]

\* A cut keeps the order, and the system in front.
LEMMA CutShortOrder ==
  ASSUME NEW a, NEW w, Orderly(a, w), NEW x, Harmless(a, x, w), NEW n \in 0..Len(w) - 1,
         NEW v, CutFrom(v, x, w, n)
  PROVE  Orderly(a, v)
<1> DEFINE e == Len(x)
           shift == Len(w) - n - e
<1>1. e \in Nat /\ Len(w) \in Nat /\ Len(v) \in Nat /\ shift \in Int
  BY DEF Harmless, Orderly, CutFrom
<1>2. \A i \in 1..e : v[i] = x[i]
  BY DEF CutFrom
<1>3. \A i \in e + 1..Len(v) : i + shift \in 2..Len(w) /\ v[i] = w[i + shift]
  BY <1>1 DEF CutFrom
<1>4. \A i \in 1..Len(v) : i \in 1..e \/ i \in e + 1..Len(v)
  BY <1>1
<1> HIDE DEF e, shift
<1>5. ASSUME NEW i \in 1..Len(v) PROVE WellMade(a, v[i])
  <2>1. CASE i \in 1..e
    BY <1>2, <2>1 DEF Harmless, e
  <2>2. CASE i \in e + 1..Len(v)
    <3>1. i + shift \in 1..Len(w)
      BY <1>1, <1>3, <2>2
    <3>2. QED
      BY <1>3, <2>2, <3>1 DEF Orderly
  <2>3. QED
    BY <1>4, <2>1, <2>2
<1>6. ASSUME NEW i \in 1..Len(v), NEW j \in 1..Len(v), i < j, v[i].turn # 0
      PROVE  \/ v[j].turn > v[i].turn
             \/ v[j].turn = 0 /\ v[i].role = "system"
  <2>1. CASE i \in 1..e
    <3>1. i = 1 /\ v[i].role = "system" /\ w # <<>> /\ v[i] = w[1]
      BY <1>2, <1>6, <2>1 DEF Harmless, e
    <3>2. CASE j \in 1..e
      <4>1. v[j].turn = 0
        BY <1>2, <1>6, <3>1, <3>2 DEF Harmless, e
      <4>2. QED
        BY <3>1, <4>1
    <3>3. CASE j \in e + 1..Len(v)
      <4>1. j + shift \in 2..Len(w) /\ v[j] = w[j + shift]
        BY <1>3, <3>3
      <4>2. 1 \in 1..Len(w) /\ j + shift \in 1..Len(w) /\ 1 < j + shift
        BY <1>1, <4>1
      <4>3. w[1].turn # 0
        BY <1>6, <3>1
      <4>4. QED
        BY <3>1, <4>1, <4>2, <4>3 DEF Orderly, InOrder
    <3>4. QED
      BY <1>4, <3>2, <3>3
  <2>2. CASE i \in e + 1..Len(v)
    <3>1. j \in e + 1..Len(v)
      BY <1>1, <1>6, <2>2
    <3>2. /\ i + shift \in 1..Len(w) /\ j + shift \in 1..Len(w) /\ i + shift < j + shift
          /\ v[i] = w[i + shift] /\ v[j] = w[j + shift]
      BY <1>1, <1>3, <1>6, <2>2, <3>1
    <3>3. \A p, q \in 1..Len(w) :
            p < q /\ w[p].turn # 0 => \/ w[q].turn > w[p].turn
                                      \/ w[q].turn = 0 /\ w[p].role = "system"
      BY DEF Orderly, InOrder
    <3> DEFINE p == i + shift
               q == j + shift
    <3>4. p \in 1..Len(w) /\ q \in 1..Len(w) /\ p < q /\ v[i] = w[p] /\ v[j] = w[q]
      BY <3>2
    <3> HIDE DEF p, q
    <3>5. \/ w[q].turn > w[p].turn
          \/ w[q].turn = 0 /\ w[p].role = "system"
      <4>1. w[p].turn # 0
        BY <1>6, <3>4
      <4>2. QED
        BY <3>3, <3>4, <4>1
    <3>6. QED
      BY <3>4, <3>5
  <2>3. QED
    BY <1>4, <2>1, <2>2
<1>7. ASSUME NEW i \in 2..Len(v) PROVE v[i].role # "system"
  <2>1. CASE i \in 1..e
    <3>1. v[i].turn = 0
      BY <1>2, <2>1 DEF Harmless, e
    <3>2. WellMade(a, v[i])
      BY <1>2, <2>1 DEF Harmless, e
    <3>3. QED
      BY <3>1, <3>2 DEF WellMade
  <2>2. CASE i \in e + 1..Len(v)
    BY <1>3, <2>2 DEF Orderly
  <2>3. QED
    BY <1>1, <1>4, <2>1, <2>2
<1>8. QED
  BY <1>5, <1>6, <1>7 DEF Orderly, InOrder, CutFrom

\* A cut keeps the answers of the calls it keeps: they come later.
LEMMA CutShortAnswers ==
  ASSUME NEW a, NEW w, Orderly(a, w), NEW x, Harmless(a, x, w), NEW n \in 0..Len(w) - 1,
         NEW v, CutFrom(v, x, w, n), Answered(w)
  PROVE  Answered(v)
<1> DEFINE e == Len(x)
           shift == Len(w) - n - e
<1>1. e \in Nat /\ Len(w) \in Nat /\ Len(v) \in Nat /\ shift \in Int /\ Len(v) + shift = Len(w)
  <2>1. Len(x) \in Nat /\ Len(w) \in Nat
    BY DEF Harmless, Orderly
  <2>2. Len(v) = Len(x) + n
    BY DEF CutFrom
  <2>3. QED
    BY <2>1, <2>2
<1>2. \A i \in 1..e : v[i] = x[i]
  BY DEF CutFrom
<1>3. \A i \in e + 1..Len(v) : i + shift \in 1..Len(w) /\ v[i] = w[i + shift]
  BY <1>1 DEF CutFrom
<1> HIDE DEF shift
<1>4. ASSUME NEW j \in 1..Len(v), NEW id \in v[j].uses PROVE \E i : Behind(v, j, id, i)
  <2>1. j \in e + 1..Len(v)
    <3>1. j \notin 1..e
      BY <1>2, <1>4 DEF Harmless
    <3>2. QED
      BY <1>1, <3>1
  <2> HIDE DEF e
  <2>2. j + shift \in 1..Len(w) /\ id \in w[j + shift].uses
    BY <1>3, <1>4, <2>1
  <2>3. PICK h : Behind(w, j + shift, id, h)
    BY <1>4, <2>2, AnsweredBehind
  <2> DEFINE i == h - shift
  <2>4. h \in Int /\ i \in j + 1..Len(v) /\ i + shift = h
    BY <1>1, <2>1, <2>3 DEF Behind
  <2> HIDE DEF i
  <2>5. i \in e + 1..Len(v) /\ id \in v[i].results
    <3>1. i \in e + 1..Len(v)
      BY <1>1, <2>1, <2>4
    <3>2. v[i] = w[h]
      BY <1>3, <2>4, <3>1
    <3>3. QED
      BY <2>3, <3>1, <3>2 DEF Behind
  <2>6. ASSUME NEW k \in j + 1..i PROVE Carries(v[k])
    <3>1. k \in e + 1..Len(v) /\ k + shift \in j + shift + 1..h
      BY <1>1, <2>1, <2>4
    <3>2. v[k] = w[k + shift]
      BY <1>3, <3>1
    <3>3. QED
      BY <2>3, <3>1, <3>2 DEF Behind
  <2>7. Behind(v, j, id, i)
    BY <2>4, <2>5, <2>6 DEF Behind
  <2>8. QED
    BY <2>7
<1>5. Orderly(a, v)
  BY CutShortOrder
<1>6. QED
  BY <1>4, <1>5, AnsweredBehind

\* A cut leaves results without calls only at its edge.
LEMMA CutShortConfined ==
  ASSUME NEW a, NEW w, Orderly(a, w), NEW x, Harmless(a, x, w), NEW n \in 0..Len(w) - 1,
         NEW v, CutFrom(v, x, w, n), Confined(w)
  PROVE  Confined(v)
<1> DEFINE e == Len(x)
           shift == Len(w) - n - e
<1>1. e \in Nat /\ Len(w) \in Nat /\ Len(v) \in Nat /\ shift \in Int /\ Len(v) + shift = Len(w)
  <2>1. Len(x) \in Nat /\ Len(w) \in Nat
    BY DEF Harmless, Orderly
  <2>2. Len(v) = Len(x) + n
    BY DEF CutFrom
  <2>3. QED
    BY <2>1, <2>2
<1>2. \A i \in 1..e : v[i] = x[i]
  BY DEF CutFrom
<1>3. \A i \in e + 1..Len(v) : i + shift \in 1..Len(w) /\ v[i] = w[i + shift]
  BY <1>1 DEF CutFrom
<1>a. \A k \in 1..e : v[k].turn = 0 \/ v[k].role = "system"
  BY <1>2 DEF Harmless
<1>b. \A k \in 1..e : v[k].results = {}
  BY <1>2 DEF Harmless
<1> HIDE DEF e, shift
<1>4. SUFFICES ASSUME NEW i \in 1..Len(v), NEW id \in v[i].results
               PROVE  \/ Owned(v, i, id)
                      \/ \A k \in 1..i : \/ Carries(v[k]) \/ v[k].turn = 0
                                         \/ v[k].role = "system"
  BY DEF Confined
<1>5. i \in e + 1..Len(v)
  <2>1. i \notin 1..e
    BY <1>b, <1>4
  <2>2. QED
    BY <1>1, <2>1
<1> DEFINE h == i + shift
<1>6. h \in 1..Len(w) /\ v[i] = w[h] /\ id \in w[h].results
  BY <1>3, <1>4, <1>5
<1>7. ASSUME NEW k \in e + 1..i
      PROVE  k \in e + 1..Len(v) /\ k + shift \in 1..h /\ v[k] = w[k + shift]
  <2>1. k \in e + 1..Len(v)
    BY <1>1, <1>5
  <2>2. k + shift \in 1..Len(w) /\ v[k] = w[k + shift]
    BY <1>3, <2>1
  <2>3. QED
    BY <1>1, <1>5, <2>1, <2>2
<1>8. CASE Owned(w, h, id)
  <2>1. PICK j \in 1..h - 1 : id \in w[j].uses /\ \A k \in j + 1..h : Carries(w[k])
    BY <1>8 DEF Owned
  <2>2. CASE j - shift > e
    <3> DEFINE p == j - shift
    <3>1. p \in 1..i - 1 /\ p \in e + 1..Len(v) /\ p + shift = j
      BY <1>1, <1>5, <1>6, <2>2
    <3> HIDE DEF p
    <3>2. id \in v[p].uses
      BY <1>3, <2>1, <3>1
    <3>3. ASSUME NEW k \in p + 1..i PROVE Carries(v[k])
      <4>0. /\ p \in Int /\ i \in Int /\ e \in Int /\ shift \in Int
            /\ e < p /\ p + shift = j /\ h = i + shift
        BY <1>1, <1>5, <3>1
      <4> HIDE DEF h
      <4>1. k \in e + 1..i /\ k + shift \in j + 1..h
        BY <4>0
      <4>2. QED
        BY <1>7, <2>1, <4>1
    <3>4. QED
      BY <3>1, <3>2, <3>3 DEF Owned
  <2>3. CASE j - shift <= e
    <3>1. ASSUME NEW k \in 1..i
          PROVE  Carries(v[k]) \/ v[k].turn = 0 \/ v[k].role = "system"
      <4>1. CASE k \in 1..e
        BY <1>a, <4>1
      <4>2. CASE k \in e + 1..i
        <5>1. k + shift \in j + 1..h
          BY <1>1, <1>5, <2>3, <4>2
        <5>2. QED
          BY <1>7, <2>1, <4>2, <5>1
      <4>3. QED
        BY <1>1, <4>1, <4>2
    <3>2. QED
      BY <3>1
  <2>4. QED
    BY <1>1, <1>5, <1>6, <2>2, <2>3
<1>9. CASE \A k \in 1..h : Carries(w[k]) \/ w[k].turn = 0 \/ w[k].role = "system"
  <2>1. ASSUME NEW k \in 1..i
        PROVE  Carries(v[k]) \/ v[k].turn = 0 \/ v[k].role = "system"
    <3>1. CASE k \in 1..e
      BY <1>a, <3>1
    <3>2. CASE k \in e + 1..i
      BY <1>7, <1>9, <3>2
    <3>3. QED
      BY <1>1, <3>1, <3>2
  <2>2. QED
    BY <2>1
<1>10. QED
  BY <1>6, <1>8, <1>9 DEF Confined

\* The last n messages of w, behind what was put in front of them.
CutShort(a, v, w, n) ==
  /\ n \in 0..Len(w) - 1
  /\ \E x : Harmless(a, x, w) /\ CutFrom(v, x, w, n)

\* The summary and its acknowledgement.
LEMMA SummaryIs ==
  ASSUME NEW a
  PROVE  /\ SummaryAndAck \in Seq(Message) /\ Len(SummaryAndAck) = 2
         /\ \A i \in 1..2 : /\ WellMade(a, SummaryAndAck[i]) /\ SummaryAndAck[i].turn = 0
                            /\ SummaryAndAck[i].uses = {} /\ SummaryAndAck[i].results = {}
<1> DEFINE u == Says("user", "string", 0)
           v == Says("assistant", "string", 0)
<1>1. 0 \in 0..MaxMessages /\ "string" \in Content
  BY BoundAssumption DEF Content
<1>2. /\ WellMade(a, u) /\ u.turn = 0 /\ u.uses = {} /\ u.results = {}
      /\ WellMade(a, v) /\ v.turn = 0 /\ v.uses = {} /\ v.results = {}
  BY <1>1, SaysWellMade
<1>3. SummaryAndAck = <<u, v>>
  BY DEF SummaryAndAck
<1> HIDE DEF u, v
<1>4. SummaryAndAck \in Seq(Message) /\ Len(SummaryAndAck) = 2
      /\ SummaryAndAck[1] = u /\ SummaryAndAck[2] = v
  BY <1>2, <1>3 DEF WellMade
<1>5. \A i \in 1..2 : i = 1 \/ i = 2
  OBVIOUS
<1>6. QED
  BY <1>2, <1>4, <1>5

\* They can be put in front of anything.
LEMMA SummaryHarmless ==
  ASSUME NEW a, NEW w
  PROVE  Harmless(a, SummaryAndAck, w)
BY SummaryIs DEF Harmless

\* The sliding window is such a cut.
LEMMA WindowCuts ==
  ASSUME NEW a, Orderly(a, working), SlidingWindow
  PROVE  CutShort(a, working', working, 2 * WindowTurns)
<1> DEFINE n == 2 * WindowTurns
<1>1. n \in 0..Len(working) - 1 /\ working \in Seq(Message)
  BY PreserveAssumption DEF SlidingWindow, Orderly
<1>2. PICK x \in {SummaryAndAck, <<>>} : working' = x \o Ending(working, n)
  BY DEF SlidingWindow, Cut
<1>3. Harmless(a, x, working)
  <2>1. CASE x = SummaryAndAck
    BY <2>1, SummaryHarmless
  <2>2. CASE x = <<>>
    BY <2>2 DEF Harmless
  <2>3. QED
    BY <2>1, <2>2
<1> HIDE DEF n
<1>4. CutFrom(working', x, working, n)
  <2>1. x \in Seq(Message) /\ n \in 0..Len(working)
    BY <1>1, <1>3 DEF Harmless
  <2>2. QED
    BY <1>1, <1>2, <2>1, CutIs DEF CutFrom
<1>5. QED
  BY <1>1, <1>3, <1>4 DEF CutShort, n

\* Only the first message can be of the system, so the others are a tail.
LEMMA NonSystemIs ==
  ASSUME NEW a, NEW w, Orderly(a, w)
  PROVE  \E d \in {0, 1} : d <= Len(w) /\ NonSystem(w) = SubSeq(w, d + 1, Len(w))
<1> DEFINE K == {m \in Range(w) : m.role # "system"}
           d == IF w # <<>> /\ w[1].role = "system" THEN 1 ELSE 0
<1>1. w \in Seq(Message) /\ Len(w) \in Nat
  BY DEF Orderly
<1>2. d \in 0..Len(w) /\ d \in {0, 1}
  BY <1>1
<1>3. ASSUME NEW k \in 1..Len(w) PROVE w[k] \in K <=> k > d
  <2>1. w[k] \in K <=> w[k].role # "system"
    BY <1>1 DEF Range
  <2>2. CASE k = 1
    BY <1>1, <2>1, <2>2
  <2>3. CASE k # 1
    <3>1. k \in 2..Len(w)
      BY <2>3
    <3>2. w[k].role # "system" /\ k > d
      BY <1>2, <3>1 DEF Orderly
    <3>3. QED
      BY <2>1, <3>2
  <2>4. QED
    BY <2>2, <2>3
<1> HIDE DEF d
<1>4. Only(w, K) = SubSeq(w, d + 1, Len(w))
  <2> HIDE DEF K
  <2> QED BY <1>1, <1>2, <1>3, OnlyTheEnd
<1>5. QED
  BY <1>1, <1>2, <1>4 DEF NonSystem

\* The system message the semantic stage keeps is the first message.
LEMMA SystemIs ==
  ASSUME NEW a, NEW w, Orderly(a, w)
  PROVE  \/ SystemInMessages(w) = <<>>
         \/ /\ w # <<>> /\ w[1].role = "system" /\ SystemInMessages(w) = <<w[1]>>
<1> DEFINE K == {m \in Range(w) : m.role = "system"}
           system == Only(w, K)
<1>1. w \in Seq(Message) /\ Len(w) \in Nat
  BY DEF Orderly
<1>2. system \in Seq(Message) /\ \E g : Embeds(g, system, w, K, Len(w))
  <2> HIDE DEF K
  <2> QED BY <1>1, OnlyEmbeds
<1>3. PICK g : Embeds(g, system, w, K, Len(w))
  BY <1>2
<1>4. SystemInMessages(w) = IF system # <<>> /\ system[1].content = "string"
                            THEN <<system[1]>> ELSE <<>>
  BY DEF SystemInMessages
<1>5. CASE system # <<>>
  <2> HIDE DEF system
  <2>1. 1 \in 1..Len(system)
    BY <1>2, <1>5
  <2>2. g[1] \in 1..Len(w) /\ system[1] = w[g[1]] /\ w[g[1]].role = "system"
    BY <1>3, <2>1 DEF Embeds
  <2>3. g[1] = 1
    <3>1. g[1] \notin 2..Len(w)
      BY <2>2 DEF Orderly
    <3>2. QED
      BY <1>1, <2>2, <3>1
  <2>4. w # <<>>
    BY <1>1, <2>2
  <2>5. QED
    BY <1>4, <2>2, <2>3, <2>4
<1>6. CASE system = <<>>
  BY <1>4, <1>6
<1>7. QED
  BY <1>5, <1>6

\* The semantic stage is such a cut: what it preserves is an end of the whole list.
LEMMA CondenseCuts ==
  ASSUME NEW a, Orderly(a, working), CondenseHistory
  PROVE  CutShort(a, working', working, SemanticKeep)
<1> DEFINE n == SemanticKeep
           w == working
           first == SystemInMessages(w)
           x == first \o SummaryAndAck
<1>1. w \in Seq(Message) /\ Len(w) \in Nat
  BY DEF Orderly
<1>2. PICK d \in {0, 1} : d <= Len(w) /\ NonSystem(w) = SubSeq(w, d + 1, Len(w))
  BY NonSystemIs
<1>3. n \in Nat /\ n < Len(SubSeq(w, d + 1, Len(w)))
  BY <1>1, <1>2, PreserveAssumption DEF CondenseHistory
<1>4. Len(SubSeq(w, d + 1, Len(w))) = Len(w) - d
  BY <1>1, <1>2
<1>5. n \in 0..Len(w) - 1 /\ n <= Len(w) - d
  BY <1>1, <1>2, <1>3, <1>4
<1>6. Ending(NonSystem(w), n) = Ending(w, n)
  <2> DEFINE t == SubSeq(w, d + 1, Len(w))
  <2>1. t \in Seq(Message) /\ Len(t) = Len(w) - d /\ \A k \in 1..Len(w) - d : t[k] = w[d + k]
    BY <1>1, <1>2
  <2> HIDE DEF t, n, w
  <2>2. n \in 0..Len(t) /\ n \in 0..Len(w)
    BY <1>1, <1>5, <2>1
  <2>3. /\ Ending(t, n) \in Seq(Message) /\ Len(Ending(t, n)) = n
        /\ \A k \in 1..n : Ending(t, n)[k] = t[Len(t) - n + k]
        /\ Ending(w, n) \in Seq(Message) /\ Len(Ending(w, n)) = n
        /\ \A k \in 1..n : Ending(w, n)[k] = w[Len(w) - n + k]
    BY <1>1, <2>1, <2>2, EndingIs
  <2>4. ASSUME NEW k \in 1..n PROVE Ending(t, n)[k] = Ending(w, n)[k]
    <3>1. Len(t) - n + k \in 1..Len(w) - d /\ d + (Len(t) - n + k) = Len(w) - n + k
      BY <1>1, <1>2, <2>1, <2>2
    <3>2. QED
      BY <2>1, <2>3, <3>1
  <2> DEFINE y == Ending(t, n)
             z == Ending(w, n)
  <2>5. /\ y \in Seq(Message) /\ z \in Seq(Message) /\ Len(y) = Len(z)
        /\ \A k \in 1..Len(y) : y[k] = z[k]
    BY <2>3, <2>4
  <2> HIDE DEF y, z
  <2>6. y = z
    BY <2>5
  <2>7. QED
    BY <1>2, <2>6 DEF t, y, z
<1>7. working' = x \o Ending(w, n)
  <2>1. working' = first \o SummaryAndAck \o Preserved(w)
    BY DEF CondenseHistory, Cut
  <2>2. Preserved(w) = Ending(w, n)
    BY <1>6 DEF Preserved
  <2>3. QED
    BY <2>1, <2>2
<1> HIDE DEF n
<1>8. Harmless(a, x, w)
  <2>1. CASE first = <<>>
    <3>1. x = SummaryAndAck
      BY <2>1, SummaryIs, ConcatEmptySeq
    <3>2. QED
      BY <3>1, SummaryHarmless
  <2>2. CASE w # <<>> /\ w[1].role = "system" /\ first = <<w[1]>>
    <3> DEFINE f == w[1]
    <3>1. WellMade(a, f) /\ f \in Message /\ f.uses = {} /\ f.results = {}
      <4>1. 1 \in 1..Len(w)
        BY <1>1, <2>2
      <4>2. WellMade(a, f)
        BY <4>1 DEF Orderly
      <4>3. QED
        BY <2>2, <4>2 DEF WellMade
    <3> HIDE DEF first, f
    <3>2. first \in Seq(Message) /\ Len(first) = 1 /\ first[1] = f
      BY <2>2, <3>1 DEF f
    <3>3. /\ SummaryAndAck \in Seq(Message) /\ Len(SummaryAndAck) = 2
          /\ \A i \in 1..2 :
               /\ WellMade(a, SummaryAndAck[i]) /\ SummaryAndAck[i].turn = 0
               /\ SummaryAndAck[i].uses = {} /\ SummaryAndAck[i].results = {}
      BY SummaryIs
    <3>4. /\ x \in Seq(Message) /\ Len(x) = 3 /\ x[1] = f
          /\ x[2] = SummaryAndAck[1] /\ x[3] = SummaryAndAck[2]
      <4>a. first \in Seq(Message) /\ SummaryAndAck \in Seq(Message)
        BY <3>2, <3>3
      <4>1. \A i \in 1..Len(first) + Len(SummaryAndAck) :
              x[i] = IF i <= Len(first) THEN first[i] ELSE SummaryAndAck[i - Len(first)]
        BY <4>a, ConcatProperties
      <4>b. x \in Seq(Message) /\ Len(x) = Len(first) + Len(SummaryAndAck)
        BY <4>a, ConcatProperties
      <4> HIDE DEF x
      <4>2. x \in Seq(Message) /\ Len(x) = 3
        BY <3>2, <3>3, <4>b
      <4>3. QED
        BY <3>2, <3>3, <4>1, <4>2
    <3> HIDE DEF x
    <3>5. ASSUME NEW i \in 1..Len(x)
          PROVE  /\ WellMade(a, x[i]) /\ x[i].uses = {} /\ x[i].results = {}
                 /\ \/ x[i].turn = 0
                    \/ i = 1 /\ x[i].role = "system" /\ w # <<>> /\ x[i] = w[1]
      <4>1. i = 1 \/ i = 2 \/ i = 3
        BY <3>4
      <4>2. CASE i = 1
        BY <2>2, <3>1, <3>4, <4>2 DEF f
      <4>3. CASE i = 2
        BY <3>3, <3>4, <4>3
      <4>4. CASE i = 3
        BY <3>3, <3>4, <4>4
      <4>5. QED
        BY <4>1, <4>2, <4>3, <4>4
    <3>6. QED
      BY <3>4, <3>5 DEF Harmless
  <2>3. QED
    BY <2>1, <2>2, SystemIs
<1> HIDE DEF x
<1>9. CutFrom(working', x, w, n)
  <2>1. x \in Seq(Message) /\ n \in 0..Len(w)
    BY <1>1, <1>5, <1>8 DEF Harmless
  <2>2. QED
    BY <1>1, <1>7, <2>1, CutIs DEF CutFrom
<1>10. QED
  BY <1>5, <1>8, <1>9 DEF CutShort, n

\* What a request keeps of the conversation h when it is down to w.
Carried(a, h, w, cs) ==
  /\ Orderly(a, w)
  /\ Answered(h) => Answered(w)
  /\ Paired(h) => Confined(w) /\ Latest(h, w, cs)

\* What the stages promise are numbers.
LEMMA PromisedIs ==
  ASSUME NEW total \in Nat
  PROVE  \A c \in Stage : Promised(total)[c] \in Int
BY PreserveAssumption DEF Promised, Stage, AtMost

\* A cut to what its stage promises keeps what a request keeps of the conversation.
LEMMA CutShortCarries ==
  ASSUME NEW a, NEW h \in Seq(Message), NEW w, NEW cs \in SUBSET Stage,
         Carried(a, h, w, cs), NEW c \in Stage, NEW v,
         CutShort(a, v, w, Promised(Len(h))[c])
  PROVE  Carried(a, h, v, cs \cup {c})
<1> DEFINE n == Promised(Len(h))[c]
           promised == Promised(Len(h))
<1>1. \A b \in Stage : promised[b] \in Int
  <2>1. Len(h) \in Nat
    OBVIOUS
  <2>2. QED
    BY <2>1, PromisedIs
<1>2. n \in 0..Len(w) - 1
  BY DEF CutShort
<1>3. PICK x : Harmless(a, x, w) /\ CutFrom(v, x, w, n)
  BY DEF CutShort
<1>4. Orderly(a, w)
  BY DEF Carried
<1>5. Orderly(a, v)
  BY <1>2, <1>3, <1>4, CutShortOrder
<1>6. Answered(h) => Answered(v)
  BY <1>2, <1>3, <1>4, CutShortAnswers DEF Carried
<1>7. Paired(h) => Confined(v)
  BY <1>2, <1>3, <1>4, CutShortConfined DEF Carried
<1>8. ASSUME Paired(h) PROVE Latest(h, v, cs \cup {c})
  <2>1. PICK m \in {Len(h)} \cup {promised[b] : b \in cs} :
          /\ m \in 0..Len(h) /\ m <= Len(w)
          /\ \A b \in cs : m <= promised[b]
          /\ Ending(w, m) = Ending(h, m)
    BY <1>8 DEF Carried, Latest
  <2> DEFINE k == IF m < n THEN m ELSE n
  <2>2. w \in Seq(Message) /\ v \in Seq(Message) /\ x \in Seq(Message)
    BY <1>3, <1>4, <1>5 DEF Orderly, Harmless
  <2>3. Len(v) = Len(x) + n /\ Len(x) \in Nat /\ Len(w) \in Nat /\ n \in Nat
    BY <1>2, <1>3, <2>2 DEF CutFrom
  <2>4. Ending(v, n) = Ending(w, n)
    <3> HIDE DEF n
    <3>1. \A i \in Len(x) + 1..Len(v) : v[i] = w[i + (Len(w) - n - Len(x))]
      BY <1>3 DEF CutFrom
    <3>2. n \in 0..Len(v) /\ n \in 0..Len(w)
      BY <1>2, <2>3
    <3>3. /\ Ending(v, n) \in Seq(Message) /\ Len(Ending(v, n)) = n
          /\ \A i \in 1..n : Ending(v, n)[i] = v[Len(v) - n + i]
          /\ Ending(w, n) \in Seq(Message) /\ Len(Ending(w, n)) = n
          /\ \A i \in 1..n : Ending(w, n)[i] = w[Len(w) - n + i]
      BY <2>2, <3>2, EndingIs
    <3>4. ASSUME NEW i \in 1..n PROVE Ending(v, n)[i] = Ending(w, n)[i]
      <4>1. /\ Len(v) - n + i \in Len(x) + 1..Len(v)
            /\ (Len(v) - n + i) + (Len(w) - n - Len(x)) = Len(w) - n + i
        BY <2>3
      <4> DEFINE p == Len(v) - n + i
      <4>2. v[p] = w[p + (Len(w) - n - Len(x))]
        BY <3>1, <4>1
      <4>3. QED
        BY <3>3, <4>1, <4>2
    <3> DEFINE y == Ending(v, n)
               z == Ending(w, n)
    <3>5. /\ y \in Seq(Message) /\ z \in Seq(Message) /\ Len(y) = Len(z)
          /\ \A i \in 1..Len(y) : y[i] = z[i]
      BY <3>3, <3>4
    <3> HIDE DEF y, z
    <3>6. y = z
      BY <3>5
    <3>7. QED
      BY <3>6 DEF y, z
  <2> HIDE DEF n, promised
  <2>5. k \in 0..n /\ k \in 0..m /\ k \in 0..Len(h) /\ k <= Len(v)
    BY <2>1, <2>3
  <2>6. Ending(v, k) = Ending(w, k)
    <3>1. n <= Len(v) /\ n <= Len(w) /\ n \in Nat
      BY <1>2, <2>3
    <3>2. k \in 0..n
      BY <2>5
    <3> HIDE DEF k
    <3>3. QED
      BY <2>2, <2>4, <3>1, <3>2, EndingOfEnding
  <2>7. Ending(w, k) = Ending(h, k)
    <3>1. m \in Nat /\ m <= Len(w) /\ m <= Len(h)
      BY <2>1
    <3> HIDE DEF k
    <3>2. QED
      BY <2>1, <2>2, <2>5, <3>1, EndingOfEnding
  <2>8. \A b \in cs \cup {c} : k <= promised[b]
    <3>1. n = promised[c]
      BY DEF n, promised
    <3>2. QED
      BY <1>1, <2>1, <2>3, <2>5, <3>1
  <2>9. k \in {Len(h)} \cup {promised[b] : b \in cs \cup {c}}
    <3>1. n = promised[c]
      BY DEF n, promised
    <3>2. QED
      BY <2>1, <3>1
  <2> HIDE DEF k
  <2>10. QED
    BY <2>5, <2>6, <2>7, <2>8, <2>9 DEF Latest, promised
<1>9. QED
  BY <1>5, <1>6, <1>7, <1>8 DEF Carried

-------------------------------------------------------------------------------
\* What the context optimizer makes of w over the API of Anthropic when it
\* keeps what is behind split: e messages in front, the last of them the
\* message p of w if an answer in the recent part needs its call; then what is
\* left of the recent messages without the results in lost, whose calls are
\* nowhere in w: g says where each is from.
ContextCut(v, w, split, e, p, lost, g) ==
  /\ v \in Seq(Message) /\ e \in {2, 3} /\ e <= Len(v)
  /\ \A i \in 1..2 : /\ WellMade("anthropic", v[i]) /\ v[i].turn = 0
                     /\ v[i].uses = {} /\ v[i].results = {}
  /\ e = 3 => /\ p \in 1..split /\ v[3] = w[p]
              /\ \E k \in split + 1..Len(w) : w[p].uses \cap w[k].results # {}
  /\ \A j \in 1..split, k \in split + 1..Len(w) :
       w[j].uses \cap w[k].results # {} => e = 3 /\ j = p
  /\ g \in [e + 1..Len(v) -> split + 1..Len(w)]
  /\ \A i, j \in e + 1..Len(v) : i < j => g[i] < g[j]
  /\ \A i \in e + 1..Len(v) :
       /\ WellMade("anthropic", v[i]) /\ v[i].turn = w[g[i]].turn /\ v[i].role = w[g[i]].role
       /\ v[i].uses = w[g[i]].uses /\ v[i].results = w[g[i]].results \ lost
  /\ \A k \in split + 1..Len(w) :
       w[k].uses # {} \/ w[k].results \ lost # {} => \E i \in e + 1..Len(v) : g[i] = k
  /\ \A k \in split + 1..Len(w) : \A id \in w[k].results :
       id \in lost <=> \A j \in 1..Len(w) : id \notin w[j].uses
  /\ (\A k \in split + 1..Len(w) : \A id \in w[k].results :
        \E j \in 1..Len(w) : id \in w[j].uses)
     => /\ Len(v) = e + (Len(w) - split)
        /\ \A i \in e + 1..Len(v) : v[i] = w[split - e + i]

\* The context optimizer keeps the order: what it recovers is older than the rest.
LEMMA ContextCutOrder ==
  ASSUME NEW w, Orderly("anthropic", w), NEW split \in 1..Len(w),
         NEW v, NEW e, NEW p, NEW lost, NEW g, ContextCut(v, w, split, e, p, lost, g)
  PROVE  Orderly("anthropic", v)
<1> DEFINE a == "anthropic"
<1>1. v \in Seq(Message) /\ w \in Seq(Message) /\ Len(w) \in Nat /\ Len(v) \in Nat
      /\ e \in {2, 3}
  BY DEF ContextCut, Orderly
<1>2. \A i \in 1..2 : WellMade(a, v[i]) /\ v[i].turn = 0
  BY DEF ContextCut
<1>3. e = 3 => p \in 1..split /\ v[3] = w[p] /\ w[p].uses # {}
  BY DEF ContextCut
<1>4. \A i \in e + 1..Len(v) :
        /\ WellMade(a, v[i]) /\ v[i].turn = w[g[i]].turn /\ v[i].role = w[g[i]].role
        /\ g[i] \in split + 1..Len(w)
  BY DEF ContextCut
<1>5. \A i, j \in e + 1..Len(v) : i < j => g[i] < g[j]
  BY DEF ContextCut
<1>6. \A i \in 1..Len(v) : i \in 1..2 \/ (i = 3 /\ e = 3) \/ i \in e + 1..Len(v)
  BY <1>1
<1>7. ASSUME NEW i \in 1..Len(w), NEW j \in 1..Len(w), i < j, w[i].role # "system",
             w[i].turn # 0
      PROVE  w[j].turn > w[i].turn
  BY <1>7 DEF Orderly, InOrder
<1>8. ASSUME NEW i \in 2..Len(w) PROVE w[i].role # "system"
  BY DEF Orderly
<1>a. ASSUME e = 3 PROVE WellMade(a, w[p]) /\ w[p].role = "assistant" /\ p \in 1..Len(w)
  <2>1. p \in 1..Len(w) /\ w[p].uses # {}
    BY <1>1, <1>3, <1>a
  <2>2. QED
    BY <2>1 DEF Orderly, WellMade
<1>9. ASSUME NEW i \in 1..Len(v) PROVE WellMade(a, v[i])
  <2>1. CASE i \in 1..2
    BY <1>2, <2>1
  <2>2. CASE i = 3 /\ e = 3
    BY <1>3, <1>a, <2>2
  <2>3. CASE i \in e + 1..Len(v)
    BY <1>4, <2>3
  <2>4. QED
    BY <1>6, <2>1, <2>2, <2>3
<1>10. ASSUME NEW i \in 1..Len(v), NEW j \in 1..Len(v), i < j, v[i].turn # 0
       PROVE  v[j].turn > v[i].turn
  <2>1. i \notin 1..2
    BY <1>2, <1>10
  <2>2. j \in e + 1..Len(v)
    BY <1>1, <1>10, <2>1
  <2>3. /\ g[j] \in split + 1..Len(w) /\ v[j].turn = w[g[j]].turn
        /\ g[j] \in 1..Len(w)
    BY <1>1, <1>4, <2>2
  <2>4. CASE i = 3 /\ e = 3
    <3>1. p < g[j] /\ v[i] = w[p] /\ p \in 1..Len(w) /\ w[p].role # "system"
      BY <1>1, <1>3, <1>a, <2>3, <2>4
    <3>2. w[g[j]].turn > w[p].turn
      BY <1>7, <1>10, <2>3, <3>1
    <3>3. QED
      BY <2>3, <3>1, <3>2
  <2>5. CASE i \in e + 1..Len(v)
    <3>1. /\ g[i] < g[j] /\ g[i] \in split + 1..Len(w) /\ v[i].turn = w[g[i]].turn
      BY <1>4, <1>5, <1>10, <2>2, <2>5
    <3>2. g[i] \in 1..Len(w) /\ w[g[i]].role # "system"
      BY <1>1, <1>8, <3>1
    <3>3. w[g[j]].turn > w[g[i]].turn
      BY <1>7, <1>10, <2>3, <3>1, <3>2
    <3>4. QED
      BY <2>3, <3>1, <3>3
  <2>6. QED
    BY <1>6, <2>1, <2>4, <2>5
<1>11. ASSUME NEW i \in 2..Len(v) PROVE v[i].role # "system"
  <2>1. CASE i \in 1..2
    BY <1>2, <2>1 DEF WellMade
  <2>2. CASE i = 3 /\ e = 3
    BY <1>3, <1>a, <2>2
  <2>3. CASE i \in e + 1..Len(v)
    <3>1. g[i] \in 2..Len(w) /\ v[i].role = w[g[i]].role
      BY <1>1, <1>4, <2>3
    <3>2. QED
      BY <1>8, <3>1
  <2>4. QED
    BY <1>1, <1>6, <2>1, <2>2, <2>3
<1>12. QED
  BY <1>1, <1>9, <1>10, <1>11 DEF Orderly, InOrder

\* The answer to a call is the very next message.
LEMMA AnswerIsNext ==
  ASSUME NEW w, WellTold("anthropic", w), NEW j \in 1..Len(w), NEW id \in w[j].uses,
         NEW i, Behind(w, j, id, i)
  PROVE  i = j + 1
<1>1. w \in Seq(Message) /\ Len(w) \in Nat
  BY DEF WellTold
<1>2. i \in j + 1..Len(w) /\ id \in w[i].results
  BY DEF Behind
<1>3. SUFFICES ASSUME i > j + 1 PROVE FALSE
  BY <1>1, <1>2
<1> DEFINE k == j + 1
<1>4. k \in j + 1..i /\ k \in 1..Len(w) /\ i \in 1..Len(w) /\ k < i /\ j < k
  BY <1>1, <1>2, <1>3
<1> HIDE DEF k
<1>5. PICK id2 : id2 \in w[k].results
  BY <1>4 DEF Behind, Carries
<1>6. w[j].turn <= id2[1]
  BY <1>4, <1>5 DEF WellTold, Follows
<1>7. id2[1] <= id[1] /\ id2[1] # id[1]
  BY <1>2, <1>4, <1>5 DEF WellTold, Follows
<1>8. WellMade("anthropic", w[j]) /\ WellMade("anthropic", w[k])
  BY <1>4 DEF WellTold
<1>9. id[1] = w[j].turn
  BY <1>8 DEF WellMade
<1>10. id2 \in ToolId /\ id \in ToolId
  BY <1>5, <1>8 DEF WellMade, Message
<1>11. id2[1] \in Nat /\ id[1] \in Nat
  BY <1>10, BoundAssumption DEF ToolId
<1>12. QED
  BY <1>6, <1>7, <1>9, <1>11

\* Behind the context optimizer, the call of every result is in an earlier message.
LEMMA ContextCutUses ==
  ASSUME NEW w, Orderly("anthropic", w), NEW split \in 1..Len(w),
         NEW v, NEW e, NEW p, NEW lost, NEW g, ContextCut(v, w, split, e, p, lost, g),
         NEW i \in 1..Len(v), NEW id \in v[i].results
  PROVE  \E j \in 1..i - 1 : id \in v[j].uses
<1>1. v \in Seq(Message) /\ w \in Seq(Message) /\ Len(w) \in Nat /\ Len(v) \in Nat
      /\ e \in {2, 3} /\ e <= Len(v)
  BY DEF ContextCut, Orderly
<1>2. i \in e + 1..Len(v)
  <2>1. i \notin 1..2
    BY DEF ContextCut
  <2>2. ~ (i = 3 /\ e = 3)
    <3>1. ASSUME i = 3, e = 3 PROVE FALSE
      <4>1. p \in 1..Len(w) /\ v[3] = w[p] /\ w[p].uses # {}
        BY <1>1, <3>1 DEF ContextCut
      <4>2. w[p].results = {}
        BY <4>1 DEF Orderly, WellMade
      <4>3. QED
        BY <3>1, <4>1, <4>2
    <3>2. QED
      BY <3>1
  <2>3. QED
    BY <1>1, <2>1, <2>2
<1> DEFINE k == g[i]
<1>3. k \in split + 1..Len(w) /\ id \in w[k].results /\ id \notin lost
  <2>1. g \in [e + 1..Len(v) -> split + 1..Len(w)]
    BY DEF ContextCut
  <2>2. v[i].results = w[g[i]].results \ lost
    BY <1>2 DEF ContextCut
  <2>3. QED
    BY <1>2, <2>1, <2>2
<1> HIDE DEF k
<1>4. PICK j \in 1..Len(w) : id \in w[j].uses
  BY <1>3 DEF ContextCut
<1>5. j < k
  <2>1. k \in 1..Len(w)
    BY <1>1, <1>3
  <2>2. WellMade("anthropic", w[k]) /\ WellMade("anthropic", w[j])
    BY <2>1 DEF Orderly
  <2>3. id[1] = w[j].turn /\ id[1] < w[k].turn /\ id \in ToolId
    BY <1>3, <1>4, <2>2 DEF WellMade, Message
  <2>4. w[j].turn \in Nat /\ w[k].turn \in Nat /\ w[k].turn # 0
    BY <2>2, <2>3, BoundAssumption DEF WellMade, Message, ToolId
  <2>5. w[k].role # "system"
    BY <1>3, <2>2 DEF WellMade
  <2>6. ~ (k < j)
    BY <2>1, <2>3, <2>4, <2>5 DEF Orderly, InOrder
  <2>7. j # k
    BY <2>3, <2>4
  <2>8. QED
    BY <2>1, <2>6, <2>7
<1>6. CASE j <= split
  <2>1. e = 3 /\ j = p
    <3>1. j \in 1..split /\ w[j].uses \cap w[k].results # {}
      BY <1>3, <1>4, <1>6
    <3>2. QED
      BY <1>3, <3>1 DEF ContextCut
  <2>2. v[3] = w[p] /\ 3 \in 1..i - 1
    BY <1>1, <1>2, <2>1 DEF ContextCut
  <2>3. QED
    BY <1>4, <2>1, <2>2
<1>7. CASE j > split
  <2>1. j \in split + 1..Len(w) /\ w[j].uses # {}
    BY <1>1, <1>4, <1>7
  <2>2. PICK h \in e + 1..Len(v) : g[h] = j
    BY <2>1 DEF ContextCut
  <2>3. v[h].uses = w[j].uses
    BY <2>2 DEF ContextCut
  <2>4. h < i
    <3>1. ~ (i < h)
      <4>1. i < h => g[i] < g[h]
        BY <1>2, <2>2 DEF ContextCut
      <4>2. QED
        BY <1>1, <1>3, <1>5, <2>2, <4>1 DEF k
    <3>2. i # h
      BY <1>1, <1>3, <1>5, <2>2 DEF k
    <3>3. QED
      BY <1>1, <1>2, <2>2, <3>1, <3>2
  <2>5. h \in 1..i - 1
    BY <1>1, <1>2, <2>2, <2>4
  <2>6. QED
    BY <1>4, <2>3, <2>5
<1>8. QED
  BY <1>1, <1>6, <1>7

\* The context optimizer keeps the answer of every call it keeps or recovers: a
\* message is recovered only when the cut is right behind it.
LEMMA ContextCutAnswers ==
  ASSUME NEW w, WellTold("anthropic", w), Orderly("anthropic", w), Answered(w),
         NEW split \in 1..Len(w),
         NEW v, NEW e, NEW p, NEW lost, NEW g, ContextCut(v, w, split, e, p, lost, g)
  PROVE  Answered(v)
<1>1. v \in Seq(Message) /\ w \in Seq(Message) /\ Len(w) \in Nat /\ Len(v) \in Nat
      /\ e \in {2, 3} /\ e <= Len(v)
  BY DEF ContextCut, Orderly
<1>2. \A i \in e + 1..Len(v) :
        /\ g[i] \in split + 1..Len(w) /\ g[i] \in 1..Len(w)
        /\ v[i].uses = w[g[i]].uses /\ v[i].results = w[g[i]].results \ lost
  BY <1>1 DEF ContextCut
<1>3. \A i, j \in e + 1..Len(v) : i < j => g[i] < g[j]
  BY DEF ContextCut
\* The next message of a call of w that was kept.
<1>4. ASSUME NEW j \in 1..Len(w), NEW id \in w[j].uses, j + 1 \in split + 1..Len(w),
             id \in w[j + 1].results
      PROVE  \E i \in e + 1..Len(v) : g[i] = j + 1 /\ id \in v[i].results /\ Carries(v[i])
  <2> DEFINE k == j + 1
  <2>1. k \in split + 1..Len(w) /\ id \in w[k].results
    BY <1>4
  <2> HIDE DEF k
  <2>2. id \notin lost
    BY <1>4, <2>1 DEF ContextCut
  <2>3. w[k].results \ lost # {}
    BY <2>1, <2>2
  <2>4. PICK i \in e + 1..Len(v) : g[i] = k
    BY <2>1, <2>3 DEF ContextCut
  <2>5. id \in v[i].results
    BY <1>2, <2>1, <2>2, <2>4
  <2>6. QED
    BY <2>4, <2>5 DEF Carries, k
<1>5. ASSUME NEW j \in 1..Len(w), NEW id \in w[j].uses
      PROVE  j + 1 \in 1..Len(w) /\ id \in w[j + 1].results
  <2>1. PICK i : Behind(w, j, id, i)
    BY AnsweredBehind
  <2>2. i = j + 1
    BY <2>1, AnswerIsNext
  <2>3. i \in j + 1..Len(w) /\ id \in w[i].results
    BY <2>1 DEF Behind
  <2>4. QED
    BY <1>1, <2>2, <2>3
<1>6. ASSUME NEW j \in 1..Len(v), NEW id \in v[j].uses
      PROVE  \E i : Behind(v, j, id, i)
  <2>1. j \notin 1..2
    BY <1>6 DEF ContextCut
  <2>2. CASE j = 3 /\ e = 3
    <3>1. p \in 1..split /\ v[3] = w[p]
          /\ \E k \in split + 1..Len(w) : w[p].uses \cap w[k].results # {}
      BY <2>2 DEF ContextCut
    <3>2. PICK k \in split + 1..Len(w), other \in ToolId :
            other \in w[p].uses /\ other \in w[k].results
      <4>1. PICK k \in split + 1..Len(w) : w[p].uses \cap w[k].results # {}
        BY <3>1
      <4>2. PICK other : other \in w[p].uses /\ other \in w[k].results
        BY <4>1
      <4>3. p \in 1..Len(w)
        BY <1>1, <3>1
      <4>4. w[p] \in Message
        BY <1>1, <4>3
      <4>5. other \in ToolId
        BY <4>2, <4>4 DEF Message
      <4>6. QED
        BY <4>2, <4>5
    <3>3. p \in 1..Len(w) /\ id \in w[p].uses /\ k \in 1..Len(w) /\ p < k
      BY <1>1, <1>6, <2>2, <3>1
    <3>4. p + 1 \in 1..Len(w) /\ id \in w[p + 1].results /\ other \in w[p + 1].results
      BY <1>5, <3>2, <3>3
    <3>5. k = p + 1
      <4> DEFINE q == p + 1
      <4>1. q \in 1..Len(w) /\ other \in w[q].results /\ ~ (k < q)
        BY <1>1, <3>3, <3>4
      <4> HIDE DEF q
      <4>2. ~ (q < k)
        BY <3>2, <3>3, <4>1 DEF WellTold, Follows
      <4>3. q = k
        BY <3>3, <4>1, <4>2
      <4>4. QED
        BY <4>3 DEF q
    <3>6. p = split /\ p + 1 \in split + 1..Len(w)
      BY <1>1, <3>1, <3>3, <3>5
    <3>7. PICK i \in e + 1..Len(v) : g[i] = p + 1 /\ id \in v[i].results /\ Carries(v[i])
      BY <1>4, <3>3, <3>4, <3>6
    <3>8. i = 4
      <4>1. 4 \in e + 1..Len(v) /\ ~ (i < 4)
        BY <1>1, <2>2, <3>7
      <4>2. g[4] \in split + 1..Len(w) /\ (4 < i => g[4] < g[i])
        BY <1>2, <1>3, <4>1
      <4>3. g[i] = split + 1
        BY <3>6, <3>7
      <4>4. QED
        BY <1>1, <3>7, <4>1, <4>2, <4>3
    <3>9. Behind(v, 3, id, 4)
      <4>1. 4 \in 3 + 1..Len(v) /\ id \in v[4].results /\ Carries(v[4])
        BY <1>1, <2>2, <3>7, <3>8
      <4>2. QED
        BY <4>1 DEF Behind
    <3>10. QED
      BY <2>2, <3>9
  <2>3. CASE j \in e + 1..Len(v)
    <3> DEFINE h == g[j]
    <3>1. h \in split + 1..Len(w) /\ h \in 1..Len(w) /\ id \in w[h].uses
      BY <1>2, <1>6, <2>3
    <3> HIDE DEF h
    <3>2. h + 1 \in 1..Len(w) /\ id \in w[h + 1].results
      BY <1>5, <3>1
    <3>3. h + 1 \in split + 1..Len(w)
      BY <1>1, <3>1, <3>2
    <3>4. PICK i \in e + 1..Len(v) : g[i] = h + 1 /\ id \in v[i].results /\ Carries(v[i])
      BY <1>4, <3>1, <3>2, <3>3
    <3>5. i = j + 1
      <4>1. ~ (i < j)
        BY <1>1, <1>3, <2>3, <3>1, <3>4 DEF h
      <4>2. i # j
        BY <1>1, <2>3, <3>1, <3>4 DEF h
      <4>3. ASSUME i > j + 1 PROVE FALSE
        <5> DEFINE m == j + 1
        <5>1. m \in e + 1..Len(v) /\ j < m /\ m < i
          BY <1>1, <2>3, <3>4, <4>3
        <5> HIDE DEF m
        <5>2. g[j] < g[m] /\ g[m] < g[i] /\ g[m] \in 1..Len(w)
          BY <1>2, <1>3, <2>3, <3>4, <5>1
        <5>3. QED
          BY <1>1, <3>1, <3>4, <5>2 DEF h
      <4>4. QED
        BY <1>1, <2>3, <3>4, <4>1, <4>2, <4>3
    <3>6. Behind(v, j, id, i)
      <4>1. i \in j + 1..Len(v)
        BY <1>1, <2>3, <3>4, <3>5
      <4>2. \A k \in j + 1..i : k = i
        BY <1>1, <2>3, <3>4, <3>5
      <4>3. QED
        BY <3>4, <4>1, <4>2 DEF Behind
    <3>7. QED
      BY <3>6
  <2>4. QED
    BY <1>1, <2>1, <2>2, <2>3
<1>7. Orderly("anthropic", v)
  BY ContextCutOrder
<1>8. QED
  BY <1>6, <1>7, AnsweredBehind

\* When nothing is missing, the context optimizer keeps every pair, and the recent
\* messages as they are.
LEMMA ContextCutPairs ==
  ASSUME NEW w, WellTold("anthropic", w), Orderly("anthropic", w), Paired(w),
         NEW split \in 1..Len(w),
         NEW v, NEW e, NEW p, NEW lost, NEW g, ContextCut(v, w, split, e, p, lost, g)
  PROVE  /\ Paired(v)
         /\ Len(v) = e + (Len(w) - split)
         /\ \A i \in e + 1..Len(v) : v[i] = w[split - e + i]
<1>1. v \in Seq(Message) /\ w \in Seq(Message) /\ Len(w) \in Nat /\ Len(v) \in Nat
      /\ e \in {2, 3} /\ e <= Len(v)
  BY DEF ContextCut, Orderly
<1>2. ASSUME NEW k \in split + 1..Len(w), NEW id \in w[k].results
      PROVE  \E j \in 1..Len(w) : id \in w[j].uses
  <2>1. k \in 1..Len(w)
    BY <1>1
  <2>2. Owned(w, k, id)
    BY <2>1 DEF Paired
  <2>3. PICK j \in 1..k - 1 : id \in w[j].uses
    BY <2>2 DEF Owned
  <2>4. j \in 1..Len(w)
    BY <1>1
  <2>5. QED
    BY <2>3, <2>4
<1>3. /\ Len(v) = e + (Len(w) - split)
      /\ \A i \in e + 1..Len(v) : v[i] = w[split - e + i]
  BY <1>2 DEF ContextCut
<1>4. Answered(v)
  BY ContextCutAnswers DEF Paired
<1>5. ASSUME NEW i \in 1..Len(v), NEW id \in v[i].results PROVE Owned(v, i, id)
  <2>1. i \in e + 1..Len(v)
    <3>1. i \notin 1..2
      BY <1>5 DEF ContextCut
    <3>2. ~ (i = 3 /\ e = 3)
      <4>1. ASSUME i = 3, e = 3 PROVE FALSE
        <5>1. p \in 1..Len(w) /\ v[3] = w[p] /\ w[p].uses # {}
          BY <1>1, <4>1 DEF ContextCut
        <5>2. w[p].results = {}
          BY <5>1 DEF Orderly, WellMade
        <5>3. QED
          BY <1>5, <4>1, <5>1, <5>2
      <4>2. QED
        BY <4>1
    <3>3. QED
      BY <1>1, <3>1, <3>2
  <2> DEFINE h == split - e + i
  <2>2. h \in split + 1..Len(w) /\ h \in 1..Len(w) /\ h - split + e = i
    BY <1>1, <1>3, <2>1
  <2>3. id \in w[h].results
    BY <1>3, <1>5, <2>1
  <2> HIDE DEF h
  <2>4. Owned(w, h, id)
    BY <2>2, <2>3 DEF Paired
  <2>5. PICK j \in 1..h - 1 : id \in w[j].uses /\ \A k \in j + 1..h : Carries(w[k])
    BY <2>4 DEF Owned
  <2>a. /\ e \in Int /\ split \in Int /\ h \in Int /\ i \in Int /\ j \in Int
        /\ i = h - split + e /\ j >= 1 /\ j <= h - 1 /\ i <= Len(v) /\ Len(v) \in Int
    BY <1>1, <2>1, <2>2
  <2>6. ASSUME NEW k \in e + 1..i, k > j - split + e PROVE Carries(v[k])
    <3> DEFINE q == split - e + k
    <3>1. k \in e + 1..Len(v) /\ q \in j + 1..h
      BY <2>a, <2>6
    <3>2. v[k] = w[q]
      BY <1>3, <3>1
    <3>3. QED
      BY <2>5, <3>1, <3>2
  <2>7. CASE j <= split
    <3>1. e = 3 /\ j = p
      <4>1. j \in 1..split /\ w[j].uses \cap w[h].results # {}
        BY <2>3, <2>5, <2>7
      <4>2. QED
        BY <2>2, <4>1 DEF ContextCut
    <3>2. v[3] = w[p] /\ 3 \in 1..i - 1
      BY <1>1, <2>1, <3>1 DEF ContextCut
    <3>3. \A k \in 3 + 1..i : k \in e + 1..i /\ k > j - split + e
      BY <1>1, <2>1, <2>7, <3>1
    <3>4. QED
      BY <2>5, <2>6, <3>1, <3>2, <3>3 DEF Owned
  <2>8. CASE j > split
    <3> DEFINE q == j - split + e
    <3>1. q \in e + 1..Len(v) /\ q \in 1..i - 1 /\ split - e + q = j
      BY <1>1, <2>a, <2>8
    <3>2. v[q] = w[j]
      BY <1>3, <3>1
    <3>3. \A k \in q + 1..i : k \in e + 1..i /\ k > j - split + e
      BY <1>1, <2>1, <3>1
    <3> HIDE DEF q
    <3>4. QED
      BY <2>5, <2>6, <3>1, <3>2, <3>3 DEF Owned
  <2>9. QED
    BY <1>1, <2>2, <2>7, <2>8
<1>6. QED
  BY <1>3, <1>4, <1>5 DEF Paired

\* Nothing can be put in order in one way.
LEMMA NoneToOrder ==
  SetToSeqs({}) = {<<>>}
<1>1. Cardinality({}) = 0
  BY FS_EmptySet
<1>2. ASSUME NEW f \in SetToSeqs({}) PROVE f = <<>>
  <2>1. f \in [1..0 -> {}]
    BY <1>1 DEF SetToSeqs
  <2>2. f \in Seq({}) /\ Len(f) = 0
    BY <2>1
  <2>3. QED
    BY <2>2
<1>3. <<>> \in SetToSeqs({})
  <2>1. <<>> \in [1..0 -> {}]
    OBVIOUS
  <2> DEFINE f == <<>>
  <2>2. \A i, j \in 1..0 : i # j => f[i] # f[j]
    OBVIOUS
  <2>3. QED
    BY <1>1, <2>1, <2>2 DEF SetToSeqs
<1>4. QED
  BY <1>2, <1>3

\* A function on 1..1 is a sequence of one.
LEMMA OneIsList ==
  ASSUME NEW S, NEW f \in [1..1 -> S]
  PROVE  f \in Seq(S) /\ Len(f) = 1
<1>1. f = [i \in 1..1 |-> f[i]] /\ \A i \in 1..1 : f[i] \in S
  OBVIOUS
<1>2. QED
  BY <1>1

\* One element can be put in order in one way.
LEMMA OneToOrder ==
  ASSUME NEW S, NEW m \in S, NEW f \in SetToSeqs({m})
  PROVE  f \in Seq(S) /\ Len(f) = 1 /\ f[1] = m
<1>1. Cardinality({m}) = 1
  BY FS_Singleton
<1>2. f \in [1..1 -> {m}]
  BY <1>1 DEF SetToSeqs
<1>3. f \in [1..1 -> S] /\ f[1] = m
  BY <1>2
<1>4. f \in Seq(S) /\ Len(f) = 1
  BY <1>3, OneIsList
<1>5. QED
  BY <1>3, <1>4

\* Over the API of Anthropic calls and results are in blocks.
LEMMA ToolsOfBlocks ==
  ASSUME NEW m, WellMade("anthropic", m)
  PROVE  tool_uses(m) = m.uses /\ tool_results(m) = m.results
BY DEF WellMade, tool_uses, tool_results

\* Over the API of OpenAI no block is a call or a result.
LEMMA NoToolBlocks ==
  ASSUME NEW m, WellMade("openai", m)
  PROVE  tool_uses(m) = {} /\ tool_results(m) = {}
BY DEF WellMade, tool_uses, tool_results

\* x is recent without the results in ids.
Stripped(x, recent, ids) ==
  /\ x \in Seq(Message) /\ Len(x) = Len(recent)
  /\ \A i \in 1..Len(recent) :
       /\ x[i].turn = recent[i].turn /\ x[i].role = recent[i].role
       /\ x[i].content = recent[i].content /\ x[i].text = recent[i].text
       /\ x[i].uses = recent[i].uses
       /\ x[i].results = IF recent[i].content = "blocks" THEN recent[i].results \ ids
                         ELSE recent[i].results

\* What Without does.
LEMMA WithoutIs ==
  ASSUME NEW a, NEW recent \in Seq(Message), \A i \in 1..Len(recent) : WellMade(a, recent[i]),
         NEW ids
  PROVE  Stripped(Without(recent, ids), recent, ids)
<1> DEFINE n(i) == IF recent[i].content = "blocks"
                   THEN [recent[i] EXCEPT !.results = @ \ ids] ELSE recent[i]
           w == Without(recent, ids)
<1>1. w = [i \in 1..Len(recent) |-> n(i)] /\ Len(recent) \in Nat
  BY DEF Without
<1>2. ASSUME NEW i \in 1..Len(recent)
      PROVE  /\ n(i) \in Message /\ n(i).turn = recent[i].turn /\ n(i).role = recent[i].role
             /\ n(i).content = recent[i].content /\ n(i).text = recent[i].text
             /\ n(i).uses = recent[i].uses
             /\ n(i).results = IF recent[i].content = "blocks" THEN recent[i].results \ ids
                               ELSE recent[i].results
  <2> DEFINE m == recent[i]
             left == m.results \ ids
  <2>1. m \in Message
    OBVIOUS
  <2>2. n(i) = IF m.content = "blocks" THEN [m EXCEPT !.results = left] ELSE m
    BY DEF n
  <2>3. left \in SUBSET ToolId
    BY <2>1 DEF Message
  <2>4. CASE m.content = "blocks"
    <3>1. n(i) = [m EXCEPT !.results = left]
      BY <2>2, <2>4
    <3> HIDE DEF n, m, left
    <3>2. /\ n(i) \in Message /\ n(i).turn = m.turn /\ n(i).role = m.role
          /\ n(i).content = m.content /\ n(i).text = m.text
          /\ n(i).uses = m.uses /\ n(i).results = left
      BY <2>1, <2>3, <3>1 DEF Message
    <3>3. QED
      BY <2>4, <3>2 DEF m, left
  <2>5. CASE m.content # "blocks"
    <3>1. n(i) = m
      BY <2>2, <2>5
    <3> HIDE DEF n
    <3>2. QED
      BY <2>1, <2>5, <3>1
  <2>6. QED
    BY <2>4, <2>5
<1> HIDE DEF n
<1>3. w \in Seq(Message) /\ Len(w) = Len(recent) /\ \A i \in 1..Len(recent) : w[i] = n(i)
  <2>1. \A i \in 1..Len(recent) : n(i) \in Message
    BY <1>2
  <2> HIDE DEF w
  <2>2. QED
    BY <1>1, <2>1
<1> HIDE DEF w
<1>4. QED
  BY <1>2, <1>3 DEF w, Stripped

\* When no result is to be dropped, the messages stay as they are.
LEMMA RepairsNothing ==
  ASSUME NEW a, NEW recent \in Seq(Message), \A i \in 1..Len(recent) : WellMade(a, recent[i])
  PROVE  NotEmptied(Without(recent, {})) = recent
<1> DEFINE w == Without(recent, {})
<1>1. /\ w \in Seq(Message) /\ Len(w) = Len(recent)
      /\ \A i \in 1..Len(recent) :
           /\ w[i].turn = recent[i].turn /\ w[i].role = recent[i].role
           /\ w[i].content = recent[i].content /\ w[i].text = recent[i].text
           /\ w[i].uses = recent[i].uses
           /\ w[i].results = IF recent[i].content = "blocks" THEN recent[i].results \ {}
                             ELSE recent[i].results
  <2>1. Stripped(w, recent, {})
    BY WithoutIs
  <2> HIDE DEF w
  <2>2. QED
    BY <2>1 DEF Stripped
<1> HIDE DEF w
<1>2. ASSUME NEW i \in 1..Len(recent) PROVE w[i] = recent[i]
  <2> DEFINE x == w[i]
             y == recent[i]
  <2>1. x \in Message /\ y \in Message
    BY <1>1
  <2>2. x.results = y.results
    BY <1>1
  <2>3. /\ x.turn = y.turn /\ x.role = y.role /\ x.content = y.content
        /\ x.text = y.text /\ x.uses = y.uses
    BY <1>1
  <2> HIDE DEF x, y
  <2>a. x = [role |-> x.role, content |-> x.content, text |-> x.text, uses |-> x.uses,
             results |-> x.results, turn |-> x.turn]
    BY <2>1 DEF Message
  <2>b. y = [role |-> y.role, content |-> y.content, text |-> y.text, uses |-> y.uses,
             results |-> y.results, turn |-> y.turn]
    BY <2>1 DEF Message
  <2>4. x = y
    BY <2>2, <2>3, <2>a, <2>b
  <2>5. QED
    BY <2>4 DEF x, y
<1>3. w = recent
  BY <1>1, <1>2
<1> DEFINE K == {m \in Range(recent) : m.content = "string" \/ ~IsEmpty(m)}
<1>4. ASSUME NEW k \in 1..Len(recent) PROVE recent[k] \in K <=> k > 0
  <2>1. recent[k] \in Range(recent)
    BY DEF Range
  <2>2. ~IsEmpty(recent[k])
    BY DEF WellMade, IsEmpty
  <2>3. QED
    BY <2>1, <2>2
<1>5. NotEmptied(recent) = Only(recent, K)
  BY DEF NotEmptied
<1> HIDE DEF K
<1>6. Only(recent, K) = SubSeq(recent, 0 + 1, Len(recent))
  <2>1. 0 \in 0..Len(recent)
    OBVIOUS
  <2>2. QED
    BY <1>4, <2>1, OnlyTheEnd
<1>7. SubSeq(recent, 0 + 1, Len(recent)) = recent
  OBVIOUS
<1>8. QED
  BY <1>3, <1>5, <1>6, <1>7 DEF w

\* The two parts of w.
Halves(older, recent, w, split) ==
  /\ w \in Seq(Message) /\ split \in 1..Len(w) - 1
  /\ older \in Seq(Message) /\ Len(older) = split /\ \A k \in 1..split : older[k] = w[k]
  /\ recent \in Seq(Message) /\ Len(recent) = Len(w) - split
  /\ \A k \in 1..Len(w) - split : recent[k] = w[split + k]

\* The context optimizer splits the list, and keeps what it promises.
LEMMA ContextStep ==
  ASSUME ContextOptimize, working \in Seq(Message)
  PROVE  LET n == Promised(Len(working))["context"]
             split == Len(working) - n
             older == SubSeq(working, 1, split)
             recent == SubSeq(working, split + 1, Len(working))
         IN  /\ n \in 1..Len(working) - 1 /\ Len(working) >= 3
             /\ Halves(older, recent, working, split)
             /\ recent = Ending(working, n)
             /\ \E recovered \in Recovered(older, Orphaned(recent)) :
                  working' = SummaryAndAck \o (recovered \o RepairedRecent(older, recent))
<1> DEFINE n == Promised(Len(working))["context"]
           split == Len(working) - n
           older == SubSeq(working, 1, split)
           recent == SubSeq(working, split + 1, Len(working))
<1>1. Len(working) \in Nat /\ Len(working) >= 3
  BY PreserveAssumption DEF ContextOptimize
<1>2. n = PreserveCount(Len(working))
  BY DEF Promised, PreserveCount
<1>3. n \in 1..Len(working) - 1
  BY <1>1, <1>2, PreserveAssumption DEF PreserveCount, AtMost
<1>4. \E recovered \in Recovered(older, Orphaned(recent)) :
        working' = SummaryAndAck \o (recovered \o RepairedRecent(older, recent))
  BY <1>2 DEF ContextOptimize, Cut, RecoveredInFront
<1> HIDE DEF n
<1>5. Halves(older, recent, working, split)
  BY <1>1, <1>3 DEF Halves
<1>6. recent = Ending(working, n)
  BY DEF Ending
<1>7. QED
  BY <1>1, <1>3, <1>4, <1>5, <1>6 DEF n

\* Without blocks, the context optimizer only cuts.
LEMMA ContextWithoutBlocks ==
  ASSUME Orderly("openai", working), ContextOptimize
  PROVE  CutShort("openai", working', working, Promised(Len(working))["context"])
<1> DEFINE a == "openai"
           w == working
           n == Promised(Len(w))["context"]
           split == Len(w) - n
           older == SubSeq(w, 1, split)
           recent == SubSeq(w, split + 1, Len(w))
<1>1. w \in Seq(Message) /\ Len(w) \in Nat
  BY DEF Orderly
<1>2. /\ n \in 1..Len(w) - 1
      /\ Halves(older, recent, w, split)
      /\ recent = Ending(w, n)
      /\ \E recovered \in Recovered(older, Orphaned(recent)) :
           w' = SummaryAndAck \o (recovered \o RepairedRecent(older, recent))
  BY <1>1, ContextStep
<1> HIDE DEF n, older, recent
<1>3. PICK recovered \in Recovered(older, Orphaned(recent)) :
        w' = SummaryAndAck \o (recovered \o RepairedRecent(older, recent))
  BY <1>2
<1>4. recent \in Seq(Message) /\ older \in Seq(Message)
  BY <1>2 DEF Halves
<1>5. ASSUME NEW i \in 1..Len(recent) PROVE WellMade(a, recent[i])
  <2>0. /\ split \in 1..Len(w) - 1 /\ Len(recent) = Len(w) - split
        /\ \A k \in 1..Len(w) - split : recent[k] = w[split + k]
    BY <1>2 DEF Halves
  <2> HIDE DEF split
  <2>1. split + i \in 1..Len(w) /\ recent[i] = w[split + i]
    BY <1>1, <2>0
  <2>2. QED
    BY <2>1 DEF Orderly
<1>6. ASSUME NEW i \in 1..Len(older) PROVE WellMade(a, older[i])
  <2>1. i \in 1..Len(w) /\ older[i] = w[i]
    <3> HIDE DEF split
    <3>1. Len(older) = split /\ split \in 1..Len(w) - 1 /\ \A k \in 1..split : older[k] = w[k]
      BY <1>2 DEF Halves
    <3>2. QED
      BY <1>1, <3>1
  <2>2. QED
    BY <2>1 DEF Orderly
<1>7. \A m \in Range(recent) : tool_uses(m) = {} /\ tool_results(m) = {}
  BY <1>4, <1>5, NoToolBlocks DEF Range
<1>8. Orphaned(recent) = {}
  BY <1>7 DEF Orphaned
<1>9. owners(older, {}) = {}
  BY DEF owners
<1>10. still_orphaned(older, recent) = {}
  BY <1>8 DEF still_orphaned
<1>11. RepairedRecent(older, recent) = recent
  BY <1>4, <1>5, <1>10, RepairsNothing DEF RepairedRecent
<1>12. recovered = <<>>
  BY <1>3, <1>8, <1>9, NoneToOrder DEF Recovered
<1>13. w' = SummaryAndAck \o Ending(w, n)
  <2>1. <<>> \o recent = recent
    BY <1>4, ConcatEmptySeq
  <2>2. QED
    BY <1>2, <1>3, <1>11, <1>12, <2>1
<1>14. Harmless(a, SummaryAndAck, w)
  BY SummaryHarmless
<1>15. CutFrom(w', SummaryAndAck, w, n)
  <2> DEFINE x == SummaryAndAck
  <2>1. x \in Seq(Message) /\ n \in 0..Len(w)
    <3>1. n \in 0..Len(w)
      BY <1>1, <1>2
    <3>2. QED
      BY <3>1, SummaryIs
  <2> HIDE DEF x
  <2>2. w' = x \o Ending(w, n)
    BY <1>13 DEF x
  <2>3. CutFrom(w', x, w, n)
    BY <1>1, <2>1, <2>2, CutIs DEF CutFrom
  <2>4. QED
    BY <2>3 DEF x
<1>16. n \in 0..Len(w) - 1
  BY <1>1, <1>2
<1>17. CutShort(a, w', w, n)
  BY <1>14, <1>15, <1>16 DEF CutShort
<1>18. QED
  BY <1>17 DEF n

\* The calls the recent part lacks.
LEMMA OrphansAre ==
  ASSUME NEW older, NEW recent, NEW w, NEW split, Halves(older, recent, w, split),
         Orderly("anthropic", w), NEW id
  PROVE  id \in Orphaned(recent) <=>
           /\ \E k \in split + 1..Len(w) : id \in w[k].results
           /\ \A k \in split + 1..Len(w) : id \notin w[k].uses
<1>1. /\ w \in Seq(Message) /\ split \in 1..Len(w) - 1 /\ Len(w) \in Nat
      /\ recent \in Seq(Message) /\ Len(recent) = Len(w) - split
      /\ \A i \in 1..Len(recent) : recent[i] = w[split + i]
  BY DEF Halves
<1>2. ASSUME NEW k \in split + 1..Len(w)
      PROVE  /\ w[k] \in Range(recent)
             /\ tool_uses(w[k]) = w[k].uses /\ tool_results(w[k]) = w[k].results
  <2> DEFINE i == k - split
  <2>1. i \in 1..Len(recent) /\ split + i = k /\ k \in 1..Len(w)
    BY <1>1
  <2> HIDE DEF i
  <2>2. recent[i] = w[k]
    BY <1>1, <2>1
  <2>3. WellMade("anthropic", w[k])
    BY <2>1 DEF Orderly
  <2>4. QED
    BY <1>1, <2>1, <2>2, <2>3, ToolsOfBlocks DEF Range
<1>3. ASSUME NEW m \in Range(recent)
      PROVE  \E k \in split + 1..Len(w) : m = w[k]
  <2>1. PICK i \in 1..Len(recent) : m = recent[i]
    BY <1>1 DEF Range
  <2>2. split + i \in split + 1..Len(w)
    BY <1>1
  <2>3. QED
    BY <1>1, <2>1, <2>2
<1>4. id \in UNION {tool_results(m) : m \in Range(recent)}
        <=> \E k \in split + 1..Len(w) : id \in w[k].results
  <2>1. ASSUME NEW m \in Range(recent), id \in tool_results(m)
        PROVE  \E k \in split + 1..Len(w) : id \in w[k].results
    BY <1>2, <1>3, <2>1
  <2>2. ASSUME NEW k \in split + 1..Len(w), id \in w[k].results
        PROVE  \E m \in Range(recent) : id \in tool_results(m)
    BY <1>2, <2>2
  <2>3. QED
    BY <2>1, <2>2
<1>5. id \in UNION {tool_uses(m) : m \in Range(recent)}
        <=> \E k \in split + 1..Len(w) : id \in w[k].uses
  <2>1. ASSUME NEW m \in Range(recent), id \in tool_uses(m)
        PROVE  \E k \in split + 1..Len(w) : id \in w[k].uses
    BY <1>2, <1>3, <2>1
  <2>2. ASSUME NEW k \in split + 1..Len(w), id \in w[k].uses
        PROVE  \E m \in Range(recent) : id \in tool_uses(m)
    BY <1>2, <2>2
  <2>3. QED
    BY <2>1, <2>2
<1>6. QED
  BY <1>4, <1>5 DEF Orphaned

\* Who is recovered.
LEMMA OwnersAre ==
  ASSUME NEW older, NEW recent, NEW w, NEW split, Halves(older, recent, w, split),
         Orderly("anthropic", w)
  PROVE  /\ \A m \in owners(older, Orphaned(recent)) : \E j \in 1..split :
              /\ m = w[j]
              /\ \E k \in split + 1..Len(w) : w[j].uses \cap w[k].results # {}
         /\ \A j \in 1..split, k \in split + 1..Len(w) :
              w[j].uses \cap w[k].results # {} => w[j] \in owners(older, Orphaned(recent))
<1>1. /\ w \in Seq(Message) /\ split \in 1..Len(w) - 1 /\ Len(w) \in Nat
      /\ older \in Seq(Message) /\ Len(older) = split
      /\ \A i \in 1..split : older[i] = w[i]
  BY DEF Halves
<1>2. ASSUME NEW j \in 1..split
      PROVE  j \in 1..Len(w) /\ WellMade("anthropic", w[j]) /\ tool_uses(w[j]) = w[j].uses
  <2>1. j \in 1..Len(w)
    BY <1>1
  <2>2. WellMade("anthropic", w[j])
    BY <2>1 DEF Orderly
  <2>3. QED
    BY <2>1, <2>2, ToolsOfBlocks
<1>3. ASSUME NEW m \in owners(older, Orphaned(recent))
      PROVE  \E j \in 1..split :
               /\ m = w[j]
               /\ \E k \in split + 1..Len(w) : w[j].uses \cap w[k].results # {}
  <2>1. m \in Range(older) /\ tool_uses(m) \cap Orphaned(recent) # {}
    BY DEF owners
  <2>2. PICK j \in 1..split : m = w[j]
    BY <1>1, <2>1 DEF Range
  <2>3. PICK id : id \in w[j].uses /\ id \in Orphaned(recent)
    BY <1>2, <2>1, <2>2
  <2>4. \E k \in split + 1..Len(w) : id \in w[k].results
    BY <2>3, OrphansAre
  <2>5. QED
    BY <2>2, <2>3, <2>4
<1>4. ASSUME NEW j \in 1..split, NEW k \in split + 1..Len(w), w[j].uses \cap w[k].results # {}
      PROVE  w[j] \in owners(older, Orphaned(recent))
  <2>1. PICK id : id \in w[j].uses /\ id \in w[k].results
    BY <1>4
  <2>2. ASSUME NEW h \in split + 1..Len(w), id \in w[h].uses PROVE FALSE
    <3>1. h \in 1..Len(w) /\ h # j /\ j \in 1..Len(w)
      BY <1>1
    <3>2. QED
      BY <2>1, <2>2, <3>1, UsedOnce
  <2>3. id \in Orphaned(recent)
    BY <2>1, <2>2, OrphansAre
  <2>4. w[j].role = "assistant"
    BY <1>2, <2>1 DEF WellMade
  <2>5. w[j] \in Range(older)
    BY <1>1 DEF Range
  <2>6. QED
    BY <1>2, <2>1, <2>3, <2>4, <2>5 DEF owners
<1>5. QED
  BY <1>3, <1>4

\* At most one message is recovered.
LEMMA OneOwner ==
  ASSUME NEW w, WellTold("anthropic", w), NEW split \in 1..Len(w) - 1,
         NEW i \in 1..split, NEW j \in 1..split,
         \E k \in split + 1..Len(w) : w[i].uses \cap w[k].results # {},
         \E k \in split + 1..Len(w) : w[j].uses \cap w[k].results # {}
  PROVE  i = j
<1>1. w \in Seq(Message) /\ Len(w) \in Nat
  BY DEF WellTold
<1>2. ASSUME NEW p \in 1..split, NEW q \in 1..split, p < q,
             NEW k \in split + 1..Len(w), w[p].uses \cap w[k].results # {}, w[q].uses # {}
      PROVE  FALSE
  <2>1. p \in 1..Len(w) /\ q \in 1..Len(w) /\ k \in 1..Len(w) /\ q < k
    BY <1>1
  <2>2. PICK id : id \in w[p].uses /\ id \in w[k].results
    BY <1>2
  <2>3. w[q].turn <= id[1]
    BY <1>2, <2>1, <2>2 DEF WellTold, Follows
  <2>4. w[p].turn < w[q].turn
    BY <1>2, <2>1 DEF WellTold, Follows
  <2>5. WellMade("anthropic", w[p]) /\ WellMade("anthropic", w[q])
    BY <2>1 DEF WellTold
  <2>6. id[1] = w[p].turn /\ w[p].turn \in Int /\ w[q].turn \in Int
    BY <2>2, <2>5, BoundAssumption DEF WellMade, Message
  <2> DEFINE x == w[p].turn
             y == w[q].turn
  <2>7. x \in Int /\ y \in Int /\ y <= x /\ x < y
    BY <2>3, <2>4, <2>6
  <2> HIDE DEF x, y
  <2>8. QED
    BY <2>7
<1>3. w[i].uses # {} /\ w[j].uses # {}
  OBVIOUS
<1>4. ~ (i < j) /\ ~ (j < i)
  BY <1>2, <1>3
<1>5. QED
  BY <1>4

\* What is recovered: the owner of an answer behind split, if there is one.
InFront(recovered, w, split, e, p) ==
  /\ recovered \in Seq(Message) /\ Len(recovered) = e - 2
  /\ e = 3 => /\ recovered[1] = w[p]
              /\ \E k \in split + 1..Len(w) : w[p].uses \cap w[k].results # {}
  /\ \A j \in 1..split, k \in split + 1..Len(w) :
       w[j].uses \cap w[k].results # {} => e = 3 /\ j = p

\* What is recovered, in front.
LEMMA RecoveredIs ==
  ASSUME NEW older, NEW recent, NEW w, NEW split, Halves(older, recent, w, split),
         WellTold("anthropic", w), Orderly("anthropic", w),
         NEW recovered \in Recovered(older, Orphaned(recent))
  PROVE  \E e \in {2, 3}, p \in 1..split : InFront(recovered, w, split, e, p)
<1> DEFINE own == owners(older, Orphaned(recent))
<1>1. w \in Seq(Message) /\ split \in 1..Len(w) - 1 /\ Len(w) \in Nat
  BY DEF Halves
<1>2. /\ \A m \in own : \E j \in 1..split :
           /\ m = w[j]
           /\ \E k \in split + 1..Len(w) : w[j].uses \cap w[k].results # {}
      /\ \A j \in 1..split, k \in split + 1..Len(w) :
           w[j].uses \cap w[k].results # {} => w[j] \in own
  BY OwnersAre
<1>3. recovered \in SetToSeqs(own)
  BY DEF Recovered
<1> HIDE DEF own
<1>4. CASE own = {}
  <2>1. recovered = <<>>
    BY <1>3, <1>4, NoneToOrder
  <2>2. recovered \in Seq(Message) /\ Len(recovered) = 2 - 2
    BY <2>1
  <2>3. \A j \in 1..split, k \in split + 1..Len(w) : w[j].uses \cap w[k].results = {}
    BY <1>2, <1>4
  <2>4. 1 \in 1..split
    BY <1>1
  <2>5. InFront(recovered, w, split, 2, 1)
    BY <2>2, <2>3 DEF InFront
  <2>6. QED
    BY <2>4, <2>5
<1>5. CASE own # {}
  <2>1. PICK m : m \in own
    BY <1>5
  <2>2. PICK p \in 1..split :
          /\ m = w[p]
          /\ \E k \in split + 1..Len(w) : w[p].uses \cap w[k].results # {}
    BY <1>2, <2>1
  <2>3. ASSUME NEW j \in 1..split,
               \E k \in split + 1..Len(w) : w[j].uses \cap w[k].results # {}
        PROVE  j = p
    BY <1>1, <2>2, <2>3, OneOwner
  <2>4. own = {w[p]}
    BY <1>2, <2>1, <2>2, <2>3
  <2>5. w[p] \in Message
    BY <1>1
  <2>6. recovered \in Seq(Message) /\ Len(recovered) = 1 /\ recovered[1] = w[p]
    BY <1>3, <2>4, <2>5, OneToOrder
  <2>7. InFront(recovered, w, split, 3, p)
    BY <2>2, <2>3, <2>6 DEF InFront
  <2>8. QED
    BY <2>7
<1>6. QED
  BY <1>4, <1>5

\* Whose calls are nowhere.
LEMMA LostAre ==
  ASSUME NEW older, NEW recent, NEW w, NEW split, Halves(older, recent, w, split),
         Orderly("anthropic", w), NEW k \in split + 1..Len(w), NEW id \in w[k].results
  PROVE  id \in still_orphaned(older, recent) <=> \A j \in 1..Len(w) : id \notin w[j].uses
<1> DEFINE own == owners(older, Orphaned(recent))
<1>1. w \in Seq(Message) /\ split \in 1..Len(w) - 1 /\ Len(w) \in Nat
  BY DEF Halves
<1>2. /\ \A m \in own : \E j \in 1..split : m = w[j]
      /\ \A j \in 1..split, h \in split + 1..Len(w) :
           w[j].uses \cap w[h].results # {} => w[j] \in own
  BY OwnersAre
<1>3. id \in still_orphaned(older, recent) <=>
        id \in Orphaned(recent) /\ \A m \in own : id \notin tool_uses(m)
  BY DEF still_orphaned
<1>4. id \in Orphaned(recent) <=> \A j \in split + 1..Len(w) : id \notin w[j].uses
  BY OrphansAre
<1> HIDE DEF own
<1>5. ASSUME NEW j \in 1..split
      PROVE  tool_uses(w[j]) = w[j].uses /\ j \in 1..Len(w)
  <2>1. j \in 1..Len(w)
    BY <1>1
  <2>2. WellMade("anthropic", w[j])
    BY <2>1 DEF Orderly
  <2>3. QED
    BY <2>1, <2>2, ToolsOfBlocks
<1>6. (\A m \in own : id \notin tool_uses(m)) <=> \A j \in 1..split : id \notin w[j].uses
  <2>1. ASSUME NEW m \in own, id \in tool_uses(m) PROVE \E j \in 1..split : id \in w[j].uses
    BY <1>2, <1>5, <2>1
  <2>2. ASSUME NEW j \in 1..split, id \in w[j].uses
        PROVE  \E m \in own : id \in tool_uses(m)
    <3>1. w[j] \in own
      BY <1>2, <2>2
    <3>2. QED
      BY <1>5, <2>2, <3>1
  <2>3. QED
    BY <2>1, <2>2
<1>7. \A j \in 1..Len(w) : j \in 1..split \/ j \in split + 1..Len(w)
  BY <1>1
<1>8. \A j \in split + 1..Len(w) : j \in 1..Len(w)
  BY <1>1
<1>9. QED
  BY <1>3, <1>4, <1>5, <1>6, <1>7, <1>8

\* r is what is left of the messages of w behind split without the results in
\* lost: f says where each is from.
LeftOf(r, f, w, split, lost) ==
  /\ f \in [1..Len(r) -> split + 1..Len(w)]
  /\ \A i, j \in 1..Len(r) : i < j => f[i] < f[j]
  /\ \A i \in 1..Len(r) :
       /\ WellMade("anthropic", r[i])
       /\ r[i].turn = w[f[i]].turn /\ r[i].role = w[f[i]].role
       /\ r[i].uses = w[f[i]].uses /\ r[i].results = w[f[i]].results \ lost
  /\ \A k \in split + 1..Len(w) :
       w[k].uses # {} \/ w[k].results \ lost # {} => \E i \in 1..Len(r) : f[i] = k

\* What is left of the recent part.
LEMMA RepairedIs ==
  ASSUME NEW older, NEW recent, NEW w, NEW split, Halves(older, recent, w, split),
         Orderly("anthropic", w), NEW lost, lost = still_orphaned(older, recent)
  PROVE  /\ RepairedRecent(older, recent) \in Seq(Message)
         /\ \E f : LeftOf(RepairedRecent(older, recent), f, w, split, lost)
<1> DEFINE r == RepairedRecent(older, recent)
           a == "anthropic"
           x == Without(recent, lost)
           K == {m \in Range(x) : m.content = "string" \/ ~IsEmpty(m)}
<1>1. /\ w \in Seq(Message) /\ split \in 1..Len(w) - 1 /\ Len(w) \in Nat
      /\ recent \in Seq(Message) /\ Len(recent) = Len(w) - split
      /\ \A i \in 1..Len(recent) : recent[i] = w[split + i]
  BY DEF Halves
<1>2. ASSUME NEW i \in 1..Len(recent)
      PROVE  split + i \in split + 1..Len(w) /\ WellMade(a, recent[i])
  <2>1. split + i \in split + 1..Len(w) /\ split + i \in 1..Len(w)
    BY <1>1
  <2>2. WellMade(a, w[split + i])
    BY <2>1 DEF Orderly
  <2>3. QED
    BY <1>1, <2>1, <2>2
<1>3. r = Only(x, K)
  BY DEF RepairedRecent, NotEmptied
<1>4. /\ x \in Seq(Message) /\ Len(x) = Len(recent)
      /\ \A i \in 1..Len(recent) :
           /\ x[i].turn = recent[i].turn /\ x[i].role = recent[i].role
           /\ x[i].content = recent[i].content /\ x[i].text = recent[i].text
           /\ x[i].uses = recent[i].uses
           /\ x[i].results = IF recent[i].content = "blocks" THEN recent[i].results \ lost
                             ELSE recent[i].results
  <2>1. \A i \in 1..Len(recent) : WellMade(a, recent[i])
    BY <1>2
  <2>2. Stripped(x, recent, lost)
    BY <1>1, <2>1, WithoutIs
  <2> HIDE DEF x
  <2>3. QED
    BY <2>2 DEF Stripped
<1> HIDE DEF x
<1>5. ASSUME NEW i \in 1..Len(recent) PROVE x[i].results = recent[i].results \ lost
  <2>1. recent[i].content # "blocks" => recent[i].results = {}
    BY <1>2 DEF WellMade
  <2>2. QED
    BY <1>4, <2>1
<1>6. ASSUME NEW i \in 1..Len(recent) PROVE x[i] \in K <=> x[i].content = "string" \/ ~IsEmpty(x[i])
  BY <1>4 DEF Range
<1>7. ASSUME NEW i \in 1..Len(recent), x[i] \in K PROVE WellMade(a, x[i])
  <2> DEFINE m == x[i]
             n == recent[i]
  <2>1. /\ WellMade(a, n) /\ m \in Message /\ m.turn = n.turn /\ m.role = n.role
        /\ m.content = n.content /\ m.text = n.text /\ m.uses = n.uses
        /\ m.results = n.results \ lost
    <3>1. WellMade(a, n)
      BY <1>2
    <3>2. /\ m.turn = n.turn /\ m.role = n.role
          /\ m.content = n.content /\ m.text = n.text /\ m.uses = n.uses
      BY <1>4
    <3>3. m \in Message
      BY <1>4
    <3>4. m.results = n.results \ lost
      BY <1>5
    <3>5. QED
      BY <3>1, <3>2, <3>3, <3>4
  <2>2. m.content = "string" \/ m.text \/ m.uses # {} \/ m.results # {}
    BY <1>6, <1>7 DEF IsEmpty
  <2> HIDE DEF m, n
  <2>3. WellMade(a, m)
    <3>1. m.text \/ m.uses \cup m.results # {}
      BY <2>1, <2>2 DEF WellMade
    <3>2. m.content = "string" => m.text
      BY <2>1 DEF WellMade
    <3>3. /\ \A id \in m.uses : id[1] = m.turn
          /\ \A id \in m.results : id[1] < m.turn
          /\ m.uses = {} \/ m.results = {}
      BY <2>1 DEF WellMade
    <3>4. /\ m.uses # {} => m.role = "assistant"
          /\ m.role = "system" => m.turn = 1 /\ m.uses = {} /\ m.results = {}
          /\ m.uses \cup m.results # {} => m.content = "blocks"
      BY <2>1 DEF WellMade
    <3>5. QED
      BY <2>1, <3>1, <3>2, <3>3, <3>4 DEF WellMade
  <2>4. QED
    BY <2>3 DEF m
<1> HIDE DEF K
<1>8. r \in Seq(Message) /\ \E g : Embeds(g, r, x, K, Len(x))
  <2>1. Only(x, K) \in Seq(Message) /\ \E g : Embeds(g, Only(x, K), x, K, Len(x))
    BY <1>4, OnlyEmbeds
  <2> HIDE DEF r
  <2>2. QED
    BY <1>3, <2>1
<1>9. PICK g : Embeds(g, r, x, K, Len(x))
  BY <1>8
<1> HIDE DEF r
<1> DEFINE f == [i \in 1..Len(r) |-> split + g[i]]
<1>10. \A i \in 1..Len(r) : /\ g[i] \in 1..Len(recent) /\ r[i] = x[g[i]] /\ r[i] \in K
                            /\ f[i] = split + g[i]
  BY <1>4, <1>9 DEF Embeds
<1>11. f \in [1..Len(r) -> split + 1..Len(w)]
  BY <1>1, <1>10
<1>12. ASSUME NEW i \in 1..Len(r), NEW j \in 1..Len(r), i < j PROVE f[i] < f[j]
  <2>1. g[i] < g[j]
    BY <1>9, <1>12 DEF Embeds
  <2>2. QED
    BY <1>1, <1>10, <2>1
<1> HIDE DEF f
<1>13. ASSUME NEW i \in 1..Len(r)
       PROVE  /\ WellMade(a, r[i])
              /\ r[i].turn = w[f[i]].turn /\ r[i].role = w[f[i]].role
              /\ r[i].uses = w[f[i]].uses /\ r[i].results = w[f[i]].results \ lost
  <2>1. g[i] \in 1..Len(recent) /\ r[i] = x[g[i]] /\ x[g[i]] \in K
        /\ w[f[i]] = recent[g[i]]
    BY <1>1, <1>10
  <2> DEFINE h == g[i]
  <2>2. h \in 1..Len(recent) /\ r[i] = x[h] /\ x[h] \in K /\ w[f[i]] = recent[h]
    BY <2>1
  <2> HIDE DEF h
  <2>3. WellMade(a, x[h])
    BY <1>7, <2>2
  <2>4. x[h].turn = recent[h].turn /\ x[h].role = recent[h].role /\ x[h].uses = recent[h].uses
    BY <1>4, <2>2
  <2>5. x[h].results = recent[h].results \ lost
    BY <1>5, <2>2
  <2>6. QED
    BY <2>2, <2>3, <2>4, <2>5
<1>14. ASSUME NEW k \in split + 1..Len(w), w[k].uses # {} \/ w[k].results \ lost # {}
       PROVE  \E i \in 1..Len(r) : f[i] = k
  <2> DEFINE q == k - split
  <2>1. q \in 1..Len(recent) /\ q \in 1..Len(x) /\ split + q = k
    BY <1>1, <1>4
  <2> HIDE DEF q
  <2>2. recent[q] = w[k]
    BY <1>1, <2>1
  <2>3. x[q].uses # {} \/ x[q].results # {}
    BY <1>4, <1>5, <1>14, <2>1, <2>2
  <2>4. x[q] \in K
    BY <1>6, <2>1, <2>3 DEF IsEmpty
  <2>5. PICK i \in 1..Len(r) : g[i] = q
    BY <1>9, <2>1, <2>4 DEF Embeds
  <2>6. QED
    BY <1>10, <2>1, <2>5
<1>15. LeftOf(r, f, w, split, lost)
  BY <1>11, <1>12, <1>13, <1>14 DEF LeftOf
<1>16. QED
  BY <1>8, <1>15 DEF r

\* Over blocks, what the context optimizer makes is a ContextCut.
LEMMA ContextMakes ==
  ASSUME NEW older, NEW recent, NEW w, NEW split, Halves(older, recent, w, split),
         WellTold("anthropic", w), Orderly("anthropic", w),
         NEW recovered \in Recovered(older, Orphaned(recent)), NEW v,
         v = SummaryAndAck \o (recovered \o RepairedRecent(older, recent))
  PROVE  \E e, p, lost, g : ContextCut(v, w, split, e, p, lost, g)
<1> DEFINE a == "anthropic"
           r == RepairedRecent(older, recent)
           lost == still_orphaned(older, recent)
<1>1. /\ w \in Seq(Message) /\ split \in 1..Len(w) - 1 /\ Len(w) \in Nat
      /\ recent \in Seq(Message) /\ Len(recent) = Len(w) - split
      /\ \A i \in 1..Len(recent) : recent[i] = w[split + i]
  BY DEF Halves
<1>0. PICK e \in {2, 3}, p \in 1..split : InFront(recovered, w, split, e, p)
  BY RecoveredIs
<1>2. /\ recovered \in Seq(Message) /\ Len(recovered) = e - 2
      /\ e = 3 => /\ recovered[1] = w[p]
                  /\ \E k \in split + 1..Len(w) : w[p].uses \cap w[k].results # {}
      /\ \A j \in 1..split, k \in split + 1..Len(w) :
           w[j].uses \cap w[k].results # {} => e = 3 /\ j = p
  BY <1>0 DEF InFront
<1>3. r \in Seq(Message) /\ \E f : LeftOf(r, f, w, split, lost)
  BY RepairedIs
<1>4. \A k \in split + 1..Len(w) : \A id \in w[k].results :
        id \in lost <=> \A j \in 1..Len(w) : id \notin w[j].uses
  BY LostAre
<1>5. ASSUME \A k \in split + 1..Len(w) : \A id \in w[k].results :
               \E j \in 1..Len(w) : id \in w[j].uses
      PROVE  r = recent
  <2>1. \A id \in lost : id \in Orphaned(recent)
    BY DEF still_orphaned
  <2>2. ASSUME NEW id \in lost PROVE FALSE
    <3>1. PICK k \in split + 1..Len(w) : id \in w[k].results
      BY <2>1, OrphansAre
    <3>2. QED
      BY <1>4, <1>5, <3>1
  <2>3. lost = {}
    BY <2>2
  <2>4. ASSUME NEW i \in 1..Len(recent) PROVE WellMade(a, recent[i])
    <3>1. split + i \in 1..Len(w) /\ recent[i] = w[split + i]
      BY <1>1
    <3>2. QED
      BY <3>1 DEF Orderly
  <2>5. r = NotEmptied(Without(recent, lost))
    BY DEF RepairedRecent
  <2>6. QED
    BY <1>1, <2>3, <2>4, <2>5, RepairsNothing
<1> DEFINE x == recovered \o r
           s == SummaryAndAck
<1>6. /\ s \in Seq(Message) /\ Len(s) = 2
      /\ \A i \in 1..2 : WellMade(a, s[i]) /\ s[i].turn = 0 /\ s[i].uses = {} /\ s[i].results = {}
  BY SummaryIs
<1>7. v = s \o x
  OBVIOUS
<1> HIDE DEF r, lost, s
<1>a. PICK f : LeftOf(r, f, w, split, lost)
  BY <1>3
<1>8. /\ f \in [1..Len(r) -> split + 1..Len(w)]
      /\ \A i, j \in 1..Len(r) : i < j => f[i] < f[j]
      /\ \A i \in 1..Len(r) :
           /\ WellMade(a, r[i])
           /\ r[i].turn = w[f[i]].turn /\ r[i].role = w[f[i]].role
           /\ r[i].uses = w[f[i]].uses /\ r[i].results = w[f[i]].results \ lost
      /\ \A k \in split + 1..Len(w) :
           w[k].uses # {} \/ w[k].results \ lost # {} => \E i \in 1..Len(r) : f[i] = k
  BY <1>a DEF LeftOf
<1>9. /\ x \in Seq(Message) /\ Len(x) = e - 2 + Len(r)
      /\ \A i \in 1..Len(x) : x[i] = IF i <= e - 2 THEN recovered[i] ELSE r[i - (e - 2)]
  <2>1. /\ x \in Seq(Message) /\ Len(x) = Len(recovered) + Len(r)
        /\ \A i \in 1..Len(recovered) + Len(r) :
             x[i] = IF i <= Len(recovered) THEN recovered[i] ELSE r[i - Len(recovered)]
    <3>1. recovered \in Seq(Message) /\ r \in Seq(Message)
      BY <1>2, <1>3
    <3>2. QED
      BY <3>1, ConcatProperties
  <2> HIDE DEF x
  <2>2. QED
    BY <1>2, <2>1
<1> HIDE DEF x
<1>10. Len(r) \in Nat /\ Len(x) \in Nat
  BY <1>3, <1>9
<1>11. /\ v \in Seq(Message) /\ Len(v) = 2 + Len(x)
       /\ \A i \in 1..Len(v) : v[i] = IF i <= 2 THEN s[i] ELSE x[i - 2]
  <2>1. /\ v \in Seq(Message) /\ Len(v) = Len(s) + Len(x)
        /\ \A i \in 1..Len(s) + Len(x) : v[i] = IF i <= Len(s) THEN s[i] ELSE x[i - Len(s)]
    <3>1. s \in Seq(Message) /\ x \in Seq(Message)
      BY <1>6, <1>9
    <3> DEFINE y == s \o x
    <3>2. /\ y \in Seq(Message) /\ Len(y) = Len(s) + Len(x)
          /\ \A i \in 1..Len(s) + Len(x) : y[i] = IF i <= Len(s) THEN s[i] ELSE x[i - Len(s)]
      BY <3>1, ConcatProperties
    <3>3. v = y
      BY <1>7
    <3> HIDE DEF y
    <3>4. QED
      BY <3>2, <3>3
  <2>2. QED
    BY <1>6, <1>10, <2>1
<1>12. Len(v) = e + Len(r) /\ Len(v) \in Nat /\ e <= Len(v)
  BY <1>2, <1>9, <1>10, <1>11
<1>13. \A i \in 1..2 : v[i] = s[i]
  BY <1>10, <1>11
<1>14. e = 3 => v[3] = w[p]
  <2>1. ASSUME e = 3 PROVE v[3] = w[p]
    <3>1. 3 \in 1..Len(v) /\ 1 \in 1..Len(x)
      BY <1>9, <1>10, <1>12, <2>1
    <3>2. v[3] = x[1]
      BY <1>11, <3>1
    <3>3. x[1] = recovered[1]
      BY <1>9, <2>1, <3>1
    <3>4. QED
      BY <1>2, <2>1, <3>2, <3>3
  <2>2. QED
    BY <2>1
<1>15. ASSUME NEW i \in e + 1..Len(v)
       PROVE  i - e \in 1..Len(r) /\ v[i] = r[i - e]
  <2>1. i - e \in 1..Len(r) /\ i - 2 \in 1..Len(x) /\ i \in 1..Len(v) /\ i > 2
    BY <1>2, <1>9, <1>10, <1>12
  <2>2. v[i] = x[i - 2]
    BY <1>11, <2>1
  <2> DEFINE q == i - 2
  <2>3. q \in 1..Len(x) /\ ~ (q <= e - 2) /\ q - (e - 2) = i - e
    BY <1>2, <2>1
  <2> HIDE DEF q
  <2>4. x[q] = r[q - (e - 2)]
    BY <1>9, <2>3
  <2>5. QED
    BY <2>1, <2>2, <2>3, <2>4 DEF q
<1> DEFINE g == [i \in e + 1..Len(v) |-> f[i - e]]
<1>16. \A i \in e + 1..Len(v) : g[i] = f[i - e]
  OBVIOUS
<1>17. g \in [e + 1..Len(v) -> split + 1..Len(w)]
  BY <1>8, <1>15
<1> HIDE DEF g
<1>18. ASSUME NEW i \in e + 1..Len(v), NEW j \in e + 1..Len(v), i < j PROVE g[i] < g[j]
  <2> DEFINE q == i - e
             t == j - e
  <2>1. q \in 1..Len(r) /\ t \in 1..Len(r) /\ q < t /\ g[i] = f[q] /\ g[j] = f[t]
    BY <1>2, <1>12, <1>15, <1>16, <1>18
  <2> HIDE DEF q, t
  <2>2. QED
    BY <1>8, <2>1
<1>19. ASSUME NEW i \in e + 1..Len(v)
       PROVE  /\ WellMade(a, v[i]) /\ v[i].turn = w[g[i]].turn /\ v[i].role = w[g[i]].role
              /\ v[i].uses = w[g[i]].uses /\ v[i].results = w[g[i]].results \ lost
  <2> DEFINE q == i - e
  <2>1. q \in 1..Len(r) /\ v[i] = r[q] /\ g[i] = f[q]
    BY <1>15, <1>16
  <2> HIDE DEF q
  <2>2. QED
    BY <1>8, <2>1
<1>20. ASSUME NEW k \in split + 1..Len(w), w[k].uses # {} \/ w[k].results \ lost # {}
       PROVE  \E i \in e + 1..Len(v) : g[i] = k
  <2>1. PICK q \in 1..Len(r) : f[q] = k
    BY <1>8, <1>20
  <2>a. e \in Nat /\ Len(r) \in Nat /\ Len(v) = e + Len(r) /\ q \in Nat /\ 1 <= q /\ q <= Len(r)
    BY <1>2, <1>10, <1>12
  <2>2. e + q \in e + 1..Len(v) /\ (e + q) - e = q
    BY <2>a
  <2>3. g[e + q] = k
    BY <1>16, <2>1, <2>2
  <2>4. QED
    BY <2>2, <2>3
<1>21. ASSUME \A k \in split + 1..Len(w) : \A id \in w[k].results :
                \E j \in 1..Len(w) : id \in w[j].uses
       PROVE  /\ Len(v) = e + (Len(w) - split)
              /\ \A i \in e + 1..Len(v) : v[i] = w[split - e + i]
  <2>1. r = recent
    BY <1>5, <1>21
  <2>2. Len(r) = Len(w) - split
    BY <1>1, <2>1
  <2>3. ASSUME NEW i \in e + 1..Len(v) PROVE v[i] = w[split - e + i]
    <3> DEFINE q == i - e
    <3>1. q \in 1..Len(recent) /\ v[i] = recent[q]
      BY <1>15, <2>1
    <3>2. split + q = split - e + i
      <4>1. i \in Int /\ e \in Int /\ split \in Int
        BY <1>1, <1>12
      <4>2. QED
        BY <4>1
    <3> HIDE DEF q
    <3>3. QED
      BY <1>1, <3>1, <3>2
  <2>4. QED
    BY <1>12, <2>2, <2>3
<1>22. \A i \in 1..2 : /\ WellMade(a, v[i]) /\ v[i].turn = 0
                       /\ v[i].uses = {} /\ v[i].results = {}
  BY <1>6, <1>13
<1>23. e = 3 => /\ p \in 1..split /\ v[3] = w[p]
                /\ \E k \in split + 1..Len(w) : w[p].uses \cap w[k].results # {}
  BY <1>2, <1>14
<1>24. \A j \in 1..split, k \in split + 1..Len(w) :
         w[j].uses \cap w[k].results # {} => e = 3 /\ j = p
  BY <1>2
<1>25. ContextCut(v, w, split, e, p, lost, g)
  BY <1>4, <1>11, <1>12, <1>17, <1>18, <1>19, <1>20, <1>21, <1>22, <1>23, <1>24 DEF ContextCut
<1>26. QED
  BY <1>25

-------------------------------------------------------------------------------
\* What is known of a request on its way: it carries what it must of the conversation;
\* before the first stage it is the conversation.
WorkingInv ==
  /\ stage \in Stage \cup {"client", "engine", "upstream"}
  /\ cuts \subseteq Stage
  /\ stage = "client" => working = <<>>
  /\ stage = "context" => working = history /\ cuts = {}
  /\ stage # "client" => Carried(api, history, working, cuts)
  /\ ResultsHaveUses
  /\ ContextKeepsPairs

\* The inductive invariant: of the conversation and of the request.
IInv == HistoryInv /\ WorkingInv

\* A list in which every result has its call is confined.
LEMMA PairedConfined ==
  ASSUME NEW s, Paired(s)
  PROVE  Confined(s)
BY DEF Paired, Confined

\* The conversation is a list a stage may be given.
LEMMA HistoryOrderly ==
  ASSUME NEW a, NEW h, WellTold(a, h), \A i \in 1..Len(h) : h[i].turn # 0
  PROVE  Orderly(a, h)
<1>1. h \in Seq(Message) /\ Len(h) \in Nat
  BY DEF WellTold
<1>2. \A i \in 1..Len(h) :
        WellMade(a, h[i]) /\ h[i].turn \in Nat /\ h[i].turn >= 1
  BY BoundAssumption DEF WellTold, WellMade, Message
<1>3. \A i, j \in 1..Len(h) : i < j => h[i].turn < h[j].turn
  BY DEF WellTold, Follows
<1>4. InOrder(h)
  BY <1>2, <1>3 DEF InOrder
<1>5. ASSUME NEW i \in 2..Len(h) PROVE h[i].role # "system"
  <2>1. 1 \in 1..Len(h) /\ i \in 1..Len(h) /\ 1 < i
    BY <1>1
  <2>2. h[1].turn >= 1 /\ h[1].turn < h[i].turn /\ h[1].turn \in Nat
    BY <1>2, <1>3, <2>1
  <2>3. h[i].turn # 1
    BY <1>2, <2>1, <2>2
  <2>4. QED
    BY <1>2, <2>1, <2>3 DEF WellMade
<1>6. QED
  BY <1>1, <1>2, <1>4, <1>5 DEF Orderly

\* A request starts with the conversation as it is.
LEMMA WholeCarried ==
  ASSUME NEW a, NEW h, WellTold(a, h), \A i \in 1..Len(h) : h[i].turn # 0
  PROVE  Carried(a, h, h, {})
<1>1. Orderly(a, h)
  BY HistoryOrderly
<1>2. Paired(h) => Confined(h)
  BY PairedConfined
<1>3. Latest(h, h, {})
  <2> DEFINE n == Len(h)
  <2>1. n \in 0..Len(h) /\ n <= Len(h)
    BY DEF WellTold
  <2> HIDE DEF n
  <2>2. \A c \in {} : n <= Promised(Len(h))[c]
    OBVIOUS
  <2>3. n \in {Len(h)} \cup {Promised(Len(h))[c] : c \in {}}
    BY DEF n
  <2>4. QED
    BY <2>1, <2>2, <2>3 DEF Latest
<1>4. QED
  BY <1>1, <1>2, <1>3 DEF Carried

\* So WorkingInv holds of every request that starts.
LEMMA RequestStarts ==
  ASSUME HistoryInv', stage' = "context", working' = history', cuts' = {}
  PROVE  WorkingInv'
<1>1. WellTold(api', history') /\ \A i \in 1..Len(history') : history'[i].turn # 0
  <2>1. turns' \in 1..MaxMessages /\ \A i \in 1..Len(history') : history'[i].turn \in 1..turns'
    BY DEF HistoryInv
  <2>2. \A i \in 1..Len(history') : history'[i].turn # 0
    BY <2>1, BoundAssumption
  <2>3. QED
    BY <2>2 DEF HistoryInv
<1>2. Carried(api', history', history', {})
  BY <1>1, WholeCarried
<1>3. Carried(api', history', working', cuts')
  BY <1>2
<1>4. QED
  BY <1>3 DEF WorkingInv, Stage, ResultsHaveUses, ContextKeepsPairs

\* The context optimizer keeps WorkingInv.
LEMMA ContextKeeps ==
  ASSUME IInv, ContextOptimize
  PROVE  WorkingInv'
<1> DEFINE w == working
           v == working'
           n == Promised(Len(w))["context"]
           split == Len(w) - n
           older == SubSeq(w, 1, split)
           recent == SubSeq(w, split + 1, Len(w))
<1>1. /\ stage = "context" /\ stage' = "openclaw" /\ UNCHANGED <<api, history, turns>>
      /\ cuts' = cuts \cup {"context"}
  BY DEF ContextOptimize, Goto, Cut
<1>2. w = history /\ cuts = {} /\ cuts' = {"context"} /\ Carried(api, history, w, cuts)
  BY <1>1 DEF IInv, WorkingInv
<1>3. /\ WellTold(api, w) /\ Orderly(api, w) /\ w \in Seq(Message) /\ Len(w) \in Nat
      /\ api \in {"anthropic", "openai"}
  BY <1>2 DEF IInv, HistoryInv, WellTold, Carried
<1>4. /\ n \in 1..Len(w) - 1 /\ Len(w) >= 3
      /\ Halves(older, recent, w, split)
      /\ \E recovered \in Recovered(older, Orphaned(recent)) :
           v = SummaryAndAck \o (recovered \o RepairedRecent(older, recent))
  BY <1>3, ContextStep
<1>5. stage' \in Stage \cup {"client", "engine", "upstream"} /\ cuts' \subseteq Stage
      /\ stage' # "client" /\ stage' # "context"
  BY <1>1, <1>2 DEF Stage
<1>6. CASE api = "openai"
  <2>1. CutShort(api, v, w, Promised(Len(history))["context"])
    BY <1>2, <1>3, <1>6, ContextWithoutBlocks
  <2>2. Carried(api, history, v, cuts \cup {"context"})
    <3>1. "context" \in Stage /\ history \in Seq(Message) /\ cuts \in SUBSET Stage
      BY <1>2, <1>3 DEF Stage
    <3> HIDE DEF v, w
    <3>2. QED
      BY <1>2, <2>1, <3>1, CutShortCarries
  <2>3. ASSUME NEW i \in 1..Len(v) PROVE tool_results(v[i]) = {}
    <3>1. WellMade("openai", v[i])
      BY <1>6, <2>2 DEF Carried, Orderly
    <3>2. QED
      BY <3>1, NoToolBlocks
  <2>4. ResultsHaveUses'
    BY <2>3 DEF ResultsHaveUses, tool_results
  <2>5. ContextKeepsPairs'
    BY <1>1, <1>6 DEF ContextKeepsPairs
  <2>6. QED
    BY <1>1, <1>5, <2>2, <2>4, <2>5 DEF WorkingInv
<1>7. CASE api = "anthropic"
  <2> HIDE DEF n, older, recent
  <2>1. PICK recovered \in Recovered(older, Orphaned(recent)) :
          v = SummaryAndAck \o (recovered \o RepairedRecent(older, recent))
    BY <1>4
  <2> HIDE DEF split
  <2>2. PICK e, p, lost, g : ContextCut(v, w, split, e, p, lost, g)
    BY <1>3, <1>4, <1>7, <2>1, ContextMakes
  <2>3. split \in 1..Len(w) /\ Len(w) - split = n
    BY <1>3, <1>4 DEF split
  <2> HIDE DEF v, w
  <2>4. Orderly(api, v)
    BY <1>3, <1>7, <2>2, <2>3, ContextCutOrder
  <2>5. Answered(w) => Answered(v)
    BY <1>3, <1>7, <2>2, <2>3, ContextCutAnswers
  <2>6. ASSUME Paired(w)
        PROVE  /\ Paired(v) /\ Len(v) = e + (Len(w) - split)
               /\ \A i \in e + 1..Len(v) : v[i] = w[split - e + i]
    BY <1>3, <1>7, <2>2, <2>3, <2>6, ContextCutPairs
  <2>7. ASSUME Paired(w) PROVE Latest(w, v, {"context"})
    <3>1. v \in Seq(Message) /\ e \in {2, 3}
      BY <2>2 DEF ContextCut
    <3>2. n \in Nat /\ n <= Len(w) /\ n <= Len(v) /\ n \in 0..Len(w) /\ n \in 0..Len(v)
      BY <1>3, <1>4, <2>3, <2>6, <2>7, <3>1
    <3>3. /\ Ending(v, n) \in Seq(Message) /\ Len(Ending(v, n)) = n
          /\ \A i \in 1..n : Ending(v, n)[i] = v[Len(v) - n + i]
          /\ Ending(w, n) \in Seq(Message) /\ Len(Ending(w, n)) = n
          /\ \A i \in 1..n : Ending(w, n)[i] = w[Len(w) - n + i]
      BY <1>3, <3>1, <3>2, EndingIs
    <3>4. ASSUME NEW i \in 1..n PROVE Ending(v, n)[i] = Ending(w, n)[i]
      <4> DEFINE q == Len(v) - n + i
      <4>a. /\ Len(v) = e + n /\ Len(w) - split = n /\ e \in Nat /\ n \in Nat
            /\ Len(w) \in Nat /\ split \in Int /\ i \in 1..n
        BY <1>3, <2>3, <2>6, <2>7, <3>1, <3>2
      <4>1. q \in e + 1..Len(v) /\ split - e + q = Len(w) - n + i
        BY <4>a
      <4> HIDE DEF q
      <4>2. v[q] = w[split - e + q]
        BY <2>6, <2>7, <4>1
      <4>3. QED
        BY <3>3, <4>1, <4>2 DEF q
    <3> DEFINE y == Ending(v, n)
               z == Ending(w, n)
    <3>5. /\ y \in Seq(Message) /\ z \in Seq(Message) /\ Len(y) = Len(z)
          /\ \A i \in 1..Len(y) : y[i] = z[i]
      BY <3>3, <3>4
    <3> HIDE DEF y, z
    <3>6. y = z
      BY <3>5
    <3>7. n = Promised(Len(w))["context"]
      BY DEF n
    <3>8. \A c \in {"context"} : n <= Promised(Len(w))[c]
      BY <3>2, <3>7
    <3>9. n \in {Len(w)} \cup {Promised(Len(w))[c] : c \in {"context"}}
      BY <3>7
    <3>10. QED
      BY <3>2, <3>6, <3>8, <3>9 DEF Latest, y, z
  <2>8. Carried(api, w, v, {"context"})
    BY <2>4, <2>5, <2>6, <2>7, PairedConfined DEF Carried
  <2>9. Carried(api', history', working', cuts')
    BY <1>1, <1>2, <2>8 DEF v
  <2>10. ASSUME NEW i \in 1..Len(v), NEW id \in tool_results(v[i])
         PROVE  \E j \in 1..i - 1 : id \in tool_uses(v[j])
    <3>1. \A j \in 1..Len(v) : WellMade("anthropic", v[j])
      BY <1>7, <2>4 DEF Orderly
    <3>2. \A j \in 1..Len(v) : tool_uses(v[j]) = v[j].uses /\ tool_results(v[j]) = v[j].results
      BY <3>1, ToolsOfBlocks
    <3>3. PICK j \in 1..i - 1 : id \in v[j].uses
      BY <1>3, <1>7, <2>2, <2>3, <3>2, ContextCutUses
    <3>4. j \in 1..Len(v)
      <4>1. v \in Seq(Message)
        BY <2>4 DEF Orderly
      <4>2. QED
        BY <4>1
    <3>5. QED
      BY <3>2, <3>3, <3>4
  <2>11. ResultsHaveUses'
    BY <2>10 DEF ResultsHaveUses, tool_results, tool_uses, v
  <2>12. ContextKeepsPairs'
    <3>1. Paired(w) => Paired(v)
      BY <2>6
    <3>2. history' = w
      BY <1>1, <1>2
    <3>3. Paired(history') => Paired(working')
      BY <3>1, <3>2 DEF v
    <3>4. QED
      BY <3>3 DEF ContextKeepsPairs
  <2>13. QED
    BY <1>1, <1>5, <2>9, <2>11, <2>12 DEF WorkingInv
<1>8. QED
  BY <1>3, <1>6, <1>7

\* The stages that only cut keep WorkingInv.
LEMMA CutKeeps ==
  ASSUME IInv, stage \in {"openclaw", "semantic"}, stage' \in {"semantic", "engine"},
         UNCHANGED <<api, history, turns>>,
         NEW c \in {"openclaw", "semantic"}, cuts' = cuts \cup {c},
         CutShort(api, working', working, Promised(Len(history))[c])
  PROVE  WorkingInv'
<1>1. Carried(api, history, working, cuts) /\ cuts \in SUBSET Stage /\ c \in Stage
  BY DEF IInv, WorkingInv, Stage
<1>2. history \in Seq(Message)
  BY DEF IInv, HistoryInv, WellTold
<1>3. Carried(api, history, working', cuts \cup {c})
  BY <1>1, <1>2, CutShortCarries
<1>4. Carried(api', history', working', cuts')
  BY <1>3
<1>5. stage' \in Stage \cup {"client", "engine", "upstream"} /\ cuts' \subseteq Stage
  BY <1>1 DEF Stage
<1>6. QED
  BY <1>4, <1>5 DEF WorkingInv, ResultsHaveUses, ContextKeepsPairs

\* A stage that does nothing keeps WorkingInv.
LEMMA PassKeeps ==
  ASSUME IInv, NEW from, NEW to, Pass(from, to),
         from \in Stage \cup {"engine"}, to \in {"openclaw", "semantic", "engine", "upstream"},
         from = "context" \/ to # "openclaw"
  PROVE  WorkingInv'
<1>1. stage = from /\ stage' = to /\ UNCHANGED <<api, history, turns, working, cuts>>
  BY DEF Pass, Goto
<1>2. Carried(api, history, working, cuts) /\ cuts \subseteq Stage
  BY <1>1 DEF IInv, WorkingInv, Stage
<1>3. Carried(api', history', working', cuts')
  BY <1>1, <1>2
<1>4. stage' \in Stage \cup {"client", "engine", "upstream"} /\ cuts' \subseteq Stage
      /\ stage' # "client" /\ stage' # "context"
  BY <1>1, <1>2 DEF Stage
<1>5. ASSUME to = "openclaw" PROVE working = history /\ cuts = {}
  BY <1>1, <1>5 DEF IInv, WorkingInv
<1>6. ResultsHaveUses'
  BY <1>1, <1>5 DEF ResultsHaveUses
<1>7. ContextKeepsPairs'
  BY <1>1, <1>5 DEF ContextKeepsPairs
<1>8. QED
  BY <1>3, <1>4, <1>6, <1>7 DEF WorkingInv

\* Every step keeps WorkingInv.
LEMMA WorkingStep ==
  ASSUME IInv, HistoryInv', [Next]_vars
  PROVE  WorkingInv'
<1>1. CASE ContextOptimize
  BY <1>1, ContextKeeps
<1>2. CASE SlidingWindow
  <2>1. Orderly(api, working) /\ stage = "openclaw" /\ stage' = "semantic"
        /\ UNCHANGED <<api, history, turns>> /\ cuts' = cuts \cup {"openclaw"}
    BY <1>2 DEF SlidingWindow, Goto, Cut, IInv, WorkingInv, Carried
  <2>2. CutShort(api, working', working, 2 * WindowTurns)
    BY <1>2, <2>1, WindowCuts
  <2>3. Promised(Len(history))["openclaw"] = 2 * WindowTurns
    BY DEF Promised
  <2>4. QED
    BY <2>1, <2>2, <2>3, CutKeeps
<1>3. CASE CondenseHistory
  <2>1. Orderly(api, working) /\ stage = "semantic" /\ stage' = "engine"
        /\ UNCHANGED <<api, history, turns>> /\ cuts' = cuts \cup {"semantic"}
    BY <1>3 DEF CondenseHistory, Goto, Cut, IInv, WorkingInv, Carried
  <2>2. CutShort(api, working', working, SemanticKeep)
    BY <1>3, <2>1, CondenseCuts
  <2>3. Promised(Len(history))["semantic"] = SemanticKeep
    BY DEF Promised
  <2>4. QED
    BY <2>1, <2>2, <2>3, CutKeeps
<1>4. CASE \/ Pass("context", "openclaw") \/ Pass("openclaw", "semantic")
           \/ Pass("semantic", "engine") \/ Engine
  BY <1>4, PassKeeps DEF Engine, Stage
<1>5. CASE UserAsks \/ ToolsAnswer
  <2>1. stage' = "context" /\ working' = history' /\ cuts' = {}
    BY <1>5 DEF UserAsks, ToolsAnswer
  <2>2. QED
    BY <2>1, RequestStarts
<1>6. CASE ModelAnswers
  BY <1>6 DEF ModelAnswers, WorkingInv, ResultsHaveUses, ContextKeepsPairs
<1>7. CASE ClientForgets
  <2>1. stage' = "client" /\ working' = <<>> /\ cuts' \subseteq Stage
    BY <1>7 DEF ClientForgets, IInv, WorkingInv
  <2>2. QED
    BY <2>1 DEF WorkingInv, ResultsHaveUses, ContextKeepsPairs
<1>8. CASE UNCHANGED vars
  BY <1>8 DEF vars, IInv, WorkingInv, ResultsHaveUses, ContextKeepsPairs
<1>9. QED
  BY <1>1, <1>2, <1>3, <1>4, <1>5, <1>6, <1>7, <1>8 DEF Next, Pipeline, Client

\* WorkingInv holds at the start.
LEMMA WorkingInit ==
  ASSUME Init
  PROVE  WorkingInv
<1>1. stage = "context" /\ working = history /\ cuts = {}
  BY DEF Init
<1>2. HistoryInv
  BY HistoryInit
<1>3. WellTold(api, history) /\ \A i \in 1..Len(history) : history[i].turn # 0
  <2>1. turns \in 1..MaxMessages /\ \A i \in 1..Len(history) : history[i].turn \in 1..turns
    BY <1>2 DEF HistoryInv
  <2>2. \A i \in 1..Len(history) : history[i].turn # 0
    BY <2>1, BoundAssumption
  <2>3. QED
    BY <1>2, <2>2 DEF HistoryInv
<1>4. Carried(api, history, history, {})
  BY <1>3, WholeCarried
<1>5. QED
  BY <1>1, <1>4 DEF WorkingInv, Stage, ResultsHaveUses, ContextKeepsPairs

\* IInv is an invariant.
LEMMA Invariance ==
  Spec => []IInv
<1>1. Init => IInv
  BY HistoryInit, WorkingInit DEF IInv
<1>2. IInv /\ [Next]_vars => IInv'
  <2>1. IInv /\ [Next]_vars => HistoryInv'
    BY HistoryStep DEF IInv
  <2>2. QED
    BY <2>1, WorkingStep DEF IInv
<1>3. QED
  BY <1>1, <1>2, PTL DEF Spec

\* Messages are messages, none of them empty, at every stage (run_pipeline).
THEOREM MessagesTyped ==
  Spec => []TypeOK
<1>1. IInv => TypeOK
  <2> SUFFICES ASSUME IInv PROVE TypeOK
    OBVIOUS
  <2>1. /\ api \in {"anthropic", "openai"} /\ turns \in 1..MaxMessages
        /\ stage \in Stage \cup {"client", "engine", "upstream"} /\ cuts \subseteq Stage
    BY DEF IInv, HistoryInv, WorkingInv
  <2>2. /\ history \in Seq(Message)
        /\ \A i \in 1..Len(history) : WellMade(api, history[i])
    BY DEF IInv, HistoryInv, WellTold
  <2>3. /\ working \in Seq(Message)
        /\ \A i \in 1..Len(working) : WellMade(api, working[i])
    <3>1. CASE stage = "client"
      <4>1. working = <<>>
        BY <3>1 DEF IInv, WorkingInv
      <4>2. QED
        BY <4>1
    <3>2. CASE stage # "client"
      BY <3>2 DEF IInv, WorkingInv, Carried, Orderly
    <3>3. QED
      BY <3>1, <3>2
  <2>4. ASSUME NEW m \in Range(history) \cup Range(working)
        PROVE  m.text \/ m.uses \cup m.results # {}
    <3>1. WellMade(api, m)
      BY <2>2, <2>3 DEF Range
    <3>2. QED
      BY <3>1 DEF WellMade
  <2>5. QED
    BY <2>1, <2>2, <2>3, <2>4 DEF TypeOK
<1>2. QED
  BY <1>1, Invariance, PTL

\* repair_tool_pairs (context.rs): when the context optimizer has cut, every
\* tool_result block it leaves has its tool_use in an earlier message, even when the
\* client had lost the call.
THEOREM EveryResultKeepsItsUse ==
  Spec => []ResultsHaveUses
<1>1. IInv => ResultsHaveUses
  BY DEF IInv, WorkingInv
<1>2. QED
  BY <1>1, Invariance, PTL

\* repair_tool_pairs and the split (context.rs): a well-formed conversation with tool
\* blocks is well-formed behind the context optimizer, wherever it cut.
THEOREM ContextAlwaysKeepsPairs ==
  Spec => []ContextKeepsPairs
<1>1. IInv => ContextKeepsPairs
  BY DEF IInv, WorkingInv
<1>2. QED
  BY <1>1, Invariance, PTL

\* No sequence of stages of run_pipeline, over any number of requests, leaves a call
\* without the results right behind it.
THEOREM CallsAlwaysStayAnswered ==
  Spec => []CallsStayAnswered
<1>1. IInv => CallsStayAnswered
  BY DEF IInv, WorkingInv, Carried, CallsStayAnswered
<1>2. QED
  BY <1>1, Invariance, PTL

\* What the window (openclaw.rs) and the semantic stage (server.rs) can break in a
\* well-formed conversation are the results right behind the cut, and no others.
THEOREM OrphansAlwaysAtTheCut ==
  Spec => []OrphansOnlyAtTheCut
<1>1. IInv => OrphansOnlyAtTheCut
  <2> SUFFICES ASSUME IInv, Paired(history) PROVE Confined(working)
    BY DEF OrphansOnlyAtTheCut, Confined
  <2>1. CASE stage = "client"
    <3>1. working = <<>>
      BY <2>1 DEF IInv, WorkingInv
    <3>2. QED
      BY <3>1 DEF Confined
  <2>2. CASE stage # "client"
    BY <2>2 DEF IInv, WorkingInv, Carried
  <2>3. QED
    BY <2>1, <2>2
<1>2. QED
  BY <1>1, Invariance, PTL

\* The stages of run_pipeline never swap two messages and send none twice.
THEOREM AlwaysInOrderOnce ==
  Spec => []InOrderOnce
<1>1. IInv => InOrderOnce
  <2> SUFFICES ASSUME IInv PROVE InOrder(working)
    BY DEF InOrderOnce, InOrder
  <2>1. CASE stage = "client"
    <3>1. working = <<>>
      BY <2>1 DEF IInv, WorkingInv
    <3>2. QED
      BY <3>1 DEF InOrder
  <2>2. CASE stage # "client"
    BY <2>2 DEF IInv, WorkingInv, Carried, Orderly
  <2>3. QED
    BY <2>1, <2>2
<1>2. QED
  BY <1>1, Invariance, PTL

\* The latest messages reach the model as they are, as many as the narrowest of the
\* stages that cut promises to keep.
THEOREM LatestTurnsAlwaysSurvive ==
  Spec => []LatestTurnsSurvive
<1>1. IInv => LatestTurnsSurvive
  <2> SUFFICES ASSUME IInv, stage # "client", Paired(history)
               PROVE  \E n \in {Len(history)} \cup {Promised(Len(history))[c] : c \in cuts} :
                        /\ \A c \in cuts : n <= Promised(Len(history))[c]
                        /\ Ending(working, n) = Ending(history, n)
    BY DEF LatestTurnsSurvive
  <2>1. Latest(history, working, cuts)
    BY DEF IInv, WorkingInv, Carried
  <2>2. QED
    BY <2>1 DEF Latest
<1>2. QED
  BY <1>1, Invariance, PTL

-------------------------------------------------------------------------------
(* compress_request, the last stage. *)

\* A request that no stage has cut is the conversation.
UncutInv ==
  stage \in Stage \cup {"engine"} /\ cuts = {} => working = history

\* The last request, if it was uncut: of what it had of the conversation, the client
\* has the rest, no message further from its start than then.
Remembered ==
  /\ \A i \in 1..Len(sent) : sent[i].turn <= turns
  /\ \A i, j \in 1..Len(sent) : sent[i] = sent[j] => i = j
  /\ \A i \in 1..Len(sent), j \in 1..Len(history) : history[j] = sent[i] => j <= i

\* What the engine has done to the last request.
EngineInv ==
  /\ sent \in Seq(Message) /\ (age \in Ages \/ sent = <<>>)
  /\ \A i \in 1..Len(sent) : treated[i] = treatment(sent, i, age)
  /\ whole => Remembered

\* The inductive invariant of the pipeline with its engine.
PipelineInv == IInv /\ UncutInv /\ EngineInv

\* It holds before the first request.
LEMMA PipelineStarts ==
  RInit => PipelineInv
<1> SUFFICES ASSUME RInit PROVE PipelineInv
  OBVIOUS
<1>1. IInv
  BY HistoryInit, WorkingInit DEF RInit, IInv
<1>2. UncutInv
  BY DEF RInit, Init, UncutInv
<1>3. sent = <<>> /\ Len(sent) = 0
  BY DEF RInit
<1>4. EngineInv
  BY <1>3 DEF EngineInv, Remembered
<1>5. QED
  BY <1>1, <1>2, <1>4 DEF PipelineInv

\* The messages of a conversation are of different turns.
LEMMA TurnsDiffer ==
  ASSUME HistoryInv, NEW i \in 1..Len(history), NEW j \in 1..Len(history),
         history[i] = history[j]
  PROVE  i = j
<1>1. history[i].turn \in Nat /\ history[j].turn \in Nat /\ Len(history) \in Nat
  BY DEF HistoryInv, WellTold
<1>2. i < j => history[i].turn < history[j].turn
  BY DEF HistoryInv, WellTold, Follows
<1>3. j < i => history[j].turn < history[i].turn
  BY DEF HistoryInv, WellTold, Follows
<1>4. QED
  BY <1>1, <1>2, <1>3

\* Every step keeps it that an uncut request is the conversation.
LEMMA UncutStep ==
  ASSUME UncutInv, WorkingInv, [Next]_vars
  PROVE  UncutInv'
<1>1. CASE UserAsks \/ ToolsAnswer
  BY <1>1 DEF UserAsks, ToolsAnswer, UncutInv
<1>2. CASE ModelAnswers \/ ClientForgets \/ Engine
  BY <1>2 DEF ModelAnswers, ClientForgets, Engine, Pass, Goto, UncutInv, Stage
<1>3. CASE Pipeline
  <2>1. CASE ContextOptimize \/ SlidingWindow \/ CondenseHistory
    <3>1. cuts' # {}
      BY <2>1 DEF ContextOptimize, SlidingWindow, CondenseHistory, Cut
    <3>2. QED
      BY <3>1 DEF UncutInv
  <2>2. CASE \/ Pass("context", "openclaw") \/ Pass("openclaw", "semantic")
             \/ Pass("semantic", "engine")
    BY <2>2 DEF Pass, Goto, UncutInv, Stage
  <2>3. QED
    BY <1>3, <2>1, <2>2 DEF Pipeline
<1>4. CASE UNCHANGED vars
  BY <1>4 DEF vars, UncutInv
<1>5. QED
  BY <1>1, <1>2, <1>3, <1>4 DEF Next, Client

\* What is remembered of a request stays so, whatever the client says or forgets.
LEMMA RememberedStep ==
  ASSUME HistoryInv, sent \in Seq(Message), Remembered, HistoryMoves, UNCHANGED engineVars,
         turns' \in Nat
  PROVE  Remembered'
<1>1. turns \in Nat /\ turns <= turns' /\ sent' = sent /\ Len(history) \in Nat
  BY BoundAssumption DEF HistoryInv, HistoryMoves, engineVars, WellTold
<1>a. ASSUME NEW i \in 1..Len(sent) PROVE sent[i].turn \in Int
  <2>1. sent[i] \in Message
    OBVIOUS
  <2>2. QED
    BY <2>1, BoundAssumption DEF Message
<1>2. ASSUME NEW i \in 1..Len(sent) PROVE sent[i].turn <= turns'
  <2>1. sent[i].turn <= turns /\ sent[i].turn \in Int
    BY <1>a DEF Remembered
  <2>2. QED
    BY <1>1, <2>1
<1>3. ASSUME NEW i \in 1..Len(sent), NEW j \in 1..Len(history'), history'[j] = sent[i]
      PROVE  j <= i
  <2>1. sent[i].turn <= turns /\ sent[i].turn \in Int
    BY <1>a DEF Remembered
  <2>2. PICK k \in j..Len(history) : history'[j] = history[k]
    BY <1>1, <1>3, <2>1 DEF HistoryMoves
  <2>3. k \in 1..Len(history) /\ j <= k
    BY <1>1, <2>2
  <2>4. k <= i
    BY <1>3, <2>2, <2>3 DEF Remembered
  <2>5. QED
    BY <1>1, <2>3, <2>4
<1>4. QED
  BY <1>1, <1>2, <1>3 DEF Remembered

\* The engine treats the request as it is, and remembers it.
LEMMA CompressKeeps ==
  ASSUME PipelineInv, CompressRequest
  PROVE  EngineInv'
<1>1. /\ sent' = working /\ age' \in Ages /\ treated' = Treated(working, age')
      /\ (whole' <=> cuts = {}) /\ stage = "engine" /\ UNCHANGED <<history, turns>>
  BY DEF CompressRequest, Engine, Pass, Goto
<1>2. working \in Seq(Message)
  BY <1>1 DEF PipelineInv, IInv, WorkingInv, Carried, Orderly
<1>3. \A i \in 1..Len(working) : treated'[i] = treatment(working, i, age')
  BY <1>1 DEF Treated
<1>4. \A i \in 1..Len(sent') : treated'[i] = treatment(sent', i, age')
  BY <1>1, <1>3
<1>5. ASSUME whole' PROVE Remembered'
  <2>1. sent' = history' /\ history' = history /\ turns' = turns
    BY <1>1, <1>5 DEF PipelineInv, UncutInv
  <2>2. HistoryInv
    BY DEF PipelineInv, IInv
  <2>3. /\ \A i \in 1..Len(history) : history[i].turn <= turns
        /\ \A i, j \in 1..Len(history) : history[i] = history[j] => i = j
    BY <2>2, TurnsDiffer DEF HistoryInv
  <2>4. \A i, j \in 1..Len(history) : history[j] = history[i] => j <= i
    BY <2>3
  <2>5. QED
    BY <2>1, <2>3, <2>4 DEF Remembered
<1>6. QED
  BY <1>1, <1>2, <1>4, <1>5 DEF EngineInv

\* Every step of the pipeline with its engine keeps the invariant.
LEMMA PipelineStep ==
  ASSUME PipelineInv, [RNext]_allVars
  PROVE  PipelineInv'
<1>1. [Next]_vars
  BY DEF RNext, CompressRequest, Next, allVars, vars
<1>2. HistoryInv' /\ HistoryMoves
  BY <1>1, HistoryStep DEF PipelineInv, IInv
<1>3. IInv'
  BY <1>1, <1>2, WorkingStep DEF PipelineInv, IInv
<1>4. UncutInv'
  BY <1>1, UncutStep DEF PipelineInv, IInv
<1>5. EngineInv'
  <2>1. CASE CompressRequest
    BY <2>1, CompressKeeps
  <2>2. CASE UNCHANGED engineVars
    <3>1. turns' \in Nat
      BY <1>2 DEF HistoryInv
    <3>2. whole => Remembered'
      BY <1>2, <2>2, <3>1, RememberedStep DEF PipelineInv, IInv, EngineInv
    <3>3. QED
      BY <2>2, <3>2 DEF PipelineInv, EngineInv, engineVars
  <2>3. QED
    BY <2>1, <2>2 DEF RNext, allVars, engineVars
<1>6. QED
  BY <1>3, <1>4, <1>5 DEF PipelineInv

\* Hence it always holds.
LEMMA PipelineInvariance ==
  RSpec => []PipelineInv
<1>1. PipelineInv /\ [RNext]_allVars => PipelineInv'
  BY PipelineStep
<1>2. QED
  BY <1>1, PipelineStarts, PTL DEF RSpec

\* The cutoff moves away from the start as the conversation grows.
LEMMA CutoffGrows ==
  ASSUME NEW a \in Ages, NEW n \in Nat, NEW m \in Nat, n <= m
  PROVE  /\ response_cutoff(n, a) \in Int /\ response_cutoff(m, a) \in Int
         /\ response_cutoff(n, a) <= response_cutoff(m, a)
<1>1. 2 ^ Width \in Int /\ a \in Int /\ 0 <= a /\ a <= 2 ^ Width - 1
  BY AgesAssumption
<1> DEFINE size == 2 ^ Width
           w == (a * 2) % size
<1>2. w \in Int
  <2>1. size \in Int /\ size > 0 /\ a * 2 \in Int
    BY <1>1
  <2> HIDE DEF size
  <2>2. QED
    BY <2>1
<1>3. Wrap(a * 2) = w
  BY DEF Wrap
<1> HIDE DEF w
<1>4. QED
  BY <1>2, <1>3 DEF response_cutoff, saturating_sub

\* A part is a compressed answer where the message is an answer before the cutoff.
LEMMA TreatmentIs ==
  ASSUME NEW s, NEW i, NEW a
  PROVE  /\ treatment(s, i, a).text = "response"
              <=> s[i].role = "assistant" /\ i <= response_cutoff(Len(s), a)
         /\ s[i].role = "assistant" =>
              (treatment(s, i, a).text = "kept" <=> ~(i <= response_cutoff(Len(s), a)))
BY DEF treatment, compress_message, compress_response_message, COMPRESSIBLE_ROLES

\* compress_request (engine.rs): while the conversation grows uncut and the age stays,
\* an answer that one request sends compressed is compressed in every later one, even
\* when the client forgets messages in between.
THEOREM CompressedPrefixStaysCached ==
  RSpec => PrefixStaysCached
<1>1. ASSUME PipelineInv, PipelineInv', [RNext]_allVars, whole, whole', age' = age,
             Len(sent') >= Len(sent), NEW i \in 1..Len(sent), NEW j \in 1..Len(sent'),
             sent'[j] = sent[i], treated[i].text = "response"
      PROVE  treated'[j].text = "response"
  <2>1. /\ sent \in Seq(Message) /\ sent' \in Seq(Message)
        /\ treated[i] = treatment(sent, i, age) /\ Remembered
    BY <1>1 DEF PipelineInv, EngineInv
  <2>2. age \in Ages /\ Len(sent) \in Nat /\ Len(sent') \in Nat
    BY <1>1, <2>1 DEF PipelineInv, EngineInv
  <2>3. treated'[j] = treatment(sent', j, age)
    BY <1>1 DEF PipelineInv, EngineInv
  <2>4. j <= i
    <3>1. CASE CompressRequest
      <4>1. sent' = working /\ cuts = {} /\ stage = "engine"
        BY <1>1, <3>1 DEF CompressRequest, Engine, Pass, Goto
      <4>2. sent' = history
        BY <1>1, <4>1 DEF PipelineInv, UncutInv
      <4>3. j \in 1..Len(history) /\ history[j] = sent[i]
        BY <1>1, <4>2
      <4>4. QED
        BY <2>1, <4>3 DEF Remembered
    <3>2. CASE UNCHANGED engineVars
      <4>1. j \in 1..Len(sent) /\ sent[j] = sent[i]
        BY <1>1, <3>2 DEF engineVars
      <4>2. j = i
        BY <2>1, <4>1 DEF Remembered
      <4>3. QED
        BY <2>2, <4>2
    <3>3. QED
      BY <1>1, <3>1, <3>2 DEF RNext, allVars, engineVars
  <2>5. /\ response_cutoff(Len(sent), age) \in Int /\ response_cutoff(Len(sent'), age) \in Int
        /\ response_cutoff(Len(sent), age) <= response_cutoff(Len(sent'), age)
    BY <1>1, <2>2, CutoffGrows
  <2>6. sent[i].role = "assistant" /\ i <= response_cutoff(Len(sent), age)
    BY <1>1, <2>1, TreatmentIs
  <2>7. sent'[j].role = "assistant" /\ j <= response_cutoff(Len(sent'), age)
    BY <1>1, <2>2, <2>4, <2>5, <2>6
  <2>8. QED
    BY <2>3, <2>7, TreatmentIs
<1>2. PipelineInv /\ PipelineInv' /\ [RNext]_allVars
        => [whole /\ whole' /\ age' = age /\ Len(sent') >= Len(sent) =>
              \A i \in 1..Len(sent) : \A j \in 1..Len(sent') :
                sent'[j] = sent[i] /\ treated[i].text = "response"
                  => treated'[j].text = "response"]_allVars
  BY <1>1
<1>3. QED
  BY <1>2, PipelineInvariance, PTL DEF RSpec, PrefixStaysCached

\* Among the last n messages of a list in which questions and answers alternate, half
\* are answers.
LEMMA HalfAreAnswers ==
  ASSUME sent \in Seq(Message), Alternating(sent), NEW n \in 0..Len(sent)
  PROVE  /\ IsFiniteSet(TurnsFrom(Len(sent) - n + 1))
         /\ Cardinality(TurnsFrom(Len(sent) - n + 1)) = n \div 2
<1> DEFINE L == Len(sent)
           P == {k \in Nat : k <= L => /\ IsFiniteSet(TurnsFrom(L - k + 1))
                                       /\ Cardinality(TurnsFrom(L - k + 1)) = k \div 2}
<1>1. L \in Nat
  OBVIOUS
<1> HIDE DEF L
<1>2. 0 \in P
  <2>1. TurnsFrom(L - 0 + 1) = {}
    BY <1>1 DEF TurnsFrom, L
  <2>2. IsFiniteSet({}) /\ Cardinality({}) = 0 /\ 0 \div 2 = 0
    BY FS_EmptySet
  <2>3. QED
    BY <2>1, <2>2
<1>3. ASSUME NEW k \in Nat, k \in P PROVE k + 1 \in P
  <2> SUFFICES ASSUME k + 1 <= L
               PROVE  /\ IsFiniteSet(TurnsFrom(L - (k + 1) + 1))
                      /\ Cardinality(TurnsFrom(L - (k + 1) + 1)) = (k + 1) \div 2
    OBVIOUS
  <2> DEFINE i == L - k
             Before == TurnsFrom(i + 1)
  <2>1. i \in 1..L /\ L - (k + 1) + 1 = i /\ L - k + 1 = i + 1 /\ L - i = k
    BY <1>1
  <2>2. IsFiniteSet(Before) /\ Cardinality(Before) = k \div 2
    BY <1>1, <1>3, <2>1
  <2> HIDE DEF i
  <2>3. sent[i].role = IF k % 2 = 0 THEN "user" ELSE "assistant"
    BY <2>1 DEF Alternating, L
  <2>4. i \notin Before
    BY <2>1 DEF TurnsFrom
  <2>5. CASE k % 2 = 0
    <3>1. TurnsFrom(i) = Before
      BY <1>1, <2>1, <2>3, <2>5 DEF TurnsFrom, L
    <3>2. (k + 1) \div 2 = k \div 2
      BY <2>5
    <3>3. QED
      BY <2>1, <2>2, <3>1, <3>2
  <2>6. CASE k % 2 # 0
    <3>1. TurnsFrom(i) = Before \cup {i}
      BY <1>1, <2>1, <2>3, <2>6 DEF TurnsFrom, L
    <3>2. (k + 1) \div 2 = k \div 2 + 1
      BY <2>6
    <3>3. IsFiniteSet(Before \cup {i}) /\ Cardinality(Before \cup {i}) = Cardinality(Before) + 1
      BY <2>2, <2>4, FS_AddElement
    <3>4. QED
      BY <2>1, <2>2, <3>1, <3>2, <3>3
  <2>7. QED
    BY <2>5, <2>6
<1>4. Nat \subseteq P
  <2> HIDE DEF P
  <2> QED BY <1>2, <1>3, NatInductionSet
<1>5. n \in P /\ n <= L
  BY <1>4 DEF L
<1>6. QED
  BY <1>5 DEF L

\* "Only compress assistant turns older than 4 from the end" (README.md:225), for any
\* age: where questions and answers alternate, compress_request leaves exactly the
\* newest answers alone, as many as the age says.
THEOREM NewestTurnsAlwaysIntact ==
  RSpec => []NewestTurnsIntactIfAlternating
<1>1. ASSUME PipelineInv, Alternating(sent), Fits(age), NEW i \in 1..Len(sent),
             sent[i].role = "assistant"
      PROVE  treated[i].text = "kept" <=> Cardinality(TurnsFrom(i)) <= age
  <2> DEFINE n == Len(sent) - i + 1
             last == response_cutoff(Len(sent), age)
  <2>1. /\ sent \in Seq(Message) /\ Len(sent) \in Nat /\ age \in Ages
        /\ treated[i] = treatment(sent, i, age)
    BY <1>1 DEF PipelineInv, EngineInv
  <2>2. age \in Nat
    BY <2>1, AgesAssumption
  <2>3. n \in 0..Len(sent) /\ Len(sent) - n + 1 = i /\ n = Len(sent) - i + 1
    BY <2>1
  <2>4. n % 2 = 0
    <3>1. (Len(sent) - i) % 2 # 0
      BY <1>1 DEF Alternating
    <3>2. QED
      BY <2>1, <3>1
  <2> HIDE DEF n
  <2>5. Cardinality(TurnsFrom(i)) = n \div 2
    BY <1>1, <2>1, <2>3, HalfAreAnswers
  <2>6. Wrap(age * 2) = age * 2
    BY <1>1, <2>2, AgesAssumption DEF Fits, Wrap
  <2>7. last = IF age * 2 > Len(sent) THEN 0 ELSE Len(sent) - age * 2
    BY <2>6 DEF response_cutoff, saturating_sub
  <2> HIDE DEF last
  <2>8. n \div 2 <= age <=> n <= age * 2
    BY <2>2, <2>3, <2>4
  <2>9. i <= last <=> ~(n <= age * 2)
    BY <2>1, <2>2, <2>3, <2>7
  <2>10. treated[i].text = "kept" <=> ~(i <= last)
    BY <1>1, <2>1, TreatmentIs DEF last
  <2>11. QED
    BY <2>5, <2>8, <2>9, <2>10
<1>2. PipelineInv => NewestTurnsIntactIfAlternating
  BY <1>1 DEF NewestTurnsIntactIfAlternating
<1>3. QED
  BY <1>2, PipelineInvariance, PTL

===============================================================================
