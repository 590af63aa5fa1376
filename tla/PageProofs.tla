----------------------------- MODULE PageProofs -----------------------------
(***************************************************************************)
(* Proofs about the two modelled pages of the web front end: Playground,   *)
(* for any number of streams and chunks, and SettingsForm at the end.      *)
(*                                                                         *)
(* The playground's invariant PageInv has two halves.  Structure holds     *)
(* always: streams are numbered in the order they are opened, stream s was *)
(* opened for the message of key 2 * s, and the keys of a list are         *)
(* distinct.  Tracked and Answers hold until a control that should wait is *)
(* used while an answer is generated: an open stream is the one in the     *)
(* ref, its answer is the last message and the only unfinished one, and a  *)
(* page that shows nothing being generated renders the current list.  So   *)
(* an event that updates "the last assistant message" meets its own        *)
(* answer, and a click that starts from the rendered list loses nothing.   *)
(***************************************************************************)
EXTENDS Playground, SettingsForm, FiniteSums, SequenceTheorems, TLAPS

\* The number of streams opened so far.
Count == Cardinality(Used)

\* Messages with distinct keys up to k, of which the user's have no status.
WellFormed(list, k) ==
    /\ list \in Seq(Message)
    /\ \A i \in 1..Len(list) : list[i].key <= k
    /\ \A i, j \in 1..Len(list) : list[i].key = list[j].key => i = j
    /\ \A i \in 1..Len(list) : list[i].from = "user" => list[i].status = "none"

\* Holds whatever controls are used.
Structure ==
    /\ TypeOK
    /\ Used = 1..Count /\ Count \in 0..MaxSends
    /\ \A s \in Sids : owner[s] = IF s \in Used THEN 2 * s ELSE NoKey
    /\ \A s \in Sids : source[s] = "unused" => chunks[s] = 0
    /\ ref # NoStream => ref \in Used
    /\ WellFormed(msgs, 2 * Count) /\ WellFormed(view, 2 * Count)

\* An answer consists of the chunks of its stream.
OwnChunks(m, own, num) ==
    m.from = "assistant" =>
        /\ \A p \in Received(m) : p[1] # 0 => own[p[1]] = m.key
        /\ \A s \in Sids : own[s] = m.key /\ {Edited, Failed} \cap Received(m) = {}
              => /\ Received(m) = {s} \X (1..num[s])
                 /\ Len(m.content) + Len(m.reasoning) = num[s]
        /\ \A a, b \in DOMAIN m.content : a < b => m.content[a][2] < m.content[b][2]

Marked(m) == {Typed, Edited, Failed} \cap Received(m) # {}

\* The last message is the unfinished answer of stream s.
AwaitsAnswer(s) ==
    /\ Len(msgs) > 0
    /\ msgs[Len(msgs)].from = "assistant"
    /\ msgs[Len(msgs)].status \in Active
    /\ msgs[Len(msgs)].key = owner[s]

Tracked ==
    /\ \A s \in Sids : source[s] = "open" => ref = s /\ ~complete /\ AwaitsAnswer(s)
    /\ \A i \in 1..Len(msgs) : msgs[i].status \in Active =>
          i = Len(msgs) /\ ref # NoStream /\ owner[ref] = msgs[i].key
    /\ ref # NoStream => gen
    /\ ~gen => view = msgs

Answers ==
    /\ ~unfinished
    /\ \A i \in 1..Len(msgs) :
          /\ OwnChunks(msgs[i], owner, chunks)
          /\ msgs[i].status \in Active => ~Marked(msgs[i])

PageInv == Structure /\ (~interrupted => Tracked /\ Answers)

-----------------------------------------------------------------------------
(* Lists of messages *)

\* The fields of a message, with keys that are positive numbers.
LEMMA MessageFields ==
  ASSUME NEW m \in Message
  PROVE  /\ m.key \in Keys /\ m.key \in Nat /\ m.key > 0
         /\ m.from \in {"user", "assistant"}
         /\ m.status \in {"none", "loading", "streaming", "complete", "error"}
         /\ m.content \in Seq(Pieces) /\ m.reasoning \in Seq(Pieces)
         /\ m.thinking \in BOOLEAN
  <1>1. m.key \in Keys
    BY DEF Message
  <1>2. \A k \in Keys : k \in Nat /\ k > 0
    BY PlaygroundAssumption DEF Keys
  <1>3. QED
    BY <1>1, <1>2 DEF Message

\* A list of messages as a function.
LEMMA ListFacts ==
  ASSUME NEW list \in Seq(Message)
  PROVE  /\ Len(list) \in Nat /\ DOMAIN list = 1..Len(list)
         /\ \A i \in 1..Len(list) : list[i] \in Message
  OBVIOUS

\* A function from 1..n to messages is a list of n messages.
LEMMA ListOf ==
  ASSUME NEW n \in Nat, NEW f, f = [i \in 1..n |-> f[i]], \A i \in 1..n : f[i] \in Message
  PROVE  f \in Seq(Message) /\ Len(f) = n
  <1>1. f \in [1..n -> Message]
    OBVIOUS
  <1>2. f \in Seq(Message)
    BY <1>1, IsASeq
  <1>3. QED
    BY <1>1, <1>2

\* updateLastAssistantMessage changes the last message if it is the assistant's.
LEMMA UpdateFacts ==
  ASSUME NEW list \in Seq(Message), NEW updated,
         \A i \in 1..Len(list) : updated[i] \in Message
  PROVE  LET new == UpdateLastAssistant(list, updated) IN
         /\ new \in Seq(Message) /\ Len(new) = Len(list)
         /\ \A i \in 1..Len(list) :
              new[i] = IF i = Len(list) /\ list[i].from = "assistant" THEN updated[i] ELSE list[i]
  <1> DEFINE new == UpdateLastAssistant(list, updated)
  <1>1. Len(list) \in Nat /\ DOMAIN list = 1..Len(list) /\ \A i \in 1..Len(list) : list[i] \in Message
    BY ListFacts
  <1>2. \A i \in 1..Len(list) :
           new[i] = IF i = Len(list) /\ list[i].from = "assistant" THEN updated[i] ELSE list[i]
    BY <1>1 DEF UpdateLastAssistant
  <1>3. new = [i \in 1..Len(list) |-> new[i]]
    BY <1>1 DEF UpdateLastAssistant
  <1>4. \A i \in 1..Len(list) : new[i] \in Message
    BY <1>1, <1>2
  <1> HIDE DEF new
  <1>5. new \in Seq(Message) /\ Len(new) = Len(list)
    BY <1>1, <1>3, <1>4, ListOf
  <1>6. QED
    BY <1>2, <1>5 DEF new

\* A change of the last message that keeps its key and sender.
Touches(list, new) ==
    /\ new \in Seq(Message) /\ Len(new) = Len(list)
    /\ \A i \in 1..Len(list) :
         /\ new[i].key = list[i].key /\ new[i].from = list[i].from
         /\ new[i] # list[i] => list[i].from = "assistant"

\* A list whose messages keep their keys and senders stays well formed.
LEMMA TouchWellFormed ==
  ASSUME NEW k \in Nat, NEW list, WellFormed(list, k), NEW new, Touches(list, new)
  PROVE  WellFormed(new, k)
  BY DEF WellFormed, Touches

(* Without is a recursive function: it exists, and what it holds follows   *)
(* by induction over the position.                                         *)

KeptAt(f, list, k, n) ==
    IF n = 0 THEN <<>>
    ELSE IF list[n].key = k THEN f[n - 1] ELSE Append(f[n - 1], list[n])

IsKept(f, list, k) == f = [n \in 0..Len(list) |-> KeptAt(f, list, k, n)]

\* What the first n messages of a list leave.
KeptOf(new, list, n) ==
    /\ new \in Seq(Message)
    /\ \A a \in 1..Len(new) : \E i \in 1..n : new[a] = list[i]
    /\ \A a, b \in 1..Len(new) : new[a].key = new[b].key => a = b

\* The recursive function of Without exists.
LEMMA KeptExists ==
  ASSUME NEW list \in Seq(Message), NEW k
  PROVE  \E f : IsKept(f, list, k)
  <1> DEFINE OK(f, n) == \A j \in 0..n : f[j] = KeptAt(f, list, k, j)
             Has(n) == \E f \in [0..n -> Seq(Message)] : OK(f, n)
             T == {n \in Nat : n <= Len(list) => Has(n)}
  <1>1. Len(list) \in Nat /\ \A i \in 1..Len(list) : list[i] \in Message
    BY ListFacts
  <1>2. 0 \in T
    <2> DEFINE f == [j \in 0..0 |-> <<>>]
    <2>1. f \in [0..0 -> Seq(Message)]
      OBVIOUS
    <2>2. OK(f, 0)
      BY DEF KeptAt
    <2>3. QED
      BY <2>1, <2>2
  <1>3. ASSUME NEW n \in Nat, n \in T PROVE n + 1 \in T
    <2> HIDE DEF Has
    <2> SUFFICES ASSUME n + 1 <= Len(list) PROVE Has(n + 1)
      OBVIOUS
    <2>0. Has(n)
      BY <1>1, <1>3
    <2> USE DEF Has
    <2>1. PICK f \in [0..n -> Seq(Message)] : OK(f, n)
      BY <2>0
    <2> DEFINE g == [j \in 0..(n + 1) |-> IF j <= n THEN f[j] ELSE KeptAt(f, list, k, n + 1)]
    <2>2. f[n] \in Seq(Message) /\ list[n + 1] \in Message
      BY <1>1, <2>1
    <2>3. KeptAt(f, list, k, n + 1) \in Seq(Message)
      BY <2>2 DEF KeptAt
    <2>4. g \in [0..(n + 1) -> Seq(Message)]
      BY <2>1, <2>3
    <2>5. ASSUME NEW j \in 0..(n + 1) PROVE g[j] = KeptAt(g, list, k, j)
      <3>1. j # 0 => g[j - 1] = f[j - 1]
        OBVIOUS
      <3>2. KeptAt(g, list, k, j) = KeptAt(f, list, k, j)
        BY <3>1 DEF KeptAt
      <3>3. QED
        BY <2>1, <3>2
    <2> HIDE DEF g
    <2>6. QED
      BY <2>4, <2>5
  <1> HIDE DEF T
  <1>4. Len(list) \in T
    BY <1>1, <1>2, <1>3, NatSetInduction
  <1> USE DEF T
  <1>5. PICK f \in [0..Len(list) -> Seq(Message)] : OK(f, Len(list))
    BY <1>1, <1>4
  <1>6. f = [n \in 0..Len(list) |-> KeptAt(f, list, k, n)]
    BY <1>5
  <1>7. QED
    BY <1>6 DEF IsKept

\* By induction on the prefix: what the filter has kept of it.
LEMMA KeptFacts ==
  ASSUME NEW list \in Seq(Message), NEW k, NEW f, IsKept(f, list, k),
         \A i, j \in 1..Len(list) : list[i].key = list[j].key => i = j
  PROVE  KeptOf(f[Len(list)], list, Len(list))
  <1> DEFINE T == {n \in Nat : n <= Len(list) => KeptOf(f[n], list, n)}
  <1>1. Len(list) \in Nat /\ \A i \in 1..Len(list) : list[i] \in Message
    BY ListFacts
  <1>2. \A n \in 0..Len(list) : f[n] = KeptAt(f, list, k, n)
    BY DEF IsKept
  <1>3. 0 \in T
    <2>1. f[0] = <<>>
      BY <1>1, <1>2 DEF KeptAt
    <2>2. KeptOf(<<>>, list, 0)
      BY DEF KeptOf
    <2>3. QED
      BY <2>1, <2>2
  <1>4. ASSUME NEW n \in Nat, n \in T PROVE n + 1 \in T
    <2> SUFFICES ASSUME n + 1 <= Len(list) PROVE KeptOf(f[n + 1], list, n + 1)
      OBVIOUS
    <2>1. KeptOf(f[n], list, n)
      BY <1>1, <1>4
    <2>2. PICK old : old = f[n]
      OBVIOUS
    <2>3. f[n + 1] = IF list[n + 1].key = k THEN old ELSE Append(old, list[n + 1])
      BY <1>1, <1>2, <2>2 DEF KeptAt
    <2>4. CASE list[n + 1].key = k
      BY <2>1, <2>2, <2>3, <2>4 DEF KeptOf
    <2>5. CASE list[n + 1].key # k
      <3>1. old \in Seq(Message) /\ list[n + 1] \in Message
        BY <1>1, <2>1, <2>2 DEF KeptOf
      <3>2. PICK new : new = Append(old, list[n + 1])
        OBVIOUS
      <3>3. /\ new \in Seq(Message) /\ Len(new) = Len(old) + 1 /\ Len(old) \in Nat
            /\ \A a \in 1..Len(old) : new[a] = old[a]
            /\ new[Len(old) + 1] = list[n + 1]
        BY <3>1, <3>2
      <3>4. \A a \in 1..Len(old) : \E i \in 1..n : old[a] = list[i]
        BY <2>1, <2>2 DEF KeptOf
      <3>5. ASSUME NEW a \in 1..Len(new) PROVE \E i \in 1..(n + 1) : new[a] = list[i]
        BY <3>3, <3>4
      <3>6. \A a \in 1..Len(old) : new[a].key # list[n + 1].key
        BY <3>3, <3>4, <1>1
      <3>7. \A a, b \in 1..Len(old) : old[a].key = old[b].key => a = b
        BY <2>1, <2>2 DEF KeptOf
      <3>8. \A a, b \in 1..Len(new) : new[a].key = new[b].key => a = b
        BY <3>3, <3>6, <3>7
      <3>9. QED
        BY <2>3, <2>5, <3>2, <3>3, <3>5, <3>8 DEF KeptOf
    <2>6. QED
      BY <2>4, <2>5
  <1> HIDE DEF T
  <1>5. Len(list) \in T
    BY <1>1, <1>3, <1>4, NatSetInduction
  <1>6. QED
    BY <1>1, <1>5 DEF T

\* Deleting a message keeps the others, in their order.
LEMMA WithoutFacts ==
  ASSUME NEW list \in Seq(Message), NEW k,
         \A i, j \in 1..Len(list) : list[i].key = list[j].key => i = j
  PROVE  KeptOf(Without(list, k), list, Len(list))
  <1>1. PICK f : f = CHOOSE g : IsKept(g, list, k)
    OBVIOUS
  <1>2. IsKept(f, list, k)
    BY <1>1, KeptExists, Zenon
  <1>3. Without(list, k) = f[Len(list)]
    BY <1>1, Zenon DEF Without, IsKept, KeptAt
  <1>4. QED
    BY <1>2, <1>3, KeptFacts

\* Deleting a message keeps a list well formed.
LEMMA WithoutWellFormed ==
  ASSUME NEW k \in Nat, NEW list, WellFormed(list, k), NEW x
  PROVE  WellFormed(Without(list, x), k)
  <1>1. KeptOf(Without(list, x), list, Len(list))
    BY WithoutFacts DEF WellFormed
  <1>2. PICK new : new = Without(list, x)
    OBVIOUS
  <1>3. new \in Seq(Message) /\ \A a \in 1..Len(new) : \E i \in 1..Len(list) : new[a] = list[i]
    BY <1>1, <1>2 DEF KeptOf
  <1>4. \A a, b \in 1..Len(new) : new[a].key = new[b].key => a = b
    BY <1>1, <1>2 DEF KeptOf
  <1>5. WellFormed(new, k)
    BY <1>3, <1>4 DEF WellFormed
  <1>6. QED
    BY <1>2, <1>5

(* The list a stream is opened for: messages of the view, possibly an      *)
(* edited or a new one of the user, and the answer to come.                *)

FromBase(m, base, k) ==
    \/ \E i \in 1..Len(base) : m = base[i]
    \/ /\ m.from = "user"
       /\ m.key > k \/ \E i \in 1..Len(base) : base[i].key = m.key /\ base[i].from = "user"

Opening(list, base, k) ==
    /\ WellFormed(list, k + 2)
    /\ Len(list) > 0
    /\ list[Len(list)] = LoadingMessage(k + 2)
    /\ \A j \in 1..(Len(list) - 1) : FromBase(list[j], base, k)

\* The messages that a send appends.
LEMMA NewMessages ==
  ASSUME NEW k \in Keys
  PROVE  /\ UserMessage(k) \in Message /\ UserMessage(k).key = k
         /\ UserMessage(k).from = "user" /\ UserMessage(k).status = "none"
         /\ LoadingMessage(k) \in Message /\ LoadingMessage(k).key = k
         /\ LoadingMessage(k).from = "assistant" /\ LoadingMessage(k).status = "loading"
  <1>1. <<Typed>> \in Seq(Pieces) /\ <<>> \in Seq(Pieces)
    BY DEF Pieces
  <1>2. UserMessage(k) \in Message
    BY <1>1 DEF UserMessage, Message
  <1>3. LoadingMessage(k) \in Message
    BY <1>1 DEF LoadingMessage, Message
  <1>4. QED
    BY <1>2, <1>3 DEF UserMessage, LoadingMessage

\* The messages before the one that is answered again.
LEMMA PrefixFacts ==
  ASSUME NEW list \in Seq(Message), NEW n \in 0..Len(list)
  PROVE  /\ SubSeq(list, 1, n) \in Seq(Message) /\ Len(SubSeq(list, 1, n)) = n
         /\ \A i \in 1..n : SubSeq(list, 1, n)[i] = list[i]
  <1>1. Len(list) \in Nat
    BY ListFacts
  <1>2. QED
    BY <1>1, SubSeqProperties

\* A prefix of a well-formed list is well formed.
LEMMA PrefixWellFormed ==
  ASSUME NEW k \in Nat, NEW list, WellFormed(list, k), NEW n \in 0..Len(list)
  PROVE  WellFormed(SubSeq(list, 1, n), k)
  <1>1. PICK part : part = SubSeq(list, 1, n)
    OBVIOUS
  <1>2. Len(list) \in Nat
    BY ListFacts DEF WellFormed
  <1>3. part \in Seq(Message) /\ Len(part) = n /\ \A i \in 1..n : part[i] = list[i]
    BY <1>1, PrefixFacts DEF WellFormed
  <1>4. \A i \in 1..Len(part) : i \in 1..Len(list) /\ part[i] = list[i]
    BY <1>2, <1>3
  <1>5. WellFormed(part, k)
    BY <1>3, <1>4 DEF WellFormed
  <1>6. QED
    BY <1>1, <1>5

\* A list with one message more.
LEMMA AppendOneFacts ==
  ASSUME NEW list \in Seq(Message), NEW m \in Message
  PROVE  LET new == list \o <<m>> IN
         /\ new \in Seq(Message) /\ Len(new) = Len(list) + 1
         /\ \A i \in 1..Len(list) : new[i] = list[i]
         /\ new[Len(list) + 1] = m
  <1>1. Len(list) \in Nat
    BY ListFacts
  <1>2. <<m>> \in Seq(Message) /\ Len(<<m>>) = 1 /\ <<m>>[1] = m
    OBVIOUS
  <1>3. QED
    BY <1>1, <1>2, ConcatProperties

\* A list with two messages more.
LEMMA AppendTwoFacts ==
  ASSUME NEW list \in Seq(Message), NEW m \in Message, NEW o \in Message
  PROVE  LET new == list \o <<m, o>> IN
         /\ new \in Seq(Message) /\ Len(new) = Len(list) + 2
         /\ \A i \in 1..Len(list) : new[i] = list[i]
         /\ new[Len(list) + 1] = m /\ new[Len(list) + 2] = o
  <1>1. Len(list) \in Nat
    BY ListFacts
  <1>2. <<m, o>> \in Seq(Message) /\ Len(<<m, o>>) = 2 /\ <<m, o>>[1] = m /\ <<m, o>>[2] = o
    OBVIOUS
  <1>3. QED
    BY <1>1, <1>2, ConcatProperties

\* A send opens a stream for a list made of the old one and two new messages.
LEMMA OpeningAfterAll ==
  ASSUME NEW k \in Nat, k + 2 \in Keys, NEW base, WellFormed(base, k)
  PROVE  Opening(base \o <<UserMessage(k + 1), LoadingMessage(k + 2)>>, base, k)
  <1>1. k + 1 \in Keys
    BY PlaygroundAssumption DEF Keys
  <1>2. PICK u, l : u = UserMessage(k + 1) /\ l = LoadingMessage(k + 2)
    OBVIOUS
  <1>3. /\ u \in Message /\ u.key = k + 1 /\ u.from = "user" /\ u.status = "none"
        /\ l \in Message /\ l.key = k + 2 /\ l.from = "assistant"
    BY <1>1, <1>2, NewMessages
  <1>4. base \in Seq(Message) /\ Len(base) \in Nat
    BY ListFacts DEF WellFormed
  <1>5. PICK new : new = base \o <<u, l>>
    OBVIOUS
  <1>6. /\ new \in Seq(Message) /\ Len(new) = Len(base) + 2
        /\ \A i \in 1..Len(base) : new[i] = base[i]
        /\ new[Len(base) + 1] = u /\ new[Len(base) + 2] = l
    BY <1>3, <1>4, <1>5, AppendTwoFacts
  <1>7. \A i \in 1..Len(new) : i \in 1..Len(base) \/ i = Len(base) + 1 \/ i = Len(base) + 2
    BY <1>4, <1>6
  <1>8. \A i \in 1..Len(base) : new[i].key <= k
    BY <1>6 DEF WellFormed
  <1>9. \A i \in 1..Len(new) : new[i].key <= k + 2
    <2>1. \A i \in 1..Len(base) : new[i].key \in Int
      BY <1>4, <1>6, ListFacts, MessageFields
    <2>2. QED
      BY <1>3, <1>6, <1>7, <1>8, <2>1
  <1>10. \A i, j \in 1..Len(new) : new[i].key = new[j].key => i = j
    <2>1. \A i \in 1..Len(base) : new[i].key \in Int
      BY <1>4, <1>6, ListFacts, MessageFields
    <2>2. \A i, j \in 1..Len(base) : new[i].key = new[j].key => i = j
      BY <1>6 DEF WellFormed
    <2>3. QED
      BY <1>3, <1>6, <1>7, <1>8, <2>1, <2>2
  <1>11. \A i \in 1..Len(new) : new[i].from = "user" => new[i].status = "none"
    <2>1. \A i \in 1..Len(base) : new[i].from = "user" => new[i].status = "none"
      BY <1>6 DEF WellFormed
    <2>2. QED
      BY <1>3, <1>6, <1>7, <2>1
  <1>12. \A j \in 1..(Len(new) - 1) : FromBase(new[j], base, k)
    <2>1. \A j \in 1..Len(base) : FromBase(new[j], base, k)
      BY <1>6 DEF FromBase
    <2>2. FromBase(new[Len(base) + 1], base, k)
      BY <1>3, <1>6 DEF FromBase
    <2>3. QED
      BY <1>4, <1>6, <1>7, <2>1, <2>2
  <1>13. WellFormed(new, k + 2)
    BY <1>6, <1>9, <1>10, <1>11 DEF WellFormed
  <1>14. QED
    BY <1>2, <1>4, <1>5, <1>6, <1>12, <1>13 DEF Opening

\* A regeneration or a submitted edit does so for a part of the old list.
LEMMA OpeningAfterSome ==
  ASSUME NEW k \in Nat, k + 2 \in Keys, NEW base, NEW part, WellFormed(part, k),
         \A j \in 1..Len(part) : FromBase(part[j], base, k)
  PROVE  Opening(part \o <<LoadingMessage(k + 2)>>, base, k)
  <1>1. PICK l : l = LoadingMessage(k + 2)
    OBVIOUS
  <1>2. l \in Message /\ l.key = k + 2 /\ l.from = "assistant"
    BY <1>1, NewMessages
  <1>3. part \in Seq(Message) /\ Len(part) \in Nat
    BY ListFacts DEF WellFormed
  <1>4. PICK new : new = part \o <<l>>
    OBVIOUS
  <1>5. /\ new \in Seq(Message) /\ Len(new) = Len(part) + 1
        /\ \A i \in 1..Len(part) : new[i] = part[i]
        /\ new[Len(part) + 1] = l
    BY <1>2, <1>3, <1>4, AppendOneFacts
  <1>6. \A i \in 1..Len(new) : i \in 1..Len(part) \/ i = Len(part) + 1
    BY <1>3, <1>5
  <1>7. \A i \in 1..Len(part) : new[i].key <= k /\ new[i].key \in Int
    <2>1. \A i \in 1..Len(part) : new[i].key \in Int
      BY <1>3, <1>5, ListFacts, MessageFields
    <2>2. QED
      BY <1>5, <2>1 DEF WellFormed
  <1>8. \A i, j \in 1..Len(part) : new[i].key = new[j].key => i = j
    BY <1>5 DEF WellFormed
  <1>9. \A i, j \in 1..Len(new) : new[i].key = new[j].key => i = j
    BY <1>2, <1>5, <1>6, <1>7, <1>8
  <1>10. \A i \in 1..Len(new) : new[i].key <= k + 2
    BY <1>2, <1>5, <1>6, <1>7
  <1>11. \A i \in 1..Len(part) : new[i].from = "user" => new[i].status = "none"
    BY <1>5 DEF WellFormed
  <1>12. \A i \in 1..Len(new) : new[i].from = "user" => new[i].status = "none"
    BY <1>2, <1>5, <1>6, <1>11
  <1>13. \A j \in 1..(Len(new) - 1) : FromBase(new[j], base, k)
    BY <1>3, <1>5
  <1>14. WellFormed(new, k + 2)
    BY <1>5, <1>9, <1>10, <1>12 DEF WellFormed
  <1>15. QED
    BY <1>1, <1>3, <1>4, <1>5, <1>13, <1>14 DEF Opening

\* The message of a failed answer.
Erred(m) == [m EXCEPT !.content = <<Failed>>, !.status = "error", !.thinking = FALSE]

\* What an error leaves of a message.
LEMMA ErredFacts ==
  ASSUME NEW m \in Message
  PROVE  /\ Erred(m) \in Message /\ Erred(m).key = m.key /\ Erred(m).from = m.from
         /\ Erred(m).status = "error" /\ Erred(m).content = <<Failed>>
         /\ Erred(m).reasoning = m.reasoning
  <1>1. <<Failed>> \in Seq(Pieces)
    BY DEF Pieces
  <1>2. Erred(m) \in Message
    BY <1>1 DEF Erred, Message
  <1>3. QED
    BY <1>2 DEF Erred, Message

\* An error changes the last message if it is the assistant's.
LEMMA WithErrorFacts ==
  ASSUME NEW list \in Seq(Message)
  PROVE  /\ Touches(list, WithError(list))
         /\ \A i \in 1..Len(list) : WithError(list)[i] =
              IF i = Len(list) /\ list[i].from = "assistant" THEN Erred(list[i]) ELSE list[i]
  <1> DEFINE updated == [i \in DOMAIN list |-> Erred(list[i])]
  <1>1. DOMAIN list = 1..Len(list) /\ \A i \in 1..Len(list) : list[i] \in Message
    BY ListFacts
  <1>2. \A i \in 1..Len(list) : updated[i] = Erred(list[i]) /\ updated[i] \in Message
    BY <1>1, ErredFacts
  <1>3. WithError(list) = UpdateLastAssistant(list, updated)
    BY DEF WithError, Erred
  <1> HIDE DEF updated
  <1>4. PICK new : new = WithError(list)
    OBVIOUS
  <1>5. /\ new \in Seq(Message) /\ Len(new) = Len(list)
        /\ \A i \in 1..Len(list) :
             new[i] = IF i = Len(list) /\ list[i].from = "assistant" THEN Erred(list[i]) ELSE list[i]
    BY <1>2, <1>3, <1>4, UpdateFacts
  <1>6. Touches(list, new)
    BY <1>1, <1>5, ErredFacts DEF Touches
  <1>7. QED
    BY <1>4, <1>5, <1>6

\* An edit changes the text of one message and nothing else.
LEMMA EditFacts ==
  ASSUME NEW k \in Nat, WellFormed(view, k), NEW i \in 1..Len(view)
  PROVE  /\ WellFormed(Edit(i), k) /\ Len(Edit(i)) = Len(view)
         /\ \A j \in 1..Len(view) : Edit(i)[j] =
              IF j = i THEN [view[i] EXCEPT !.content = <<Edited>>] ELSE view[j]
         /\ LET m == Edit(i)[i] IN
              /\ m.key = view[i].key /\ m.from = view[i].from /\ m.status = view[i].status
              /\ m.content = <<Edited>> /\ m.reasoning = view[i].reasoning
  <1>1. view \in Seq(Message) /\ Len(view) \in Nat /\ DOMAIN view = 1..Len(view)
    BY ListFacts DEF WellFormed
  <1>2. \A j \in 1..Len(view) : view[j] \in Message
    BY <1>1, ListFacts
  <1>3. PICK m : m = [view[i] EXCEPT !.content = <<Edited>>]
    OBVIOUS
  <1>4. <<Edited>> \in Seq(Pieces)
    BY DEF Pieces
  <1>5. /\ m \in Message /\ m.key = view[i].key /\ m.from = view[i].from
        /\ m.status = view[i].status /\ m.content = <<Edited>> /\ m.reasoning = view[i].reasoning
    <2>1. view[i] \in Message
      BY <1>2
    <2>2. QED
      BY <1>3, <1>4, <2>1 DEF Message
  <1>6. PICK new : new = Edit(i)
    OBVIOUS
  <1>7. new = [view EXCEPT ![i] = m]
    BY <1>3, <1>6 DEF Edit
  <1>8. /\ new = [j \in 1..Len(view) |-> new[j]]
        /\ \A j \in 1..Len(view) : new[j] = IF j = i THEN m ELSE view[j]
    BY <1>1, <1>7
  <1>9. new \in Seq(Message) /\ Len(new) = Len(view)
    BY <1>1, <1>2, <1>5, <1>8, ListOf
  <1>10. \A j \in 1..Len(view) : new[j].key = view[j].key /\ new[j].from = view[j].from
                                  /\ new[j].status = view[j].status
    BY <1>5, <1>8
  <1>11. WellFormed(new, k)
    BY <1>9, <1>10 DEF WellFormed
  <1>12. QED
    BY <1>3, <1>5, <1>6, <1>8, <1>9, <1>11

-----------------------------------------------------------------------------
(* Structure is kept by every step. *)

\* The streams opened so far are numbered from 1.
LEMMA IntervalCount ==
  ASSUME NEW n \in Nat PROVE Cardinality(1..n) = n
  BY FS_Interval

\* A stream that is opened: the next number, and the next two keys.
LEMMA OpenStructure ==
  ASSUME Structure, NEW list, Opening(list, view, FreshKey), OpenStream(list),
         editing' \in Keys \cup {NoKey}, interrupted' \in BOOLEAN
  PROVE  Structure' /\ Count' = Count + 1 /\ WellFormed(msgs', 2 * Count + 2)
  <1>1. PICK s : s = Count + 1
    OBVIOUS
  <1>2. Count \in Nat /\ Count < MaxSends /\ s \in Sids /\ s \notin Used
    BY <1>1, PlaygroundAssumption DEF Structure, OpenStream, Count, Sids
  <1>3. /\ complete' = FALSE
        /\ owner' = [owner EXCEPT ![s] = list[Len(list)].key]
        /\ source' \in {[source EXCEPT ![s] = "open"], [source EXCEPT ![s] = "closed"]}
        /\ ref' \in {s, NoStream} /\ chunks' = chunks
        /\ view' = msgs' /\ gen' = (ref' # NoStream)
    BY <1>1 DEF OpenStream, Count, RenderNow
  <1>4. Used' = 1..(Count + 1)
    <2>1. source \in [Sids -> {"unused", "open", "closed"}] /\ Used = 1..Count
      BY DEF Structure, TypeOK
    <2>2. Used' = Used \cup {s}
      BY <1>2, <1>3, <2>1 DEF Used
    <2>3. QED
      BY <1>1, <1>2, <2>1, <2>2
  <1>5. Count' = Count + 1
    BY <1>2, <1>4, IntervalCount DEF Count
  <1>6. list[Len(list)].key = 2 * s
    <2>1. FreshKey + 2 = 2 * s
      BY <1>1, <1>2 DEF FreshKey, Count
    <2>2. QED
      BY <2>1 DEF Opening, LoadingMessage
  <1>7. 2 * s \in Keys
    BY <1>2, PlaygroundAssumption DEF Keys, Sids
  <1>8. WellFormed(list, 2 * Count + 2)
    BY DEF Opening, FreshKey, Count
  <1>9. WellFormed(msgs', 2 * Count + 2)
    <2>1. CASE msgs' = list
      BY <1>8, <2>1
    <2>2. CASE msgs' = WithError(list)
      <3>1. Touches(list, msgs')
        BY <1>8, <2>2, WithErrorFacts DEF WellFormed
      <3>2. QED
        BY <1>2, <1>8, <3>1, TouchWellFormed
    <2>3. QED
      BY <2>1, <2>2 DEF OpenStream
  <1>10. TypeOK'
    <2>1. msgs' \in Seq(Message) /\ view' \in Seq(Message)
      BY <1>3, <1>9 DEF WellFormed
    <2>2. gen' \in BOOLEAN /\ complete' \in BOOLEAN
      BY <1>3
    <2>3. unfinished' \in BOOLEAN
      BY DEF OpenStream
    <2>4. ref' \in Sids \cup {NoStream}
      BY <1>2, <1>3
    <2>5. /\ source' \in [Sids -> {"unused", "open", "closed"}]
          /\ chunks' \in [Sids -> 0..MaxChunks]
          /\ owner' \in [Sids -> Keys \cup {NoKey}]
      BY <1>2, <1>3, <1>6, <1>7 DEF Structure, TypeOK
    <2>6. QED
      BY <2>1, <2>2, <2>3, <2>4, <2>5 DEF TypeOK
  <1>11. \A t \in Sids : owner'[t] = IF t \in Used' THEN 2 * t ELSE NoKey
    <2>1. owner \in [Sids -> Keys \cup {NoKey}] /\ Used = 1..Count
      BY DEF Structure, TypeOK
    <2>2. \A t \in Sids : owner[t] = IF t \in Used THEN 2 * t ELSE NoKey
      BY DEF Structure
    <2>3. \A t \in Sids \ {s} : t \in Used' <=> t \in Used
      BY <1>1, <1>2, <1>4, <2>1 DEF Sids
    <2>4. s \in Used'
      BY <1>1, <1>2, <1>4
    <2>5. owner'[s] = 2 * s /\ \A t \in Sids \ {s} : owner'[t] = owner[t]
      BY <1>2, <1>3, <1>6, <2>1
    <2>6. QED
      BY <2>2, <2>3, <2>4, <2>5
  <1>12. \A t \in Sids : source'[t] = "unused" => chunks'[t] = 0
    BY <1>2, <1>3 DEF Structure, TypeOK
  <1>13. 2 * Count' = 2 * Count + 2 /\ Count' \in 0..MaxSends
    BY <1>2, <1>5, PlaygroundAssumption
  <1>14. WellFormed(msgs', 2 * Count') /\ WellFormed(view', 2 * Count')
    BY <1>3, <1>9, <1>13
  <1>15. ref' # NoStream => ref' \in Used'
    BY <1>1, <1>2, <1>3, <1>4
  <1>16. QED
    BY <1>4, <1>5, <1>9, <1>10, <1>11, <1>12, <1>13, <1>14, <1>15 DEF Structure, WellFormed

\* A step that opens no stream and keeps the lists well formed.
LEMMA KeepStructure ==
  ASSUME Structure, WellFormed(msgs', 2 * Count), WellFormed(view', 2 * Count),
         owner' = owner,
         source' \in [Sids -> {"unused", "open", "closed"}],
         chunks' \in [Sids -> 0..MaxChunks],
         \A s \in Sids : source'[s] = "unused" <=> source[s] = "unused",
         \A s \in Sids : source[s] = "unused" => chunks'[s] = chunks[s],
         ref' \in {ref, NoStream}, editing' \in Keys \cup {NoKey},
         gen' \in BOOLEAN, complete' \in BOOLEAN,
         unfinished' \in BOOLEAN, interrupted' \in BOOLEAN
  PROVE  Structure' /\ Count' = Count
  <1>1. Used' = Used
    BY DEF Used
  <1>2. Count' = Count
    BY <1>1 DEF Count
  <1>3. TypeOK'
    BY DEF TypeOK, WellFormed, Structure
  <1>4. \A s \in Sids : owner'[s] = IF s \in Used' THEN 2 * s ELSE NoKey
    BY <1>1 DEF Structure
  <1>5. \A s \in Sids : source'[s] = "unused" => chunks'[s] = 0
    BY DEF Structure
  <1>6. WellFormed(msgs', 2 * Count') /\ WellFormed(view', 2 * Count')
    BY <1>2
  <1>7. Used' = 1..Count' /\ Count' \in 0..MaxSends /\ (ref' # NoStream => ref' \in Used')
    BY <1>1, <1>2 DEF Structure
  <1>8. QED
    BY <1>2, <1>3, <1>4, <1>5, <1>6, <1>7 DEF Structure, WellFormed

\* What the stream callbacks and Stop make of the last message.
WithContent(m, p) ==
    IF m.status = "error" THEN m
    ELSE [m EXCEPT !.content = Append(@, p), !.thinking = FALSE, !.status = "streaming"]
WithReasoning(m, p) ==
    IF m.status = "error" THEN m
    ELSE [m EXCEPT !.reasoning = Append(@, p), !.thinking = TRUE, !.status = "streaming"]
Completed(m) ==
    IF m.status \in {"complete", "error"} THEN m ELSE [Finalize(m) EXCEPT !.status = "complete"]
Stopped(m) ==
    IF m.status \in Active THEN [Finalize(m) EXCEPT !.status = "complete"] ELSE m

\* What a chunk makes of a message; an answer that failed takes none.
LEMMA ChunkFacts ==
  ASSUME NEW m \in Message, NEW p \in Pieces
  PROVE  /\ WithContent(m, p) \in Message
         /\ WithContent(m, p).key = m.key /\ WithContent(m, p).from = m.from
         /\ m.status # "error" =>
              /\ WithContent(m, p).status = "streaming"
              /\ WithContent(m, p).content = Append(m.content, p)
              /\ WithContent(m, p).reasoning = m.reasoning
         /\ WithReasoning(m, p) \in Message
         /\ WithReasoning(m, p).key = m.key /\ WithReasoning(m, p).from = m.from
         /\ m.status # "error" =>
              /\ WithReasoning(m, p).status = "streaming"
              /\ WithReasoning(m, p).content = m.content
              /\ WithReasoning(m, p).reasoning = Append(m.reasoning, p)
  <1>1. m.content \in Seq(Pieces) /\ m.reasoning \in Seq(Pieces)
    BY MessageFields
  <1>2. Append(m.content, p) \in Seq(Pieces) /\ Append(m.reasoning, p) \in Seq(Pieces)
    BY <1>1
  <1>3. WithContent(m, p) \in Message
    BY <1>2 DEF WithContent, Message
  <1>4. WithReasoning(m, p) \in Message
    BY <1>2 DEF WithReasoning, Message
  <1>5. QED
    BY <1>3, <1>4 DEF WithContent, WithReasoning, Message

\* What [DONE] and Stop make of a message.
LEMMA EndFacts ==
  ASSUME NEW m \in Message
  PROVE  /\ Completed(m) \in Message
         /\ Completed(m).key = m.key /\ Completed(m).from = m.from
         /\ Completed(m).content = m.content /\ Completed(m).reasoning = m.reasoning
         /\ Completed(m).status \notin Active
         /\ Stopped(m) \in Message
         /\ Stopped(m).key = m.key /\ Stopped(m).from = m.from
         /\ Stopped(m).content = m.content /\ Stopped(m).reasoning = m.reasoning
         /\ Stopped(m).status \notin Active
         /\ m.status \notin Active => Stopped(m) = m
  <1>1. Completed(m) \in Message
    BY DEF Completed, Finalize, Message
  <1>2. Stopped(m) \in Message
    BY DEF Stopped, Finalize, Message
  <1>3. QED
    BY <1>1, <1>2 DEF Completed, Stopped, Finalize, Message, Active

\* The last message of the list is replaced by m, if it is the assistant's.
Replaces(list, new, m) ==
    /\ Touches(list, new)
    /\ \A i \in 1..Len(list) :
         new[i] = IF i = Len(list) /\ list[i].from = "assistant" THEN m ELSE list[i]

Last(list) == list[Len(list)]

\* The update of the last message as a replacement of it.
LEMMA UpdateReplaces ==
  ASSUME NEW list \in Seq(Message), NEW updated,
         \A i \in 1..Len(list) : /\ updated[i] \in Message
                                 /\ updated[i].key = list[i].key /\ updated[i].from = list[i].from
  PROVE  Replaces(list, UpdateLastAssistant(list, updated), updated[Len(list)])
  <1>1. PICK new : new = UpdateLastAssistant(list, updated)
    OBVIOUS
  <1>2. /\ new \in Seq(Message) /\ Len(new) = Len(list)
        /\ \A i \in 1..Len(list) :
             new[i] = IF i = Len(list) /\ list[i].from = "assistant" THEN updated[i] ELSE list[i]
    BY <1>1, UpdateFacts
  <1>3. Touches(list, new)
    BY <1>2 DEF Touches
  <1>4. QED
    BY <1>1, <1>2, <1>3 DEF Replaces

\* The next chunk of a stream is a piece of text.
LEMMA NextPiece ==
  ASSUME Structure, NEW s \in Sids, chunks[s] < MaxChunks
  PROVE  <<s, chunks[s] + 1>> \in Pieces
  <1>1. chunks[s] + 1 \in 1..MaxChunks
    BY PlaygroundAssumption DEF Structure, TypeOK
  <1>2. QED
    BY <1>1 DEF Pieces

\* The message event, as a replacement of the last message.
LEMMA ContentReplaces ==
  ASSUME Structure, NEW s \in Sids, ContentChunk(s), Len(msgs) > 0
  PROVE  Replaces(msgs, msgs', WithContent(Last(msgs), <<s, chunks[s] + 1>>))
  <1> DEFINE p == <<s, chunks[s] + 1>>
             updated == [i \in DOMAIN msgs |-> WithContent(msgs[i], p)]
  <1>1. p \in Pieces
    BY NextPiece DEF ContentChunk
  <1>2. msgs' = UpdateLastAssistant(msgs, updated)
    BY DEF ContentChunk, WithContent
  <1> HIDE DEF p
  <1>3. /\ msgs \in Seq(Message) /\ Len(msgs) \in Nat /\ DOMAIN msgs = 1..Len(msgs)
        /\ \A i \in 1..Len(msgs) : msgs[i] \in Message
    BY ListFacts DEF Structure, TypeOK
  <1>4. \A i \in 1..Len(msgs) : /\ updated[i] = WithContent(msgs[i], p)
                                /\ updated[i] \in Message
                                /\ updated[i].key = msgs[i].key /\ updated[i].from = msgs[i].from
    BY <1>1, <1>3, ChunkFacts
  <1> HIDE DEF updated
  <1>5. updated[Len(msgs)] = WithContent(Last(msgs), p)
    BY <1>3, <1>4 DEF Last
  <1>6. QED
    BY <1>2, <1>3, <1>4, <1>5, UpdateReplaces DEF p

\* The same for a chunk of reasoning.
LEMMA ReasoningReplaces ==
  ASSUME Structure, NEW s \in Sids, ReasoningChunk(s), Len(msgs) > 0
  PROVE  Replaces(msgs, msgs', WithReasoning(Last(msgs), <<s, chunks[s] + 1>>))
  <1> DEFINE p == <<s, chunks[s] + 1>>
             updated == [i \in DOMAIN msgs |-> WithReasoning(msgs[i], p)]
  <1>1. p \in Pieces
    BY NextPiece DEF ReasoningChunk
  <1>2. msgs' = UpdateLastAssistant(msgs, updated)
    BY DEF ReasoningChunk, WithReasoning
  <1> HIDE DEF p
  <1>3. /\ msgs \in Seq(Message) /\ Len(msgs) \in Nat /\ DOMAIN msgs = 1..Len(msgs)
        /\ \A i \in 1..Len(msgs) : msgs[i] \in Message
    BY ListFacts DEF Structure, TypeOK
  <1>4. \A i \in 1..Len(msgs) : /\ updated[i] = WithReasoning(msgs[i], p)
                                /\ updated[i] \in Message
                                /\ updated[i].key = msgs[i].key /\ updated[i].from = msgs[i].from
    BY <1>1, <1>3, ChunkFacts
  <1> HIDE DEF updated
  <1>5. updated[Len(msgs)] = WithReasoning(Last(msgs), p)
    BY <1>3, <1>4 DEF Last
  <1>6. QED
    BY <1>2, <1>3, <1>4, <1>5, UpdateReplaces DEF p

\* The same for [DONE].
LEMMA DoneReplaces ==
  ASSUME Structure, NEW s \in Sids, Done(s), Len(msgs) > 0
  PROVE  Replaces(msgs, msgs', Completed(Last(msgs)))
  <1> DEFINE updated == [i \in DOMAIN msgs |-> Completed(msgs[i])]
  <1>1. msgs' = UpdateLastAssistant(msgs, updated)
    BY DEF Done, Completed
  <1>2. /\ msgs \in Seq(Message) /\ Len(msgs) \in Nat /\ DOMAIN msgs = 1..Len(msgs)
        /\ \A i \in 1..Len(msgs) : msgs[i] \in Message
    BY ListFacts DEF Structure, TypeOK
  <1>3. \A i \in 1..Len(msgs) : /\ updated[i] = Completed(msgs[i])
                                /\ updated[i] \in Message
                                /\ updated[i].key = msgs[i].key /\ updated[i].from = msgs[i].from
    BY <1>2, EndFacts
  <1> HIDE DEF updated
  <1>4. updated[Len(msgs)] = Completed(Last(msgs))
    BY <1>2, <1>3 DEF Last
  <1>5. QED
    BY <1>1, <1>2, <1>3, <1>4, UpdateReplaces

\* The same for Stop.
LEMMA StopReplaces ==
  ASSUME Structure, Stop, Len(msgs) > 0
  PROVE  Replaces(msgs, msgs', Stopped(Last(msgs)))
  <1> DEFINE updated == [i \in DOMAIN msgs |-> Stopped(msgs[i])]
  <1>1. msgs' = UpdateLastAssistant(msgs, updated)
    BY DEF Stop, Stopped
  <1>2. /\ msgs \in Seq(Message) /\ Len(msgs) \in Nat /\ DOMAIN msgs = 1..Len(msgs)
        /\ \A i \in 1..Len(msgs) : msgs[i] \in Message
    BY ListFacts DEF Structure, TypeOK
  <1>3. \A i \in 1..Len(msgs) : /\ updated[i] = Stopped(msgs[i])
                                /\ updated[i] \in Message
                                /\ updated[i].key = msgs[i].key /\ updated[i].from = msgs[i].from
    BY <1>2, EndFacts
  <1> HIDE DEF updated
  <1>4. updated[Len(msgs)] = Stopped(Last(msgs))
    BY <1>2, <1>3 DEF Last
  <1>5. QED
    BY <1>1, <1>2, <1>3, <1>4, UpdateReplaces

\* An empty list has no last message.
LEMMA UpdateEmpty ==
  ASSUME NEW list \in Seq(Message), Len(list) = 0, NEW updated
  PROVE  UpdateLastAssistant(list, updated) = list
  <1>1. DOMAIN list = {}
    BY ListFacts
  <1>2. list = <<>>
    OBVIOUS
  <1>3. QED
    BY <1>2 DEF UpdateLastAssistant

\* No event of a stream and no Stop changes a key or a sender.
LEMMA LastTouches ==
  ASSUME Structure, NEW s, (s \in Sids /\ StreamEvent(s)) \/ Stop
  PROVE  Touches(msgs, msgs')
  <1>1. msgs \in Seq(Message) /\ Len(msgs) \in Nat
    BY ListFacts DEF Structure, TypeOK
  <1>2. ASSUME msgs' = msgs PROVE Touches(msgs, msgs')
    BY <1>1, <1>2 DEF Touches
  <1>3. CASE msgs' = WithError(msgs)
    BY <1>1, <1>3, WithErrorFacts
  <1>4. CASE Len(msgs) = 0
    <2>1. msgs' = msgs \/ msgs' = WithError(msgs)
      BY <1>1, <1>4, UpdateEmpty
         DEF StreamEvent, ContentChunk, ReasoningChunk, Done, BadChunk, Fail, Truncate, Stop
    <2>2. QED
      BY <1>2, <1>3, <2>1
  <1>5. CASE Len(msgs) > 0
    <2>1. CASE ContentChunk(s) \/ ReasoningChunk(s) \/ Done(s) \/ Stop
      BY <1>5, <2>1, ContentReplaces, ReasoningReplaces, DoneReplaces, StopReplaces DEF Replaces
    <2>2. CASE BadChunk(s) \/ Fail(s) \/ Truncate(s)
      BY <1>2, <1>3, <2>2 DEF BadChunk, Fail, Truncate
    <2>3. QED
      BY <2>1, <2>2 DEF StreamEvent
  <1>6. QED
    BY <1>1, <1>4, <1>5

\* The repair of an unfinished answer.
LEMMA SanitizedFacts ==
  ASSUME NEW m \in Message
  PROVE  /\ Sanitized(m) \in Message
         /\ Sanitized(m).key = m.key /\ Sanitized(m).from = m.from
         /\ Sanitized(m).status \notin Active
         /\ Sanitized(m).reasoning = m.reasoning
         /\ \/ Sanitized(m).content = m.content
            \/ Sanitized(m).content = <<Failed>> /\ m.content = <<>> /\ m.reasoning = <<>>
  <1>1. <<Failed>> \in Seq(Pieces)
    BY DEF Pieces
  <1>2. Sanitized(m) \in Message
    BY <1>1 DEF Sanitized, Finalize, Message
  <1>3. QED
    BY <1>2 DEF Sanitized, Finalize, Message, Active

\* A reload repairs at most one unfinished answer.
LEMMA SanitizeFacts ==
  ASSUME NEW list \in Seq(Message), NEW new, new = SanitizeOnLoad(list)
  PROVE  /\ Touches(list, new)
         /\ \/ new = list /\ Stuck(list) = {}
            \/ \E last \in Stuck(list) :
                 \A i \in 1..Len(list) : new[i] = IF i = last THEN Sanitized(list[i]) ELSE list[i]
  <1>1. /\ Len(list) \in Nat /\ DOMAIN list = 1..Len(list)
        /\ \A i \in 1..Len(list) : list[i] \in Message
    BY ListFacts
  <1>2. CASE Stuck(list) = {}
    <2>1. new = list
      BY <1>2 DEF SanitizeOnLoad
    <2>2. QED
      BY <1>1, <1>2, <2>1 DEF Touches
  <1>3. CASE Stuck(list) # {}
    <2>1. PICK last : last = CHOOSE i \in Stuck(list) : \A j \in Stuck(list) : j <= i
      OBVIOUS
    <2>2. last \in Stuck(list)
      <3> DEFINE U == {Len(list) - i : i \in Stuck(list)}
      <3>1. Stuck(list) \subseteq 1..Len(list)
        BY <1>1 DEF Stuck
      <3>2. U \subseteq Nat /\ U # {}
        BY <1>1, <1>3, <3>1
      <3>3. PICK u \in U : \A v \in U : u <= v
        <4> HIDE DEF U
        <4>1. QED
          BY <3>2, LeastElement
      <3>4. PICK i \in Stuck(list) : u = Len(list) - i
        BY <3>3
      <3>5. \A j \in Stuck(list) : j <= i
        <4>1. ASSUME NEW j \in Stuck(list) PROVE j <= i
          <5>1. Len(list) - i <= Len(list) - j
            BY <3>3, <3>4
          <5>2. QED
            BY <1>1, <3>1, <5>1
        <4>2. QED
          BY <4>1
      <3>6. QED
        BY <2>1, <3>5
    <2>3. last \in 1..Len(list) /\ list[last].from = "assistant"
      BY <1>1, <2>2 DEF Stuck
    <2>4. new = [list EXCEPT ![last] = Sanitized(list[last])]
      BY <1>3, <2>1 DEF SanitizeOnLoad
    <2>5. /\ new = [i \in 1..Len(list) |-> new[i]]
          /\ \A i \in 1..Len(list) : new[i] = IF i = last THEN Sanitized(list[i]) ELSE list[i]
      BY <1>1, <2>3, <2>4
    <2>6. \A i \in 1..Len(list) :
             new[i] \in Message /\ new[i].key = list[i].key /\ new[i].from = list[i].from
      BY <1>1, <2>5, SanitizedFacts
    <2>7. new \in Seq(Message) /\ Len(new) = Len(list)
      BY <1>1, <2>5, <2>6, ListOf
    <2>8. \A i \in 1..Len(list) : new[i] # list[i] => list[i].from = "assistant"
      BY <2>3, <2>5
    <2>9. Touches(list, new)
      BY <2>6, <2>7, <2>8 DEF Touches
    <2>10. QED
      BY <2>2, <2>5, <2>9
  <1>4. QED
    BY <1>2, <1>3

\* The lists that streams are opened for.
LEMMA OpenCases ==
  ASSUME Structure,
         \/ Send \/ ClickSuggestion
         \/ \E i \in DOMAIN view : Regenerate(i) \/ SubmitEdit(i)
  PROVE  /\ \E list : Opening(list, view, FreshKey) /\ OpenStream(list)
         /\ editing' \in Keys \cup {NoKey} /\ interrupted' \in BOOLEAN
         /\ ~interrupted' => ~interrupted /\ ~gen
  <1>1. /\ WellFormed(view, FreshKey) /\ FreshKey \in Nat
        /\ view \in Seq(Message) /\ Len(view) \in Nat /\ DOMAIN view = 1..Len(view)
    BY ListFacts DEF Structure, FreshKey, Count, WellFormed
  <1>2. /\ editing \in Keys \cup {NoKey} /\ interrupted \in BOOLEAN /\ gen \in BOOLEAN
    BY DEF Structure, TypeOK
  <1>3. ASSUME Cardinality(Used) < MaxSends PROVE FreshKey + 2 \in Keys
    BY <1>1, <1>3, PlaygroundAssumption DEF Structure, FreshKey, Count, Keys
  <1>4. CASE Send \/ ClickSuggestion
    <2>1. PICK list : list = view \o <<UserMessage(FreshKey + 1), LoadingMessage(FreshKey + 2)>>
      OBVIOUS
    <2>2. OpenStream(list)
      BY <1>4, <2>1 DEF Send, ClickSuggestion
    <2>3. FreshKey + 2 \in Keys
      BY <1>3, <2>2 DEF OpenStream
    <2>4. Opening(list, view, FreshKey)
      BY <1>1, <2>1, <2>3, OpeningAfterAll
    <2>5. editing' = editing /\ interrupted' \in BOOLEAN /\ (~interrupted' => ~interrupted /\ ~gen)
      BY <1>2, <1>4 DEF Send, ClickSuggestion
    <2>6. QED
      BY <1>2, <2>2, <2>4, <2>5
  <1>5. ASSUME NEW i \in DOMAIN view, Regenerate(i)
        PROVE  /\ \E list : Opening(list, view, FreshKey) /\ OpenStream(list)
               /\ editing' \in Keys \cup {NoKey} /\ interrupted' \in BOOLEAN
               /\ ~interrupted' => ~interrupted /\ ~gen
    <2>1. PICK part : part = SubSeq(view, 1, i - 1)
      OBVIOUS
    <2>2. i \in 1..Len(view) /\ i - 1 \in 0..Len(view)
      BY <1>1
    <2>3. /\ part \in Seq(Message) /\ Len(part) = i - 1
          /\ \A j \in 1..(i - 1) : part[j] = view[j]
      BY <1>1, <2>1, <2>2, PrefixFacts
    <2>4. WellFormed(part, FreshKey)
      BY <1>1, <2>1, <2>2, PrefixWellFormed
    <2>5. \A j \in 1..Len(part) : FromBase(part[j], view, FreshKey)
      BY <1>1, <2>2, <2>3 DEF FromBase
    <2>6. OpenStream(part \o <<LoadingMessage(FreshKey + 2)>>)
      BY <1>5, <2>1 DEF Regenerate
    <2>7. FreshKey + 2 \in Keys
      BY <1>3, <2>6 DEF OpenStream
    <2>8. Opening(part \o <<LoadingMessage(FreshKey + 2)>>, view, FreshKey)
      BY <1>1, <2>4, <2>5, <2>7, OpeningAfterSome
    <2>9. QED
      BY <1>2, <1>5, <2>6, <2>8 DEF Regenerate
  <1>6. ASSUME NEW i \in DOMAIN view, SubmitEdit(i)
        PROVE  /\ \E list : Opening(list, view, FreshKey) /\ OpenStream(list)
               /\ editing' \in Keys \cup {NoKey} /\ interrupted' \in BOOLEAN
               /\ ~interrupted' => ~interrupted /\ ~gen
    <2>1. PICK edited, part : edited = Edit(i) /\ part = SubSeq(edited, 1, i)
      OBVIOUS
    <2>2. i \in 1..Len(view) /\ i \in 0..Len(view)
      BY <1>1
    <2>3. /\ WellFormed(edited, FreshKey) /\ Len(edited) = Len(view)
          /\ \A j \in 1..Len(view) : j # i => edited[j] = view[j]
          /\ edited[i].key = view[i].key /\ edited[i].from = view[i].from
      BY <1>1, <2>1, <2>2, EditFacts
    <2>4. /\ part \in Seq(Message) /\ Len(part) = i
          /\ \A j \in 1..i : part[j] = edited[j]
      BY <2>1, <2>2, <2>3, PrefixFacts DEF WellFormed
    <2>5. WellFormed(part, FreshKey)
      BY <1>1, <2>1, <2>2, <2>3, PrefixWellFormed
    <2>6. view[i].from = "user"
      BY <1>6 DEF SubmitEdit
    <2>7. \A j \in 1..Len(part) : FromBase(part[j], view, FreshKey)
      BY <1>1, <2>2, <2>3, <2>4, <2>6 DEF FromBase
    <2>8. OpenStream(part \o <<LoadingMessage(FreshKey + 2)>>)
      BY <1>6, <2>1 DEF SubmitEdit
    <2>9. FreshKey + 2 \in Keys
      BY <1>3, <2>8 DEF OpenStream
    <2>10. Opening(part \o <<LoadingMessage(FreshKey + 2)>>, view, FreshKey)
      BY <1>1, <2>5, <2>7, <2>9, OpeningAfterSome
    <2>11. QED
      BY <1>2, <1>6, <2>8, <2>10 DEF SubmitEdit
  <1>7. QED
    BY <1>4, <1>5, <1>6

\* Every step keeps the structure, whatever controls are used.
LEMMA StructureStep ==
  ASSUME Structure, [Next]_vars
  PROVE  Structure'
  <1>1. /\ WellFormed(msgs, 2 * Count) /\ WellFormed(view, 2 * Count) /\ 2 * Count \in Nat
        /\ msgs \in Seq(Message) /\ view \in Seq(Message) /\ DOMAIN view = 1..Len(view)
    <2>1. /\ WellFormed(msgs, 2 * Count) /\ WellFormed(view, 2 * Count)
          /\ msgs \in Seq(Message) /\ view \in Seq(Message) /\ Count \in Nat
      BY PlaygroundAssumption DEF Structure, TypeOK
    <2>2. QED
      BY <2>1, ListFacts
  <1>2. /\ source \in [Sids -> {"unused", "open", "closed"}] /\ chunks \in [Sids -> 0..MaxChunks]
        /\ ref \in Sids \cup {NoStream} /\ editing \in Keys \cup {NoKey}
        /\ gen \in BOOLEAN /\ complete \in BOOLEAN
        /\ unfinished \in BOOLEAN /\ interrupted \in BOOLEAN
    BY DEF Structure, TypeOK
  <1>3. CASE \/ Send \/ ClickSuggestion
             \/ \E i \in DOMAIN view : Regenerate(i) \/ SubmitEdit(i)
    BY <1>3, OpenCases, OpenStructure
  \* Steps that leave the streams alone.
  <1>4. ASSUME WellFormed(msgs', 2 * Count), view' = msgs', gen' = (ref' # NoStream),
               UNCHANGED <<streamVars, unfinished>>,
               editing' \in Keys \cup {NoKey}, interrupted' \in BOOLEAN
        PROVE  Structure'
    <2>1. gen' \in BOOLEAN /\ UNCHANGED <<ref, complete, source, chunks, owner, unfinished>>
      BY <1>4 DEF streamVars
    <2>2. WellFormed(view', 2 * Count)
      BY <1>4
    <2>3. QED
      BY <1>2, <1>4, <2>1, <2>2, KeepStructure
  <1>5. ASSUME NEW i \in DOMAIN view, Delete(i) PROVE Structure'
    <2>1. WellFormed(msgs', 2 * Count)
      BY <1>1, <1>5, WithoutWellFormed DEF Delete
    <2>2. QED
      BY <1>2, <1>4, <1>5, <2>1 DEF Delete, RenderNow, streamVars
  <1>6. ASSUME NEW i \in DOMAIN view, OpenEdit(i) PROVE Structure'
    <2>1. view[i].key \in Keys
      BY <1>1, ListFacts, MessageFields
    <2>2. QED
      BY <1>1, <1>2, <1>4, <1>6, <2>1 DEF OpenEdit, RenderNow
  <1>7. ASSUME NEW i \in DOMAIN view, SaveEdit(i) PROVE Structure'
    <2>1. WellFormed(msgs', 2 * Count)
      BY <1>1, <1>7, EditFacts DEF SaveEdit
    <2>2. interrupted' \in BOOLEAN /\ editing' = NoKey
      BY <1>2, <1>7 DEF SaveEdit
    <2>3. QED
      BY <1>4, <1>7, <2>1, <2>2 DEF SaveEdit, RenderNow
  <1>8. CASE CancelEdit
    BY <1>1, <1>2, <1>4, <1>8 DEF CancelEdit, RenderNow
  <1>9. CASE Render
    BY <1>1, <1>2, <1>4, <1>9 DEF Render, streamVars
  \* Steps that may end streams or add a chunk to a used one.
  <1>10. ASSUME WellFormed(msgs', 2 * Count), view' \in {view, msgs'}, gen' \in BOOLEAN,
                UNCHANGED <<owner, unfinished, interrupted>>,
                editing' \in {editing, NoKey}, complete' \in BOOLEAN,
                ref' \in {ref, NoStream},
                source' \in [Sids -> {"unused", "open", "closed"}],
                \A s \in Sids : source'[s] = "unused" <=> source[s] = "unused",
                chunks' \in [Sids -> 0..MaxChunks],
                \A s \in Sids : source[s] = "unused" => chunks'[s] = chunks[s]
         PROVE  Structure'
    <2>1. WellFormed(view', 2 * Count)
      BY <1>1, <1>10
    <2>2. editing' \in Keys \cup {NoKey} /\ unfinished' \in BOOLEAN /\ interrupted' \in BOOLEAN
      BY <1>2, <1>10
    <2>3. QED
      BY <1>10, <2>1, <2>2, KeepStructure
  <1>11. CASE Stop
    <2>1. WellFormed(msgs', 2 * Count)
      BY <1>1, <1>11, LastTouches, TouchWellFormed
    <2>2. /\ view' = msgs' /\ gen' \in BOOLEAN /\ ref' \in {ref, NoStream}
          /\ UNCHANGED <<editing, complete, chunks, owner, unfinished, interrupted>>
      BY <1>11 DEF Stop, RenderNow
    <2>3. /\ source' \in [Sids -> {"unused", "open", "closed"}]
          /\ \A s \in Sids : source'[s] = "unused" <=> source[s] = "unused"
      <3>1. CASE ref = NoStream
        BY <1>2, <1>11, <3>1 DEF Stop
      <3>2. CASE ref # NoStream
        BY <1>2, <1>11, <3>2 DEF Stop, Structure, Used
      <3>3. QED
        BY <3>1, <3>2
    <2>4. QED
      BY <1>2, <1>10, <2>1, <2>2, <2>3
  <1>12. ASSUME NEW s \in Sids, StreamEvent(s) PROVE Structure'
    <2>1. WellFormed(msgs', 2 * Count)
      BY <1>1, <1>12, LastTouches, TouchWellFormed
    <2>2. /\ UNCHANGED <<view, gen, editing, owner, unfinished, interrupted>>
          /\ ref' \in {ref, NoStream} /\ source[s] = "open"
      BY <1>12 DEF StreamEvent, ContentChunk, ReasoningChunk, Done, BadChunk, Fail,
                  Truncate, CloseSource, Later
    <2>3. source' \in {source, [source EXCEPT ![s] = "closed"]}
      BY <1>12 DEF StreamEvent, ContentChunk, ReasoningChunk, Done, BadChunk, Fail,
                  Truncate, CloseSource
    <2>4. complete' \in BOOLEAN
      BY <1>2, <1>12 DEF StreamEvent, ContentChunk, ReasoningChunk, Done, BadChunk, Fail, Truncate
    <2>5. \/ chunks' = chunks
          \/ chunks[s] < MaxChunks /\ chunks' = [chunks EXCEPT ![s] = @ + 1]
      BY <1>12 DEF StreamEvent, ContentChunk, ReasoningChunk, Done, BadChunk, Fail, Truncate
    <2>6. /\ source' \in [Sids -> {"unused", "open", "closed"}]
          /\ \A t \in Sids : source'[t] = "unused" <=> source[t] = "unused"
      BY <1>2, <2>2, <2>3
    <2>7. /\ chunks' \in [Sids -> 0..MaxChunks]
          /\ \A t \in Sids : source[t] = "unused" => chunks'[t] = chunks[t]
      BY <1>2, <2>2, <2>5, PlaygroundAssumption
    <2>8. QED
      BY <1>2, <1>10, <2>1, <2>2, <2>4, <2>6, <2>7
  <1>13. CASE Reload
    <2>1. WellFormed(msgs', 2 * Count)
      BY <1>1, <1>13, SanitizeFacts, TouchWellFormed DEF Reload
    <2>2. QED
      BY <1>2, <1>10, <1>13, <2>1 DEF Reload, RenderNow
  <1>14. CASE UNCHANGED vars
    <2>1. WellFormed(msgs', 2 * Count) /\ WellFormed(view', 2 * Count)
      BY <1>1, <1>14 DEF vars
    <2>2. QED
      BY <1>2, <1>14, <2>1, KeepStructure DEF vars
  <1>15. QED
    BY <1>3, <1>5, <1>6, <1>7, <1>8, <1>9, <1>11, <1>12, <1>13, <1>14 DEF Next

-----------------------------------------------------------------------------
(* Answers and their chunks *)

\* Chunks name their stream; the marks name none.
LEMMA PieceFacts ==
  /\ \A p \in Pieces : p[1] # 0 => p[1] \in Sids
  /\ Typed \in Pieces /\ Edited \in Pieces /\ Failed \in Pieces
  /\ Typed[1] = 0 /\ Edited[1] = 0 /\ Failed[1] = 0
  BY DEF Pieces, Typed, Edited, Failed

\* The pieces of a text.
LEMMA ElemsFacts ==
  ASSUME NEW c \in Seq(Pieces)
  PROVE  /\ Elems(c) \subseteq Pieces
         /\ \A p \in Pieces : Elems(Append(c, p)) = Elems(c) \cup {p}
         /\ c = <<>> => Elems(c) = {}
         /\ \A p : Elems(<<p>>) = {p}
  <1>1. Len(c) \in Nat /\ DOMAIN c = 1..Len(c) /\ \A i \in 1..Len(c) : c[i] \in Pieces
    OBVIOUS
  <1>2. Elems(c) \subseteq Pieces
    BY <1>1 DEF Elems
  <1>3. ASSUME NEW p \in Pieces PROVE Elems(Append(c, p)) = Elems(c) \cup {p}
    <2>1. PICK d : d = Append(c, p)
      OBVIOUS
    <2>2. /\ DOMAIN d = 1..(Len(c) + 1) /\ \A i \in 1..Len(c) : d[i] = c[i]
          /\ d[Len(c) + 1] = p
      BY <1>1, <2>1
    <2>3. \A i \in 1..(Len(c) + 1) : i \in 1..Len(c) \/ i = Len(c) + 1
      BY <1>1
    <2>4. Elems(d) \subseteq Elems(c) \cup {p}
      BY <1>1, <2>2, <2>3 DEF Elems
    <2>5. Elems(c) \cup {p} \subseteq Elems(d)
      BY <1>1, <2>2 DEF Elems
    <2>6. QED
      BY <2>1, <2>4, <2>5
  <1>4. c = <<>> => Elems(c) = {}
    BY DEF Elems
  <1>5. ASSUME NEW p PROVE Elems(<<p>>) = {p}
    <2>1. DOMAIN <<p>> = {1} /\ <<p>>[1] = p
      OBVIOUS
    <2>2. QED
      BY <2>1, Zenon DEF Elems
  <1>6. QED
    BY <1>2, <1>3, <1>4, <1>5

\* What a message received are pieces.
LEMMA ReceivedPieces ==
  ASSUME NEW m \in Message PROVE Received(m) \subseteq Pieces
  BY MessageFields, ElemsFacts DEF Received

\* Only the owner and the chunks of the message's own stream matter.
LEMMA OwnSame ==
  ASSUME NEW m \in Message, NEW own, NEW num, OwnChunks(m, own, num), NEW new, NEW count,
         \A t \in Sids : new[t] = m.key <=> own[t] = m.key,
         \A t \in Sids : own[t] = m.key => count[t] = num[t]
  PROVE  OwnChunks(m, new, count)
  <1>1. SUFFICES ASSUME m.from = "assistant" PROVE OwnChunks(m, new, count)
    BY DEF OwnChunks
  <1>2. \A p \in Received(m) : p[1] # 0 => new[p[1]] = m.key
    BY <1>1, ReceivedPieces, PieceFacts DEF OwnChunks
  <1>3. QED
    BY <1>1, <1>2 DEF OwnChunks

\* A change of status or thinking alone.
LEMMA OwnText ==
  ASSUME NEW m, NEW own, NEW num, OwnChunks(m, own, num), NEW o,
         o.key = m.key, o.from = m.from, o.content = m.content, o.reasoning = m.reasoning
  PROVE  OwnChunks(o, own, num)
  <1>1. Received(o) = Received(m)
    BY DEF Received
  <1>2. QED
    BY <1>1 DEF OwnChunks

\* The text is replaced by that of an error, or by an edit.
LEMMA OwnMarked ==
  ASSUME NEW m \in Message, NEW own, NEW num, OwnChunks(m, own, num), NEW o,
         NEW mark \in {Edited, Failed},
         o.key = m.key, o.from = m.from, o.content = <<mark>>, o.reasoning = m.reasoning
  PROVE  OwnChunks(o, own, num)
  <1>1. SUFFICES ASSUME o.from = "assistant" PROVE OwnChunks(o, own, num)
    BY DEF OwnChunks
  <1>2. Elems(o.content) = {mark}
    BY ElemsFacts, <<>> \in Seq(Pieces)
  <1>3. \A p \in Received(o) : p = mark \/ p \in Received(m)
    BY <1>2 DEF Received
  <1>4. mark[1] = 0
    BY PieceFacts
  <1>5. \A p \in Received(o) : p[1] # 0 => own[p[1]] = o.key
    BY <1>1, <1>3, <1>4 DEF OwnChunks
  <1>6. {Edited, Failed} \cap Received(o) # {}
    BY <1>2 DEF Received
  <1>7. \A a, b \in DOMAIN o.content : ~(a < b)
    OBVIOUS
  <1>8. QED
    BY <1>1, <1>5, <1>6, <1>7 DEF OwnChunks

\* A new answer has no text yet, and its stream no chunk.
LEMMA OwnEmpty ==
  ASSUME NEW k, NEW own, NEW num, \A t \in Sids : own[t] = k => num[t] = 0
  PROVE  OwnChunks(LoadingMessage(k), own, num) /\ Received(LoadingMessage(k)) = {}
  <1>1. PICK m : m = LoadingMessage(k)
    OBVIOUS
  <1>2. m.key = k /\ m.content = <<>> /\ m.reasoning = <<>>
    BY <1>1 DEF LoadingMessage
  <1>3. Received(m) = {} /\ DOMAIN m.content = {}
    BY <1>2 DEF Received, Elems
  <1>4. Len(m.content) + Len(m.reasoning) = 0
    BY <1>2
  <1>5. \A t : {t} \X (1..0) = {}
    OBVIOUS
  <1>6. QED
    BY <1>1, <1>2, <1>3, <1>4, <1>5 DEF OwnChunks

\* A chunk of the answer's own stream.
LEMMA OwnChunk ==
  ASSUME NEW m \in Message, NEW own, NEW num \in [Sids -> Nat], OwnChunks(m, own, num),
         m.from = "assistant", ~Marked(m),
         NEW s \in Sids, own[s] = m.key, \A t \in Sids : own[t] = m.key => t = s,
         NEW o, NEW p, p = <<s, num[s] + 1>>, p \in Pieces,
         o.key = m.key, o.from = m.from,
         \/ o.content = Append(m.content, p) /\ o.reasoning = m.reasoning
         \/ o.content = m.content /\ o.reasoning = Append(m.reasoning, p)
  PROVE  OwnChunks(o, own, [num EXCEPT ![s] = @ + 1]) /\ ~Marked(o)
  <1>1. m.content \in Seq(Pieces) /\ m.reasoning \in Seq(Pieces)
    BY MessageFields
  <1>2. PICK n \in Nat : n = num[s]
    OBVIOUS
  <1>3. /\ Received(m) = {s} \X (1..n)
        /\ Len(m.content) + Len(m.reasoning) = n
    BY <1>2 DEF OwnChunks, Marked
  <1>4. Received(o) = Received(m) \cup {p}
    <2>1. Elems(Append(m.content, p)) = Elems(m.content) \cup {p}
      BY <1>1, ElemsFacts
    <2>2. Elems(Append(m.reasoning, p)) = Elems(m.reasoning) \cup {p}
      BY <1>1, ElemsFacts
    <2>3. CASE o.content = Append(m.content, p) /\ o.reasoning = m.reasoning
      BY <2>1, <2>3, Zenon DEF Received
    <2>4. CASE o.content = m.content /\ o.reasoning = Append(m.reasoning, p)
      BY <2>2, <2>4, Zenon DEF Received
    <2>5. QED
      BY <2>3, <2>4
  <1>5. Received(o) = {s} \X (1..(n + 1))
    BY <1>2, <1>3, <1>4
  <1>6. Len(o.content) + Len(o.reasoning) = n + 1
    <2>1. PICK c \in Nat, r \in Nat : c = Len(m.content) /\ r = Len(m.reasoning)
      BY <1>1
    <2>2. /\ Len(Append(m.content, p)) = Len(m.content) + 1
          /\ Len(Append(m.reasoning, p)) = Len(m.reasoning) + 1
      BY <1>1
    <2>3. CASE o.content = Append(m.content, p) /\ o.reasoning = m.reasoning
      <3>1. Len(o.content) = c + 1 /\ Len(o.reasoning) = r
        BY <2>1, <2>2, <2>3, Zenon
      <3>2. c + r = n
        BY <1>3, <2>1, Zenon
      <3>3. QED
        BY <3>1, <3>2
    <2>4. CASE o.content = m.content /\ o.reasoning = Append(m.reasoning, p)
      <3>1. Len(o.content) = c /\ Len(o.reasoning) = r + 1
        BY <2>1, <2>2, <2>4, Zenon
      <3>2. c + r = n
        BY <1>3, <2>1, Zenon
      <3>3. QED
        BY <3>1, <3>2
    <2>5. QED
      BY <2>3, <2>4
  <1>7. p[1] = s /\ p[2] = n + 1 /\ s # 0
    BY <1>2 DEF Sids
  <1>8. \A q \in Received(o) : q[1] # 0 => own[q[1]] = o.key
    BY <1>5
  <1>9. \A a \in DOMAIN m.content : m.content[a][2] \in 1..n
    <2>1. \A a \in DOMAIN m.content : m.content[a] \in Received(m)
      BY DEF Received, Elems
    <2>2. QED
      BY <1>3, <2>1
  <1>10. \A a, b \in DOMAIN m.content : a < b => m.content[a][2] < m.content[b][2]
    BY DEF OwnChunks
  <1>11. ASSUME NEW a \in DOMAIN o.content, NEW b \in DOMAIN o.content, a < b
         PROVE  o.content[a][2] < o.content[b][2]
    <2>1. CASE o.content = m.content
      BY <1>10, <1>11, <2>1
    <2>2. CASE o.content = Append(m.content, p)
      <3>1. /\ DOMAIN m.content = 1..Len(m.content) /\ Len(m.content) \in Nat
            /\ DOMAIN o.content = 1..(Len(m.content) + 1)
            /\ \A i \in 1..Len(m.content) : o.content[i] = m.content[i]
            /\ o.content[Len(m.content) + 1] = p
        BY <1>1, <2>2
      <3>2. a \in 1..Len(m.content)
        BY <1>11, <3>1
      <3>3. CASE b \in 1..Len(m.content)
        BY <1>10, <1>11, <3>1, <3>2, <3>3
      <3>4. CASE b = Len(m.content) + 1
        BY <1>7, <1>9, <3>1, <3>2, <3>4
      <3>5. QED
        BY <3>1, <3>3, <3>4
    <2>3. QED
      BY <2>1, <2>2
  <1>12. ~Marked(o)
    <2>1. \A q \in Received(o) : q[1] = s
      BY <1>5
    <2>2. QED
      BY <1>7, <2>1, PieceFacts DEF Marked
  <1>13. PICK count : count = [num EXCEPT ![s] = @ + 1]
    OBVIOUS
  <1>14. count[s] = n + 1
    BY <1>2, <1>13
  <1>15. OwnChunks(o, own, count)
    BY <1>5, <1>6, <1>8, <1>11, <1>14 DEF OwnChunks
  <1>16. QED
    BY <1>12, <1>13, <1>15

-----------------------------------------------------------------------------
(* While no control interferes, every step keeps Tracked and Answers, and  *)
(* revives no answer.                                                      *)

EndedKept(list, new) ==
    \A i \in 1..Len(list), j \in 1..Len(new) :
        list[i].key = new[j].key /\ list[i].status \in {"complete", "error"}
            => new[j].status = list[i].status

\* With nothing generated there is no stream, and the view is the list.
LEMMA IdleFacts ==
  ASSUME Structure, Tracked, ~gen
  PROVE  /\ view = msgs /\ ref = NoStream
         /\ \A s \in Sids : source[s] # "open"
         /\ \A i \in 1..Len(msgs) : msgs[i].status \notin Active
  <1>1. ref = NoStream
    BY DEF Tracked
  <1>2. \A s \in Sids : s # NoStream
    BY DEF Sids, NoStream
  <1>3. QED
    BY <1>1, <1>2 DEF Tracked

\* The chunks of older answers do not notice a new stream.
LEMMA OwnAfterOpen ==
  ASSUME Structure, NEW list, Opening(list, view, FreshKey), OpenStream(list), Structure',
         Count' = Count + 1,
         NEW m \in Message, m.key <= 2 * Count, OwnChunks(m, owner, chunks)
  PROVE  OwnChunks(m, owner', chunks')
  <1>1. PICK k : k = m.key
    OBVIOUS
  <1>2. k \in Nat /\ k > 0 /\ Count \in Nat /\ k <= 2 * Count
    BY <1>1, MessageFields, PlaygroundAssumption DEF Structure
  <1>3. Used = 1..Count /\ Used' = 1..(Count + 1)
    BY DEF Structure
  <1>4. ASSUME NEW t \in Sids PROVE owner'[t] = k <=> owner[t] = k
    <2>1. owner[t] = IF t \in Used THEN 2 * t ELSE 0
      BY DEF Structure, NoKey
    <2>2. owner'[t] = IF t \in Used' THEN 2 * t ELSE 0
      BY DEF Structure, NoKey
    <2>3. t \in Nat
      BY DEF Sids
    <2>4. QED
      BY <1>2, <1>3, <2>1, <2>2, <2>3
  <1>5. chunks' = chunks
    BY DEF OpenStream
  <1>6. QED
    BY <1>1, <1>4, <1>5, OwnSame

\* A stream opened on an idle page.
LEMMA OpenCalm ==
  ASSUME Structure, Tracked, Answers, ~gen,
         NEW list, Opening(list, view, FreshKey), OpenStream(list),
         Structure', Count' = Count + 1
  PROVE  Tracked' /\ Answers' /\ EndedKept(msgs, msgs')
  <1>1. /\ view = msgs /\ ref = NoStream
        /\ \A s \in Sids : source[s] # "open"
        /\ \A i \in 1..Len(msgs) : msgs[i].status \notin Active
    BY IdleFacts
  <1>2. PICK n : n = Len(list)
    OBVIOUS
  <1>3. PICK k : k = FreshKey
    OBVIOUS
  <1>4. k = 2 * Count /\ k \in Nat /\ Count \in Nat
    BY <1>3, PlaygroundAssumption DEF FreshKey, Count, Structure
  <1>5. /\ n \in Nat /\ n > 0 /\ list \in Seq(Message) /\ list[n] = LoadingMessage(k + 2)
        /\ \A i \in 1..n : list[i] \in Message
    BY <1>2, <1>3, ListFacts DEF Opening, WellFormed
  <1>6. list[n].key = k + 2 /\ list[n].from = "assistant" /\ list[n].status = "loading"
        /\ list[n].content = <<>> /\ list[n].reasoning = <<>>
    BY <1>5 DEF LoadingMessage
  <1>7. /\ \A j \in 1..(n - 1) : FromBase(list[j], msgs, k)
        /\ \A j \in 1..n : list[j].from = "user" => list[j].status = "none"
        /\ \A i, j \in 1..n : list[i].key = list[j].key => i = j
    BY <1>1, <1>2, <1>3 DEF Opening, WellFormed
  <1>8. \A j \in 1..n : j \in 1..(n - 1) \/ j = n
    BY <1>5
  <1>9. \A j \in 1..(n - 1) : list[j].status \notin Active
    BY <1>1, <1>5, <1>7 DEF FromBase, Active
  <1>10. WellFormed(msgs, k) /\ \A i \in 1..Len(msgs) : msgs[i] \in Message
    BY <1>4, ListFacts DEF Structure, WellFormed
  <1>11. ASSUME NEW i \in 1..Len(msgs), NEW j \in 1..n, msgs[i].key = list[j].key,
                msgs[i].status \in {"complete", "error"}
         PROVE  list[j] = msgs[i] /\ j # n
    <2>1. msgs[i].key <= k /\ msgs[i].key \in Nat /\ msgs[i].from # "user"
      BY <1>10, <1>11, MessageFields DEF WellFormed
    <2>2. j # n
      BY <1>4, <1>6, <1>11, <2>1
    <2>3. FromBase(list[j], msgs, k)
      BY <1>7, <1>8, <2>2
    <2>4. \A h \in 1..Len(msgs) : msgs[h].key = msgs[i].key => h = i
      BY <1>10 DEF WellFormed
    <2>5. QED
      BY <1>4, <1>11, <2>1, <2>2, <2>3, <2>4 DEF FromBase
  <1>12. PICK s : s = Count + 1
    OBVIOUS
  <1>13. s \in Sids /\ s # NoStream /\ owner'[s] = k + 2
    <2>1. s \in Sids /\ s \in Used'
      BY <1>4, <1>12, PlaygroundAssumption DEF Structure, Sids
    <2>2. owner'[s] = 2 * s
      BY <2>1 DEF Structure
    <2>3. QED
      BY <1>4, <1>12, <2>1, <2>2 DEF Sids, NoStream
  <1>14. view' = msgs' /\ gen' = (ref' # NoStream) /\ complete' = FALSE
    BY DEF OpenStream, RenderNow
  <1>15. source \in [Sids -> {"unused", "open", "closed"}]
    BY DEF Structure, TypeOK
  \* The requests carry finished messages only.
  <1>16. ~unfinished'
    <2>1. \A i \in DOMAIN list : ~(list[i].status \in Active /\ IsValid(list[i]))
      <3>1. DOMAIN list = 1..n
        BY <1>2, <1>5, ListFacts
      <3>2. ~IsValid(list[n])
        BY <1>6 DEF IsValid
      <3>3. QED
        BY <1>8, <1>9, <3>1, <3>2
    <2>2. QED
      BY <2>1 DEF OpenStream, Answers
  <1>17. ASSUME NEW j \in 1..(n - 1) PROVE OwnChunks(list[j], owner', chunks')
    <2>1. CASE list[j].from = "user"
      BY <2>1 DEF OwnChunks
    <2>2. CASE list[j].from # "user"
      <3>1. PICK i \in 1..Len(msgs) : list[j] = msgs[i]
        BY <1>7, <2>2 DEF FromBase
      <3>2. list[j] \in Message /\ list[j].key <= 2 * Count /\ OwnChunks(list[j], owner, chunks)
        BY <1>4, <1>10, <3>1 DEF WellFormed, Answers
      <3>3. QED
        BY <3>2, OwnAfterOpen
    <2>3. QED
      BY <2>1, <2>2
  <1>18. OwnChunks(list[n], owner', chunks') /\ Received(list[n]) = {}
    <2>1. ASSUME NEW t \in Sids, owner'[t] = k + 2 PROVE chunks'[t] = 0
      <3>1. owner'[t] = IF t \in Used' THEN 2 * t ELSE 0
        BY DEF Structure, NoKey
      <3>2. t = s
        BY <1>4, <1>12, <2>1, <3>1 DEF Sids
      <3>3. Used = 1..Count
        BY DEF Structure
      <3>4. s \notin Used
        BY <1>4, <1>12, <3>3
      <3>5. chunks[t] = 0
        BY <1>13, <3>2, <3>4 DEF Structure, Used
      <3>6. QED
        BY <3>5 DEF OpenStream
    <2>2. PICK own, num : own = owner' /\ num = chunks'
      OBVIOUS
    <2>3. \A t \in Sids : own[t] = k + 2 => num[t] = 0
      BY <2>1, <2>2
    <2>4. OwnChunks(LoadingMessage(k + 2), own, num) /\ Received(LoadingMessage(k + 2)) = {}
      BY <2>3, OwnEmpty
    <2>5. QED
      BY <1>5, <2>2, <2>4
  <1>19. CASE msgs' = list /\ ref' = s /\ source' = [source EXCEPT ![s] = "open"]
    <2>1. \A t \in Sids : source'[t] = "open" => t = s
      BY <1>1, <1>15, <1>19
    <2>2. AwaitsAnswer(s)'
      BY <1>2, <1>5, <1>6, <1>13, <1>19 DEF AwaitsAnswer, Active
    <2>3. \A i \in 1..Len(msgs') : msgs'[i].status \in Active =>
             i = Len(msgs') /\ ref' # NoStream /\ owner'[ref'] = msgs'[i].key
      BY <1>2, <1>6, <1>8, <1>9, <1>13, <1>19
    <2>4. Tracked'
      BY <1>14, <1>19, <1>13, <2>1, <2>2, <2>3 DEF Tracked
    <2>5. \A i \in 1..n : OwnChunks(list[i], owner', chunks')
      BY <1>8, <1>17, <1>18
    <2>6. \A i \in 1..n : list[i].status \in Active => ~Marked(list[i])
      BY <1>8, <1>9, <1>18 DEF Marked
    <2>7. Answers'
      BY <1>2, <1>16, <1>19, <2>5, <2>6 DEF Answers
    <2>8. EndedKept(msgs, msgs')
      BY <1>2, <1>11, <1>19 DEF EndedKept
    <2>9. QED
      BY <2>4, <2>7, <2>8
  <1>20. CASE msgs' = WithError(list) /\ ref' = NoStream /\ source' = [source EXCEPT ![s] = "closed"]
    <2>1. \A t \in Sids : source'[t] # "open"
      BY <1>1, <1>15, <1>20
    <2>2. /\ Len(msgs') = n
          /\ \A i \in 1..n : msgs'[i] = IF i = n THEN Erred(list[i]) ELSE list[i]
      BY <1>2, <1>5, <1>6, <1>20, WithErrorFacts DEF Touches
    <2>3. /\ msgs'[n].status = "error" /\ msgs'[n].key = list[n].key /\ msgs'[n].from = list[n].from
          /\ msgs'[n].content = <<Failed>> /\ msgs'[n].reasoning = list[n].reasoning
      BY <1>5, <2>2, ErredFacts
    <2>4. \A i \in 1..n : msgs'[i].status \notin Active
      BY <1>8, <1>9, <2>2, <2>3 DEF Active
    <2>5. Tracked'
      BY <1>14, <1>20, <2>1, <2>2, <2>4 DEF Tracked
    <2>6. OwnChunks(msgs'[n], owner', chunks')
      BY <1>5, <1>18, <2>3, OwnMarked
    <2>7. \A i \in 1..n : OwnChunks(msgs'[i], owner', chunks')
      BY <1>8, <1>17, <2>2, <2>6
    <2>8. Answers'
      BY <1>16, <2>2, <2>4, <2>7 DEF Answers
    <2>9. EndedKept(msgs, msgs')
      <3>1. \A i \in 1..n : msgs'[i].key = list[i].key
        BY <1>8, <2>2, <2>3
      <3>2. QED
        BY <1>11, <2>2, <3>1 DEF EndedKept
    <2>10. QED
      BY <2>5, <2>8, <2>9
  <1>21. QED
    BY <1>12, <1>19, <1>20 DEF OpenStream, Count

\* A change of the idle page's list that keeps status and key of what it keeps.
LEMMA IdleCalm ==
  ASSUME Structure, Tracked, Answers, ~gen, UNCHANGED <<streamVars, unfinished>>,
         view' = msgs', gen' = (ref' # NoStream),
         \A j \in 1..Len(msgs') : \E i \in 1..Len(msgs) :
            /\ msgs'[j].key = msgs[i].key /\ msgs'[j].status = msgs[i].status
            /\ OwnChunks(msgs'[j], owner, chunks)
  PROVE  Tracked' /\ Answers' /\ EndedKept(msgs, msgs')
  <1>1. /\ ref = NoStream /\ \A s \in Sids : source[s] # "open"
        /\ \A i \in 1..Len(msgs) : msgs[i].status \notin Active
    BY IdleFacts
  <1>2. UNCHANGED <<ref, complete, source, chunks, owner>>
    BY DEF streamVars
  <1>3. \A j \in 1..Len(msgs') : msgs'[j].status \notin Active
    BY <1>1
  <1>4. Tracked'
    BY <1>1, <1>2, <1>3 DEF Tracked
  <1>5. Answers'
    BY <1>2, <1>3 DEF Answers
  <1>6. \A i, h \in 1..Len(msgs) : msgs[i].key = msgs[h].key => i = h
    BY DEF Structure, WellFormed
  <1>7. EndedKept(msgs, msgs')
    BY <1>6 DEF EndedKept
  <1>8. QED
    BY <1>4, <1>5, <1>7

\* Deleting waits for the answer, so the page is idle.
LEMMA DeleteCalm ==
  ASSUME Structure, Tracked, Answers, NEW i \in DOMAIN view, Delete(i)
  PROVE  Tracked' /\ Answers' /\ EndedKept(msgs, msgs')
  <1>1. ~gen /\ view = msgs
    BY IdleFacts DEF Delete
  <1>2. KeptOf(msgs', msgs, Len(msgs))
    BY <1>1, WithoutFacts DEF Delete, Structure, WellFormed
  <1>3. \A j \in 1..Len(msgs') : \E h \in 1..Len(msgs) : msgs'[j] = msgs[h]
    BY <1>2 DEF KeptOf
  <1>4. \A j \in 1..Len(msgs') : \E h \in 1..Len(msgs) :
            /\ msgs'[j].key = msgs[h].key /\ msgs'[j].status = msgs[h].status
            /\ OwnChunks(msgs'[j], owner, chunks)
    BY <1>3 DEF Answers
  <1>5. UNCHANGED <<streamVars, unfinished>> /\ view' = msgs' /\ gen' = (ref' # NoStream)
    BY DEF Delete, RenderNow, streamVars
  <1>6. QED
    BY <1>1, <1>4, <1>5, IdleCalm

\* An edit saved on an idle page.
LEMMA SaveEditCalm ==
  ASSUME Structure, Tracked, Answers, ~gen, NEW i \in DOMAIN view, SaveEdit(i)
  PROVE  Tracked' /\ Answers' /\ EndedKept(msgs, msgs')
  <1>1. view = msgs
    BY IdleFacts
  <1>2. /\ WellFormed(view, 2 * Count) /\ 2 * Count \in Nat /\ i \in 1..Len(view)
        /\ \A j \in 1..Len(view) : view[j] \in Message
    <2>1. /\ WellFormed(view, 2 * Count) /\ view \in Seq(Message) /\ Count \in Nat
      BY PlaygroundAssumption DEF Structure, TypeOK
    <2>2. QED
      BY <2>1, ListFacts
  <1>3. msgs' = Edit(i)
    BY DEF SaveEdit
  <1>4. /\ Len(msgs') = Len(msgs)
        /\ \A j \in 1..Len(msgs) : j # i => msgs'[j] = msgs[j]
        /\ msgs'[i].key = msgs[i].key /\ msgs'[i].from = msgs[i].from
        /\ msgs'[i].status = msgs[i].status
        /\ msgs'[i].content = <<Edited>> /\ msgs'[i].reasoning = msgs[i].reasoning
    BY <1>1, <1>2, <1>3, EditFacts
  <1>5. OwnChunks(msgs'[i], owner, chunks)
    <2>1. msgs[i] \in Message /\ OwnChunks(msgs[i], owner, chunks)
      BY <1>1, <1>2 DEF Answers
    <2>2. QED
      BY <1>4, <2>1, OwnMarked
  <1>6. ASSUME NEW j \in 1..Len(msgs')
        PROVE  /\ msgs'[j].key = msgs[j].key /\ msgs'[j].status = msgs[j].status
               /\ OwnChunks(msgs'[j], owner, chunks)
    <2>1. CASE j = i
      BY <1>4, <1>5, <2>1
    <2>2. CASE j # i
      BY <1>4, <2>2 DEF Answers
    <2>3. QED
      BY <2>1, <2>2
  <1>7. UNCHANGED <<streamVars, unfinished>> /\ view' = msgs' /\ gen' = (ref' # NoStream)
    BY DEF SaveEdit, RenderNow
  <1>8. QED
    BY <1>4, <1>6, <1>7, IdleCalm

\* A list that does not change revives nothing.
LEMMA SameEnded ==
  ASSUME Structure, msgs' = msgs PROVE EndedKept(msgs, msgs')
  BY DEF Structure, WellFormed, EndedKept

\* A render, and the clicks that only open or close an editor.
LEMMA RenderCalm ==
  ASSUME Structure, Tracked, Answers, UNCHANGED <<msgs, streamVars, unfinished>>,
         view' = msgs /\ gen' = (ref # NoStream)
  PROVE  Tracked' /\ Answers' /\ EndedKept(msgs, msgs')
  <1>1. UNCHANGED <<ref, complete, source, chunks, owner>>
    BY DEF streamVars
  <1>2. Tracked'
    BY <1>1 DEF Tracked, AwaitsAnswer
  <1>3. Answers'
    BY <1>1 DEF Answers
  <1>4. QED
    BY <1>2, <1>3, SameEnded

\* What an end of the answer leaves of each message.
Ends(list, new) ==
    /\ Len(new) = Len(list)
    /\ \A i \in 1..Len(list) :
         /\ new[i].key = list[i].key
         /\ new[i].status \notin Active
         /\ list[i].status \notin Active => new[i].status = list[i].status
         /\ OwnChunks(new[i], owner, chunks)

\* The answer ends, and with it its stream.
LEMMA EndCalm ==
  ASSUME Structure, Tracked, Answers, Ends(msgs, msgs'),
         \A t \in Sids : source'[t] # "open", ref' = NoStream,
         UNCHANGED <<owner, chunks, unfinished>>, gen' \/ view' = msgs'
  PROVE  Tracked' /\ Answers' /\ EndedKept(msgs, msgs')
  <1>1. Tracked'
    BY DEF Tracked, Ends
  <1>2. Answers'
    BY DEF Answers, Ends
  <1>3. \A i, h \in 1..Len(msgs) : msgs[i].key = msgs[h].key => i = h
    BY DEF Structure, WellFormed
  <1>4. EndedKept(msgs, msgs')
    BY <1>3 DEF EndedKept, Ends, Active
  <1>5. QED
    BY <1>1, <1>2, <1>4

\* The last message, if it is the unfinished one, is replaced by a finished one.
LEMMA EndsBy ==
  ASSUME Structure, Tracked, Answers, Len(msgs) > 0, NEW o,
         Replaces(msgs, msgs', o),
         o.key = Last(msgs).key, o.status \notin Active,
         Last(msgs).status \notin Active => o = Last(msgs),
         OwnChunks(o, owner, chunks)
  PROVE  Ends(msgs, msgs')
  <1>1. Len(msgs) \in Nat /\ \A i \in 1..Len(msgs) : msgs[i] \in Message
    BY ListFacts DEF Structure, TypeOK
  <1>2. Len(msgs') = Len(msgs)
    BY DEF Replaces, Touches
  <1>3. ASSUME NEW i \in 1..Len(msgs)
        PROVE  /\ msgs'[i].key = msgs[i].key
               /\ msgs'[i].status \notin Active
               /\ msgs[i].status \notin Active => msgs'[i].status = msgs[i].status
               /\ OwnChunks(msgs'[i], owner, chunks)
    <2>1. CASE i = Len(msgs) /\ msgs[i].from = "assistant"
      BY <2>1 DEF Replaces, Last
    <2>2. CASE ~(i = Len(msgs) /\ msgs[i].from = "assistant")
      <3>1. msgs'[i] = msgs[i]
        BY <2>2 DEF Replaces
      <3>2. msgs[i].from = "assistant" \/ msgs[i].status = "none"
        BY <1>1, MessageFields DEF Structure, WellFormed
      <3>3. msgs[i].status \notin Active
        BY <2>2, <3>2 DEF Tracked, Active
      <3>4. QED
        BY <3>1, <3>3 DEF Answers
    <2>3. QED
      BY <2>1, <2>2
  <1>4. QED
    BY <1>2, <1>3 DEF Ends

\* The last message has its own chunks.
LEMMA LastFacts ==
  ASSUME Structure, Answers, Len(msgs) > 0
  PROVE  Last(msgs) \in Message /\ OwnChunks(Last(msgs), owner, chunks)
  <1>1. Len(msgs) \in Nat /\ \A i \in 1..Len(msgs) : msgs[i] \in Message
    BY ListFacts DEF Structure, TypeOK
  <1>2. Len(msgs) \in 1..Len(msgs)
    BY <1>1
  <1>3. QED
    BY <1>1, <1>2 DEF Answers, Last

\* What is known when an event of stream s arrives.
LEMMA OpenFacts ==
  ASSUME Structure, Tracked, NEW s \in Sids, source[s] = "open"
  PROVE  /\ ref = s /\ ~complete /\ gen /\ s # NoStream
         /\ \A t \in Sids : source[t] = "open" => t = s
         /\ Len(msgs) > 0 /\ Last(msgs).from = "assistant"
         /\ Last(msgs).status \in Active /\ Last(msgs).key = owner[s]
  <1>1. ref = s /\ ~complete /\ AwaitsAnswer(s)
    BY DEF Tracked
  <1>2. s # NoStream
    BY DEF Sids, NoStream
  <1>3. gen
    BY <1>1, <1>2 DEF Tracked
  <1>4. \A t \in Sids : source[t] = "open" => t = s
    BY <1>1 DEF Tracked
  <1>5. QED
    BY <1>1, <1>2, <1>3, <1>4 DEF AwaitsAnswer, Last

\* The events that end an answer: [DONE], a chunk that does not parse, an error.
LEMMA EventEndCalm ==
  ASSUME Structure, Tracked, Answers, NEW s \in Sids, Done(s) \/ BadChunk(s) \/ Fail(s)
  PROVE  Tracked' /\ Answers' /\ EndedKept(msgs, msgs')
  <1>1. source[s] = "open"
    BY DEF Done, BadChunk, Fail
  <1>2. /\ ~complete /\ gen
        /\ \A t \in Sids : source[t] = "open" => t = s
        /\ Len(msgs) > 0 /\ Last(msgs).from = "assistant" /\ Last(msgs).status \in Active
    BY <1>1, OpenFacts
  <1>3. Last(msgs) \in Message /\ OwnChunks(Last(msgs), owner, chunks)
    BY <1>2, LastFacts
  <1>4. Ends(msgs, msgs')
    <2>1. CASE Done(s)
      <3>1. PICK o : o = Completed(Last(msgs))
        OBVIOUS
      <3>2. /\ o.key = Last(msgs).key /\ o.from = Last(msgs).from /\ o.status \notin Active
            /\ o.content = Last(msgs).content /\ o.reasoning = Last(msgs).reasoning
        BY <1>3, <3>1, EndFacts
      <3>3. OwnChunks(o, owner, chunks)
        BY <1>3, <3>2, OwnText
      <3>4. Replaces(msgs, msgs', o)
        BY <1>2, <2>1, <3>1, DoneReplaces
      <3>5. QED
        BY <1>2, <3>2, <3>3, <3>4, EndsBy
    <2>2. CASE BadChunk(s) \/ Fail(s)
      <3>1. msgs' = WithError(msgs)
        BY <1>2, <2>2 DEF BadChunk, Fail
      <3>2. PICK o : o = Erred(Last(msgs))
        OBVIOUS
      <3>3. /\ o.key = Last(msgs).key /\ o.from = Last(msgs).from /\ o.status \notin Active
            /\ o.content = <<Failed>> /\ o.reasoning = Last(msgs).reasoning
        BY <1>3, <3>2, ErredFacts DEF Active
      <3>4. OwnChunks(o, owner, chunks)
        BY <1>3, <3>3, OwnMarked
      <3>5. msgs \in Seq(Message)
        BY DEF Structure, TypeOK
      <3>6. Replaces(msgs, msgs', o)
        BY <3>1, <3>2, <3>5, WithErrorFacts DEF Replaces, Last
      <3>7. QED
        BY <1>2, <3>3, <3>4, <3>6, EndsBy
    <2>3. QED
      BY <2>1, <2>2
  <1>5. source' = [source EXCEPT ![s] = "closed"] /\ ref' = NoStream
    BY <1>2 DEF Done, BadChunk, Fail, CloseSource
  <1>6. \A t \in Sids : source'[t] # "open"
    BY <1>2, <1>5 DEF Structure, TypeOK
  <1>7. UNCHANGED <<owner, chunks, unfinished>> /\ gen'
    BY <1>2 DEF Done, BadChunk, Fail, Later
  <1>8. QED
    BY <1>4, <1>5, <1>6, <1>7, EndCalm

\* A stream cut off leaves the page as it was: the ref still holds it.
LEMMA TruncateCalm ==
  ASSUME Structure, Tracked, Answers, NEW s \in Sids, Truncate(s)
  PROVE  Tracked' /\ Answers' /\ EndedKept(msgs, msgs')
  <1>1. /\ source' = [source EXCEPT ![s] = "closed"]
        /\ UNCHANGED <<msgs, ref, complete, chunks, view, gen, owner, unfinished>>
    BY DEF Truncate, Later
  <1>2. \A t \in Sids : source'[t] = "open" => source[t] = "open"
    BY <1>1 DEF Structure, TypeOK
  <1>3. Tracked'
    BY <1>1, <1>2 DEF Tracked, AwaitsAnswer
  <1>4. Answers'
    BY <1>1 DEF Answers
  <1>5. QED
    BY <1>1, <1>3, <1>4, SameEnded

\* Stop closes the stream and ends its answer.
LEMMA StopCalm ==
  ASSUME Structure, Tracked, Answers, Stop
  PROVE  Tracked' /\ Answers' /\ EndedKept(msgs, msgs')
  <1>1. Ends(msgs, msgs')
    <2>1. msgs \in Seq(Message) /\ Len(msgs) \in Nat
      BY ListFacts DEF Structure, TypeOK
    <2>2. CASE Len(msgs) = 0
      <3>1. msgs' = msgs
        BY <2>1, <2>2, UpdateEmpty DEF Stop
      <3>2. QED
        BY <2>2, <3>1 DEF Ends
    <2>3. CASE Len(msgs) > 0
      <3>1. Last(msgs) \in Message /\ OwnChunks(Last(msgs), owner, chunks)
        BY <2>3, LastFacts
      <3>2. PICK o : o = Stopped(Last(msgs))
        OBVIOUS
      <3>3. /\ o.key = Last(msgs).key /\ o.from = Last(msgs).from /\ o.status \notin Active
            /\ o.content = Last(msgs).content /\ o.reasoning = Last(msgs).reasoning
            /\ Last(msgs).status \notin Active => o = Last(msgs)
        BY <3>1, <3>2, EndFacts
      <3>4. OwnChunks(o, owner, chunks)
        BY <3>1, <3>3, OwnText
      <3>5. Replaces(msgs, msgs', o)
        BY <2>3, <3>2, StopReplaces
      <3>6. QED
        BY <2>3, <3>3, <3>4, <3>5, EndsBy
    <2>4. QED
      BY <2>1, <2>2, <2>3
  <1>2. ref' = NoStream
    BY DEF Stop
  <1>3. \A t \in Sids : source'[t] # "open"
    <2>1. CASE ref = NoStream
      BY <2>1, OpenFacts DEF Stop
    <2>2. CASE ref # NoStream
      <3>1. source' = [source EXCEPT ![ref] = "closed"] /\ \A t \in Sids : source[t] = "open" => t = ref
        BY <2>2 DEF Stop, Tracked
      <3>2. QED
        BY <3>1 DEF Structure, TypeOK
    <2>3. QED
      BY <2>1, <2>2
  <1>4. UNCHANGED <<owner, chunks, unfinished>> /\ view' = msgs'
    BY DEF Stop, RenderNow
  <1>5. QED
    BY <1>1, <1>2, <1>3, <1>4, EndCalm

\* A reload repairs the one answer that was under way.
LEMMA ReloadCalm ==
  ASSUME Structure, Tracked, Answers, Reload
  PROVE  Tracked' /\ Answers' /\ EndedKept(msgs, msgs')
  <1>1. /\ msgs \in Seq(Message) /\ Len(msgs) \in Nat /\ DOMAIN msgs = 1..Len(msgs)
        /\ \A i \in 1..Len(msgs) : msgs[i] \in Message
    BY ListFacts DEF Structure, TypeOK
  <1>2. /\ Touches(msgs, msgs')
        /\ \/ msgs' = msgs /\ Stuck(msgs) = {}
           \/ \E last \in Stuck(msgs) :
                \A i \in 1..Len(msgs) : msgs'[i] = IF i = last THEN Sanitized(msgs[i]) ELSE msgs[i]
    BY <1>1, SanitizeFacts DEF Reload
  <1>3. \A i \in 1..Len(msgs) : msgs[i].status \in Active => i \in Stuck(msgs) /\ i = Len(msgs)
    <2>1. ASSUME NEW i \in 1..Len(msgs), msgs[i].status \in Active
          PROVE  i \in Stuck(msgs) /\ i = Len(msgs)
      <3>1. msgs[i].from = "assistant"
        BY <1>1, <2>1, MessageFields DEF Structure, WellFormed, Active
      <3>2. QED
        BY <1>1, <2>1, <3>1 DEF Stuck, Tracked
    <2>2. QED
      BY <2>1
  <1>4. Ends(msgs, msgs')
    <2>1. CASE msgs' = msgs /\ Stuck(msgs) = {}
      BY <1>3, <2>1 DEF Ends, Answers
    <2>2. CASE \E last \in Stuck(msgs) :
                 \A i \in 1..Len(msgs) : msgs'[i] = IF i = last THEN Sanitized(msgs[i]) ELSE msgs[i]
      <3>1. PICK last \in Stuck(msgs) :
              \A i \in 1..Len(msgs) : msgs'[i] = IF i = last THEN Sanitized(msgs[i]) ELSE msgs[i]
        BY <2>2
      <3>2. last \in 1..Len(msgs) /\ msgs[last].status \in Active /\ last = Len(msgs)
        BY <1>1, <1>3 DEF Stuck
      <3>3. msgs[last] \in Message /\ OwnChunks(msgs[last], owner, chunks)
        BY <1>1, <3>2 DEF Answers
      <3>4. PICK o : o = Sanitized(msgs[last])
        OBVIOUS
      <3>5. /\ o.key = msgs[last].key /\ o.from = msgs[last].from /\ o.status \notin Active
            /\ o.reasoning = msgs[last].reasoning
            /\ o.content = msgs[last].content \/ o.content = <<Failed>>
        BY <3>3, <3>4, SanitizedFacts
      <3>6. OwnChunks(o, owner, chunks)
        BY <3>3, <3>5, OwnText, OwnMarked
      <3>7. ASSUME NEW i \in 1..Len(msgs), i # last
            PROVE  /\ msgs'[i] = msgs[i] /\ msgs[i].status \notin Active
                   /\ OwnChunks(msgs[i], owner, chunks)
        BY <1>3, <3>1, <3>2, <3>7 DEF Answers
      <3>8. msgs'[last] = o
        BY <3>1, <3>2, <3>4
      <3>9. Len(msgs') = Len(msgs)
        BY <1>2 DEF Touches
      <3>10. QED
        BY <3>2, <3>5, <3>6, <3>7, <3>8, <3>9 DEF Ends
    <2>3. QED
      BY <1>2, <2>1, <2>2
  <1>5. ref' = NoStream /\ \A t \in Sids : source'[t] # "open"
    BY DEF Reload
  <1>6. UNCHANGED <<owner, chunks, unfinished>> /\ view' = msgs'
    BY DEF Reload, RenderNow
  <1>7. QED
    BY <1>4, <1>5, <1>6, EndCalm

\* A chunk lands in the answer its stream was opened for.
LEMMA ChunkCalm ==
  ASSUME Structure, Tracked, Answers, NEW s \in Sids, ContentChunk(s) \/ ReasoningChunk(s)
  PROVE  Tracked' /\ Answers' /\ EndedKept(msgs, msgs')
  <1>1. /\ source[s] = "open" /\ chunks[s] < MaxChunks
        /\ chunks' = [chunks EXCEPT ![s] = @ + 1]
        /\ UNCHANGED <<ref, complete, source, view, gen, owner, unfinished>>
    BY DEF ContentChunk, ReasoningChunk, Later
  <1>2. /\ ref = s /\ gen /\ ~complete
        /\ \A t \in Sids : source[t] = "open" => t = s
        /\ Len(msgs) > 0 /\ Last(msgs).from = "assistant"
        /\ Last(msgs).status \in Active /\ Last(msgs).key = owner[s]
    BY <1>1, OpenFacts
  <1>3. Last(msgs) \in Message /\ OwnChunks(Last(msgs), owner, chunks)
    BY <1>2, LastFacts
  <1>4. /\ Len(msgs) \in Nat /\ Len(msgs) \in 1..Len(msgs)
        /\ \A i \in 1..Len(msgs) : msgs[i] \in Message
    <2>1. Len(msgs) \in Nat /\ \A i \in 1..Len(msgs) : msgs[i] \in Message
      BY ListFacts DEF Structure, TypeOK
    <2>2. QED
      BY <1>2, <2>1
  <1>5. ~Marked(Last(msgs))
    BY <1>2, <1>4 DEF Answers, Last
  <1>6. PICK p : p = <<s, chunks[s] + 1>>
    OBVIOUS
  <1>7. p \in Pieces
    BY <1>1, <1>6, NextPiece
  <1>8. chunks \in [Sids -> Nat]
    BY PlaygroundAssumption DEF Structure, TypeOK
  <1>9. \A t \in Sids : owner[t] = Last(msgs).key => t = s
    <2>1. ASSUME NEW t \in Sids, owner[t] = owner[s] PROVE t = s
      <3>1. s \in Used
        BY <1>1 DEF Used
      <3>2. owner[s] = 2 * s /\ owner[t] = IF t \in Used THEN 2 * t ELSE 0
        BY <3>1 DEF Structure, NoKey
      <3>3. QED
        BY <2>1, <3>2 DEF Sids
    <2>2. QED
      BY <1>2, <2>1
  <1>10. Last(msgs).status # "error"
    BY <1>2 DEF Active
  <1>11. PICK o : /\ Replaces(msgs, msgs', o) /\ o.status = "streaming"
                  /\ o.key = Last(msgs).key /\ o.from = Last(msgs).from
                  /\ \/ o.content = Append(Last(msgs).content, p) /\ o.reasoning = Last(msgs).reasoning
                     \/ o.content = Last(msgs).content /\ o.reasoning = Append(Last(msgs).reasoning, p)
    <2>1. CASE ContentChunk(s)
      <3>1. PICK o : o = WithContent(Last(msgs), p)
        OBVIOUS
      <3>2. Replaces(msgs, msgs', o)
        BY <1>2, <1>6, <2>1, <3>1, ContentReplaces
      <3>3. /\ o.status = "streaming" /\ o.key = Last(msgs).key /\ o.from = Last(msgs).from
            /\ o.content = Append(Last(msgs).content, p) /\ o.reasoning = Last(msgs).reasoning
        BY <1>3, <1>7, <1>10, <3>1, ChunkFacts
      <3>4. QED
        BY <3>2, <3>3
    <2>2. CASE ReasoningChunk(s)
      <3>1. PICK o : o = WithReasoning(Last(msgs), p)
        OBVIOUS
      <3>2. Replaces(msgs, msgs', o)
        BY <1>2, <1>6, <2>2, <3>1, ReasoningReplaces
      <3>3. /\ o.status = "streaming" /\ o.key = Last(msgs).key /\ o.from = Last(msgs).from
            /\ o.content = Last(msgs).content /\ o.reasoning = Append(Last(msgs).reasoning, p)
        BY <1>3, <1>7, <1>10, <3>1, ChunkFacts
      <3>4. QED
        BY <3>2, <3>3
    <2>3. QED
      BY <2>1, <2>2
  <1>12. OwnChunks(o, owner, chunks') /\ ~Marked(o)
    BY <1>1, <1>2, <1>3, <1>5, <1>6, <1>7, <1>8, <1>9, <1>11, OwnChunk
  <1>13. /\ Len(msgs') = Len(msgs) /\ msgs'[Len(msgs)] = o
         /\ \A i \in 1..Len(msgs) : i # Len(msgs) => msgs'[i] = msgs[i]
    BY <1>2, <1>4, <1>11 DEF Replaces, Touches, Last
  <1>14. \A i \in 1..Len(msgs) : i # Len(msgs) =>
            msgs[i].status \notin Active /\ msgs[i].key # owner[s]
    BY <1>2, <1>4 DEF Tracked, Structure, WellFormed, Last
  <1>15. Tracked'
    <2>1. AwaitsAnswer(s)'
      BY <1>1, <1>2, <1>4, <1>11, <1>13 DEF AwaitsAnswer, Active
    <2>2. \A t \in Sids : source'[t] = "open" => ref' = t /\ ~complete' /\ AwaitsAnswer(t)'
      BY <1>1, <1>2, <2>1
    <2>3. \A i \in 1..Len(msgs') : msgs'[i].status \in Active =>
             i = Len(msgs') /\ ref' # NoStream /\ owner'[ref'] = msgs'[i].key
      BY <1>1, <1>2, <1>11, <1>13, <1>14 DEF Sids, NoStream
    <2>4. QED
      BY <1>1, <1>2, <2>2, <2>3 DEF Tracked
  <1>16. ASSUME NEW i \in 1..Len(msgs')
         PROVE  /\ OwnChunks(msgs'[i], owner', chunks')
                /\ msgs'[i].status \in Active => ~Marked(msgs'[i])
    <2>1. CASE i = Len(msgs)
      BY <1>1, <1>12, <1>13, <2>1
    <2>2. CASE i # Len(msgs)
      <3>1. /\ i \in 1..Len(msgs) /\ msgs'[i] = msgs[i] /\ msgs[i] \in Message
            /\ msgs[i].status \notin Active /\ msgs[i].key # owner[s]
            /\ OwnChunks(msgs[i], owner, chunks)
        BY <1>4, <1>13, <1>14, <2>2 DEF Answers
      <3>2. \A t \in Sids : owner[t] = msgs[i].key => chunks'[t] = chunks[t]
        BY <1>1, <1>8, <3>1
      <3>3. OwnChunks(msgs[i], owner, chunks')
        BY <3>1, <3>2, OwnSame
      <3>4. QED
        BY <1>1, <3>1, <3>3
    <2>3. QED
      BY <2>1, <2>2
  <1>17. Answers'
    BY <1>1, <1>16 DEF Answers
  <1>18. EndedKept(msgs, msgs')
    <2>1. Last(msgs).status \notin {"complete", "error"}
      BY <1>2 DEF Active
    <2>2. \A i, j \in 1..Len(msgs) : msgs[i].key = msgs[j].key => i = j
      BY DEF Structure, WellFormed
    <2>3. \A j \in 1..Len(msgs) : msgs'[j].key = msgs[j].key
      BY <1>11, <1>13 DEF Last
    <2>4. QED
      BY <1>13, <2>1, <2>2, <2>3 DEF EndedKept, Last
  <1>19. QED
    BY <1>15, <1>17, <1>18

\* While no control was used that should wait, every step keeps the invariant.
LEMMA CalmStep ==
  ASSUME Structure, Tracked, Answers, ~interrupted, [Next]_vars, ~interrupted'
  PROVE  Tracked' /\ Answers' /\ EndedKept(msgs, msgs')
  <1>1. CASE \/ Send \/ ClickSuggestion
             \/ \E i \in DOMAIN view : Regenerate(i) \/ SubmitEdit(i)
    BY <1>1, OpenCases, OpenStructure, OpenCalm
  <1>2. ASSUME NEW i \in DOMAIN view, Delete(i) PROVE Tracked' /\ Answers' /\ EndedKept(msgs, msgs')
    BY <1>2, DeleteCalm
  <1>3. ASSUME NEW i \in DOMAIN view, SaveEdit(i) PROVE Tracked' /\ Answers' /\ EndedKept(msgs, msgs')
    <2>1. ~gen
      BY <1>3 DEF SaveEdit
    <2>2. QED
      BY <1>3, <2>1, SaveEditCalm
  <1>4. ASSUME NEW i \in DOMAIN view, OpenEdit(i) PROVE Tracked' /\ Answers' /\ EndedKept(msgs, msgs')
    BY <1>4, RenderCalm DEF OpenEdit, RenderNow, streamVars
  <1>5. CASE CancelEdit
    BY <1>5, RenderCalm DEF CancelEdit, RenderNow, streamVars
  <1>6. CASE Render
    BY <1>6, RenderCalm DEF Render
  <1>7. CASE Stop
    BY <1>7, StopCalm
  <1>8. ASSUME NEW s \in Sids, StreamEvent(s) PROVE Tracked' /\ Answers' /\ EndedKept(msgs, msgs')
    BY <1>8, ChunkCalm, EventEndCalm, TruncateCalm DEF StreamEvent
  <1>9. CASE Reload
    BY <1>9, ReloadCalm
  <1>10. CASE UNCHANGED vars
    <2>1. Tracked' /\ Answers'
      BY <1>10 DEF vars, Tracked, Answers, AwaitsAnswer
    <2>2. QED
      BY <1>10, <2>1, SameEnded DEF vars
  <1>11. QED
    BY <1>1, <1>2, <1>3, <1>4, <1>5, <1>6, <1>7, <1>8, <1>9, <1>10 DEF Next

\* interrupted is never cleared.
LEMMA InterruptedStays ==
  ASSUME [Next]_vars, interrupted PROVE interrupted'
  BY DEF Next, vars, Send, ClickSuggestion, Regenerate, Delete, OpenEdit, SaveEdit, SubmitEdit,
         CancelEdit, Stop, StreamEvent, ContentChunk, ReasoningChunk, Done, BadChunk, Fail, Truncate,
         Later, Render, Reload

\* The empty page satisfies the invariant.
LEMMA PageInit == Init => PageInv
  <1> SUFFICES ASSUME Init PROVE PageInv
    OBVIOUS
  <1>1. Used = {} /\ Count = 0
    <2>1. Used = {}
      BY DEF Init, Used
    <2>2. QED
      BY <2>1, FS_EmptySet DEF Count
  <1>2. TypeOK
    <2>1. msgs \in Seq(Message) /\ view \in Seq(Message)
      BY DEF Init
    <2>2. /\ editing \in Keys \cup {NoKey} /\ ref \in Sids \cup {NoStream}
          /\ source \in [Sids -> {"unused", "open", "closed"}]
          /\ owner \in [Sids -> Keys \cup {NoKey}]
      BY DEF Init
    <2>3. chunks \in [Sids -> 0..MaxChunks]
      BY PlaygroundAssumption DEF Init
    <2>4. gen \in BOOLEAN /\ complete \in BOOLEAN /\ unfinished \in BOOLEAN /\ interrupted \in BOOLEAN
      BY DEF Init
    <2>5. QED
      BY <2>1, <2>2, <2>3, <2>4 DEF TypeOK
  <1>3. WellFormed(msgs, 2 * Count) /\ WellFormed(view, 2 * Count)
    BY DEF Init, WellFormed
  <1>4. Used = 1..Count /\ Count \in 0..MaxSends
    BY <1>1, PlaygroundAssumption
  <1>5. Structure
    BY <1>1, <1>2, <1>3, <1>4 DEF Structure, Init
  <1>6. Tracked
    BY DEF Init, Tracked
  <1>7. Answers
    BY DEF Init, Answers
  <1>8. QED
    BY <1>5, <1>6, <1>7 DEF PageInv

\* The inductive invariant behind the three theorems below.
LEMMA PageInductive == Spec => []PageInv
  <1>1. PageInv /\ [Next]_vars => PageInv'
    BY StructureStep, CalmStep, InterruptedStays DEF PageInv
  <1>2. QED
    BY PageInit, <1>1, PTL DEF Spec

\* The ref holds every open stream and the one unfinished answer waits for it, and
\* the page's state keeps its types, for any number of streams and chunks, until a
\* control that should wait is used while an answer is generated
\* (use-stream-request.ts: sseSourceRef; use-chat-handler.ts).
THEOREM StreamsTrackedHolds == Spec => []StreamsTracked
  <1>1. ASSUME PageInv PROVE StreamsTracked
    <2>1. TypeOK /\ DOMAIN msgs = 1..Len(msgs)
      BY <1>1, ListFacts DEF PageInv, Structure, TypeOK
    <2>2. QED
      BY <1>1, <2>1 DEF PageInv, Tracked, StreamsTracked
  <1>2. QED
    BY PageInductive, <1>1, PTL

\* Until then every answer consists of the chunks of its own stream, all of them and
\* in order, and no request carries an unfinished one, for any number of streams and
\* chunks (use-chat-handler.ts addresses the last assistant message, not a key).
THEOREM AnswersAreOwnHolds == Spec => []AnswersAreOwn
  <1>1. ASSUME PageInv PROVE AnswersAreOwn
    <2>1. DOMAIN msgs = 1..Len(msgs)
      BY <1>1, ListFacts DEF PageInv, Structure, TypeOK
    <2>2. QED
      BY <1>1, <2>1 DEF PageInv, Answers, OwnChunks, AnswersAreOwn
  <1>2. QED
    BY PageInductive, <1>1, PTL

\* Until then no late event, render, edit or reload changes the status of an answer
\* that was completed, stopped or failed (message-utils.ts, use-stream-request.ts).
THEOREM EndedStaysEndedHolds == Spec => EndedStaysEnded
  <1> DEFINE Kept == ~interrupted' => \A i \in DOMAIN msgs, j \in DOMAIN msgs' :
          msgs[i].key = msgs'[j].key /\ msgs[i].status \in {"complete", "error"}
             => msgs'[j].status = msgs[i].status
  <1>1. ASSUME PageInv, [Next]_vars PROVE Kept
    <2> SUFFICES ASSUME ~interrupted' PROVE Kept
      OBVIOUS
    <2>1. ~interrupted
      BY <1>1, InterruptedStays
    <2>2. Structure' /\ EndedKept(msgs, msgs')
      BY <1>1, <2>1, CalmStep, StructureStep DEF PageInv
    <2>3. DOMAIN msgs = 1..Len(msgs) /\ DOMAIN msgs' = 1..Len(msgs')
      BY <1>1, <2>2, ListFacts DEF PageInv, Structure, TypeOK
    <2>4. QED
      BY <2>2, <2>3 DEF EndedKept
  <1>2. QED
    BY PageInductive, <1>1, PTL DEF Spec, EndedStaysEnded
-----------------------------------------------------------------------------
(***************************************************************************)
(* The settings form, for any fields, values and trimming.                 *)
(* WritesOnlyTyped needs that a dirty field was typed in since the last    *)
(* reset; StaleHasCause needs what a GET under way will bring;             *)
(* ShownIsSaved needs, of the sections that wait for the page to render,   *)
(* that a field whose baseline differs from the server's value is still    *)
(* to change in the cache.                                                 *)
(***************************************************************************)

\* A PUT belongs to a running save and to the fields it set out to write.
PutInSave ==
    /\ ~Idle(put) => submit.active
    /\ submit.active => submit.todo \cup ({put.field} \ {NoField}) \subseteq submit.changed

DirtyWasTyped == Dirty \subseteq typed

\* While nothing explains a stale cache, the cache, or the answer on its way to
\* it, agrees with the server, up to a PUT whose answer will refetch.
CacheFollows ==
    ~behind /\ put.state # "applied" =>
        /\ get.state = "none" => data = server
        /\ get.state = "read" => get.value = server

Saving(f) == submit.active /\ f \in submit.changed

\* The form of a section that takes its defaults from the page will be told of f.
Told(f) ==
    /\ ~Saving(f) /\ ~fresh /\ baseline[f] # server[f] => data[f] # server[f]
    /\ Saving(f) =>
          \/ f \in submit.todo
          \/ put.state = "sent" /\ put.field = f
          \/ submit.values[f] = server[f]
    /\ submit.active /\ ~Saving(f) /\ ~fresh /\ submit.values[f] # server[f] => data[f] # server[f]

FormFollows == ~section.fresh => \A f \in Fields \ untold : Told(f)

FormInv ==
    /\ FormTypeOK /\ PutInSave /\ DirtyWasTyped /\ WritesOnlyTyped
    /\ CacheFollows /\ FormFollows /\ (section.fresh => untold = {})

\* The record of a page that saves nothing; some option has some value.
LEMMA NoSaveTyped ==
    ASSUME Options # {}
    PROVE  NoSave \in [active : BOOLEAN, values : Options, changed : SUBSET Fields, todo : SUBSET Fields]
  <1>1. [f \in Fields |-> CHOOSE v \in Values : TRUE] \in Options
    <2>1. PICK o : o \in Options
      OBVIOUS
    <2>2. ASSUME NEW f \in Fields PROVE (CHOOSE v \in Values : TRUE) \in Values
      BY <2>1 DEF Options
    <2>3. QED
      BY <2>2 DEF Options
  <1>2. QED
    BY <1>1 DEF NoSave

\* The form starts with what the server holds.
LEMMA FormStarts == FormInit => FormInv
  <1> SUFFICES ASSUME FormInit PROVE FormInv
    OBVIOUS
  <1> USE SettingsFormAssumption DEF FormInit, Idle
  <1>1. FormTypeOK
    <2>1. NoSave \in [active : BOOLEAN, values : Options, changed : SUBSET Fields, todo : SUBSET Fields]
      BY NoSaveTyped
    <2>2. QED
      BY <2>1 DEF FormTypeOK, Options
  <1>2. PutInSave /\ WritesOnlyTyped /\ CacheFollows
    BY DEF PutInSave, WritesOnlyTyped, CacheFollows, NoSave
  <1>3. DirtyWasTyped
    BY DEF DirtyWasTyped, Dirty
  <1>4. FormFollows
    BY DEF FormFollows, Told, Saving, NoSave
  <1>5. QED
    BY <1>1, <1>2, <1>3, <1>4 DEF FormInv

\* The types are kept; a PUT names a field because it belongs to a running save.
LEMMA FormTypes == ASSUME FormTypeOK, PutInSave, [FormNext]_formVars PROVE FormTypeOK'
  <1> USE SettingsFormAssumption DEF FormTypeOK, Idle, Options
  <1>1. ASSUME NEW f \in Fields, NEW v \in Values, Type(f, v) \/ OtherAdmin(f, v) PROVE FormTypeOK'
    <2>1. CASE Type(f, v)
      <3>1. form' \in Options /\ typed' \subseteq Fields
        BY <2>1 DEF Type
      <3>2. QED
        BY <2>1, <3>1 DEF Type
    <2>2. CASE OtherAdmin(f, v)
      <3>1. server' \in Options /\ behind' \in BOOLEAN /\ untold' \subseteq Fields
        BY <2>2 DEF OtherAdmin, Untold
      <3>2. QED
        BY <2>2, <3>1 DEF OtherAdmin
    <2>3. QED
      BY <1>1, <2>1, <2>2
  <1>2. CASE HandleReset
    BY <1>2 DEF HandleReset, ResetTo
  <1>3. CASE Submit
    BY <1>3 DEF Submit, Dirty
  <1>4. CASE FocusRefetch
    BY <1>4 DEF FocusRefetch
  <1>5. CASE Effect
    <2>1. /\ baseline' \in Options /\ form' \in Options /\ typed' \subseteq Fields
          /\ fresh' \in BOOLEAN
      BY <1>5 DEF Effect, ResetTo
    <2>2. untold' \subseteq Fields
      BY <1>5 DEF Effect, Untold, Overtaken
    <2>3. QED
      BY <1>5, <2>1, <2>2 DEF Effect
  <1>6. ASSUME NEW f \in Fields, SendPut(f) PROVE FormTypeOK'
    BY <1>6 DEF SendPut
  <1>7. CASE SubmitEnd
    <2>1. submit' \in [active : BOOLEAN, values : Options, changed : SUBSET Fields, todo : SUBSET Fields]
      BY <1>7, NoSaveTyped DEF SubmitEnd
    <2>2. baseline' \in Options /\ form' \in Options /\ typed' \subseteq Fields
      BY <1>7 DEF SubmitEnd, ResetTo
    <2>3. QED
      BY <1>7, <2>1, <2>2 DEF SubmitEnd
  <1>8. CASE PutApply
    <2>1. put.field \in Fields
      BY <1>8 DEF PutApply
    <2>2. server' \in Options
      <3>1. Sent(submit.values[put.field]) \in Values
        BY <2>1 DEF Sent
      <3>2. QED
        BY <1>8, <2>1, <3>1 DEF PutApply
    <2>3. QED
      BY <1>8, <2>1, <2>2 DEF PutApply
  <1>9. CASE PutReject
    <2>1. untold' \subseteq Fields
      BY <1>9 DEF PutReject, Untold
    <2>2. QED
      BY <1>9, <2>1 DEF PutReject
  <1>10. CASE PutAnswer
    BY <1>10 DEF PutAnswer, Refetch
  <1>11. CASE PutError
    <2>1. submit' \in [active : BOOLEAN, values : Options, changed : SUBSET Fields, todo : SUBSET Fields]
      BY <1>11, NoSaveTyped DEF PutError
    <2>2. untold' \subseteq Fields
      BY <1>11 DEF PutError, Untold
    <2>3. QED
      BY <1>11, <2>1, <2>2 DEF PutError
  <1>12. CASE ServerRead
    BY <1>12 DEF ServerRead
  <1>13. CASE GetDone
    <2>1. fresh' \in BOOLEAN /\ data' \in Options
      BY <1>13 DEF GetDone
    <2>2. QED
      BY <1>13, <2>1 DEF GetDone
  <1>14. CASE GetError
    BY <1>14 DEF GetError
  <1>15. CASE UNCHANGED formVars
    BY <1>15 DEF formVars
  <1>16. QED
    BY <1>1, <1>2, <1>3, <1>4, <1>5, <1>6, <1>7, <1>8, <1>9, <1>10, <1>11, <1>12,
       <1>13, <1>14, <1>15 DEF FormNext, Page, Transport

\* What a save sends was typed: the form's side of the invariant.
LEMMA FormTyped ==
    ASSUME FormInv, [FormNext]_formVars
    PROVE  PutInSave' /\ DirtyWasTyped' /\ WritesOnlyTyped'
  <1> USE SettingsFormAssumption
      DEF FormInv, FormTypeOK, Idle, Options, PutInSave, DirtyWasTyped, Dirty, WritesOnlyTyped
  <1>1. ASSUME NEW f \in Fields, NEW v \in Values, Type(f, v) \/ OtherAdmin(f, v)
        PROVE  PutInSave' /\ DirtyWasTyped' /\ WritesOnlyTyped'
    BY <1>1 DEF Type, OtherAdmin
  <1>2. CASE HandleReset
    BY <1>2 DEF HandleReset, ResetTo
  <1>3. CASE Submit
    BY <1>3 DEF Submit
  <1>4. CASE FocusRefetch \/ ServerRead \/ GetDone \/ GetError
    BY <1>4 DEF FocusRefetch, ServerRead, GetDone, GetError
  <1>5. CASE Effect
    BY <1>5 DEF Effect, ResetTo
  <1>6. ASSUME NEW f \in Fields, SendPut(f)
        PROVE  PutInSave' /\ DirtyWasTyped' /\ WritesOnlyTyped'
    BY <1>6 DEF SendPut
  <1>7. CASE SubmitEnd
    BY <1>7 DEF SubmitEnd, ResetTo, NoSave
  <1>8. CASE PutApply \/ PutReject
    BY <1>8 DEF PutApply, PutReject
  <1>9. CASE PutAnswer
    BY <1>9 DEF PutAnswer
  <1>10. CASE PutError
    BY <1>10 DEF PutError, NoSave
  <1>11. CASE UNCHANGED formVars
    BY <1>11 DEF formVars
  <1>12. QED
    BY <1>1, <1>2, <1>3, <1>4, <1>5, <1>6, <1>7, <1>8, <1>9, <1>10, <1>11
    DEF FormNext, Page, Transport

\* What the cache holds: the request side of the invariant.
LEMMA FormCache == ASSUME FormTypeOK, CacheFollows, [FormNext]_formVars PROVE CacheFollows'
  <1> USE DEF FormTypeOK, Idle, CacheFollows
  <1>1. ASSUME NEW f \in Fields, NEW v \in Values, Type(f, v) \/ OtherAdmin(f, v)
        PROVE  CacheFollows'
    BY <1>1 DEF Type, OtherAdmin
  <1>2. CASE HandleReset \/ Submit \/ SubmitEnd
    BY <1>2 DEF HandleReset, Submit, SubmitEnd
  <1>3. CASE FocusRefetch
    BY <1>3 DEF FocusRefetch
  <1>4. CASE Effect
    BY <1>4 DEF Effect
  <1>5. ASSUME NEW f \in Fields, SendPut(f) PROVE CacheFollows'
    BY <1>5 DEF SendPut
  <1>6. CASE PutApply \/ PutReject
    BY <1>6 DEF PutApply, PutReject
  <1>7. CASE PutAnswer
    BY <1>7 DEF PutAnswer, Refetch
  <1>8. CASE PutError \/ GetError
    BY <1>8 DEF PutError, GetError
  <1>9. CASE ServerRead
    BY <1>9 DEF ServerRead
  <1>10. CASE GetDone
    BY <1>10 DEF GetDone
  <1>11. CASE UNCHANGED formVars
    BY <1>11 DEF formVars
  <1>12. QED
    BY <1>1, <1>2, <1>3, <1>4, <1>5, <1>6, <1>7, <1>8, <1>9, <1>10, <1>11
    DEF FormNext, Page, Transport

\* The section does not change, and one that builds its defaults is always told.
LEMMA FormSection ==
    ASSUME FormTypeOK, section.fresh => untold = {}, [FormNext]_formVars
    PROVE  section' = section /\ (section.fresh => untold' = {})
  <1> USE DEF Untold
  <1>1. ASSUME NEW f \in Fields, NEW v \in Values, Type(f, v) \/ OtherAdmin(f, v)
        PROVE  section' = section /\ (section.fresh => untold' = {})
    BY <1>1 DEF Type, OtherAdmin
  <1>2. CASE HandleReset \/ Submit \/ SubmitEnd \/ FocusRefetch
    BY <1>2 DEF HandleReset, Submit, SubmitEnd, FocusRefetch
  <1>3. CASE Effect
    BY <1>3 DEF Effect
  <1>4. ASSUME NEW f \in Fields, SendPut(f)
        PROVE  section' = section /\ (section.fresh => untold' = {})
    BY <1>4 DEF SendPut
  <1>5. CASE PutApply \/ PutReject \/ PutAnswer \/ PutError
    BY <1>5 DEF PutApply, PutReject, PutAnswer, PutError
  <1>6. CASE ServerRead \/ GetDone \/ GetError
    BY <1>6 DEF ServerRead, GetDone, GetError
  <1>7. CASE UNCHANGED formVars
    BY <1>7 DEF formVars
  <1>8. QED
    BY <1>1, <1>2, <1>3, <1>4, <1>5, <1>6, <1>7 DEF FormNext, Page, Transport

\* A form that waits for the page will be told of every field that is not excused:
\* the form's side and the server's side of ShownIsSaved.
LEMMA FormTold ==
    ASSUME FormInv, [FormNext]_formVars, ~section.fresh, NEW h \in Fields, h \notin untold'
    PROVE  Told(h)'
  <1> USE DEF FormInv, FormTypeOK, Idle, Options, PutInSave, Told, Saving, Untold
  <1>1. h \notin untold => Told(h)
    BY DEF FormFollows
  <1>2. ASSUME NEW f \in Fields, NEW v \in Values, Type(f, v) PROVE Told(h)'
    BY <1>1, <1>2 DEF Type
  <1>3. ASSUME NEW f \in Fields, NEW v \in Values, OtherAdmin(f, v) PROVE Told(h)'
    BY <1>1, <1>3 DEF OtherAdmin
  <1>4. CASE HandleReset
    BY <1>1, <1>4 DEF HandleReset, ResetTo
  <1>5. CASE Submit
    BY <1>1, <1>5 DEF Submit, Dirty
  <1>6. CASE FocusRefetch \/ ServerRead \/ GetError
    BY <1>1, <1>6 DEF FocusRefetch, ServerRead, GetError
  <1>7. CASE Effect
    <2>1. baseline' = data
      BY <1>7 DEF Effect, ResetTo
    <2>2. CASE submit.active
      <3>1. h \notin untold /\ h \notin Overtaken
        BY <1>7, <2>2 DEF Effect
      <3>2. QED
        BY <1>1, <1>7, <2>1, <2>2, <3>1 DEF Effect, Overtaken
    <2>3. CASE ~submit.active
      BY <1>7, <2>1, <2>3 DEF Effect
    <2>4. QED
      BY <2>2, <2>3
  <1>8. ASSUME NEW f \in Fields, SendPut(f) PROVE Told(h)'
    BY <1>1, <1>8 DEF SendPut
  <1>9. CASE SubmitEnd
    BY <1>1, <1>9 DEF SubmitEnd, ResetTo, NoSave
  <1>10. CASE PutApply
    <2>1. put.field \in submit.changed /\ submit.active
      BY <1>10 DEF PutApply
    <2>2. Sent(submit.values[put.field]) = submit.values[put.field]
      BY DEF Sent, Sections, Quota, Pricing, SystemInfo
    <2>3. QED
      BY <1>1, <1>10, <2>1, <2>2 DEF PutApply
  <1>11. CASE PutReject
    BY <1>1, <1>11 DEF PutReject
  <1>12. CASE PutAnswer
    BY <1>1, <1>12 DEF PutAnswer
  <1>13. CASE PutError
    BY <1>1, <1>13 DEF PutError, NoSave
  <1>14. CASE GetDone
    BY <1>1, <1>14 DEF GetDone
  <1>15. CASE UNCHANGED formVars
    BY <1>1, <1>15 DEF formVars
  <1>16. QED
    BY <1>2, <1>3, <1>4, <1>5, <1>6, <1>7, <1>8, <1>9, <1>10, <1>11, <1>12, <1>13,
       <1>14, <1>15 DEF FormNext, Page, Transport

\* The inductive invariant behind the theorems below.
THEOREM FormInductive == FormSpec => []FormInv
  <1>1. ASSUME FormInv, [FormNext]_formVars PROVE FormInv'
    <2>1. FormTypeOK' /\ PutInSave' /\ DirtyWasTyped' /\ WritesOnlyTyped' /\ CacheFollows'
      BY <1>1, FormTypes, FormTyped, FormCache DEF FormInv
    <2>2. section' = section /\ (section.fresh => untold' = {})
      BY <1>1, FormSection DEF FormInv
    <2>3. FormFollows'
      BY <1>1, <2>2, FormTold DEF FormFollows
    <2>4. QED
      BY <2>1, <2>2, <2>3 DEF FormInv
  <1>2. QED
    BY FormStarts, <1>1, PTL DEF FormSpec

\* The page, its cache and its requests keep their types, whatever the server,
\* the network and another administrator do.
THEOREM FormTypeCorrect == FormSpec => []FormTypeOK
  BY FormInductive, PTL DEF FormInv

\* A save writes only fields the administrator typed in since the last reset of
\* the form, with any number of fields and saves (use-settings-form.ts,
\* handleSubmit and the effect).
THEOREM SavesOnlyTyped == FormSpec => []WritesOnlyTyped
  BY FormInductive, PTL DEF FormInv

\* The cached options are the server's unless another administrator, a lost
\* request or a joined GET explains it (use-update-option.ts, api.ts).
THEOREM CacheExplained == FormSpec => []StaleHasCause
  <1>1. FormInv => StaleHasCause
    BY DEF FormInv, CacheFollows, StaleHasCause, Settled, Idle
  <1>2. QED
    BY FormInductive, <1>1, PTL

\* A form nobody typed in since its last reset shows the server's options once all
\* requests and effects are done: the system information section always, also after a
\* trimmed save; the quota and pricing sections up to the fields that were refused,
\* written by another administrator, in a save that broke off, or reset to older
\* values by a save, since the effect last ran without a save (use-settings-form.ts).
THEOREM ShownIsSavedHolds == FormSpec => []ShownIsSaved
  <1>1. ASSUME FormInv PROVE ShownIsSaved
    <2> SUFFICES ASSUME Quiet, ~behind, typed = {}, NEW f \in Fields, f \notin untold
                 PROVE  form[f] = server[f]
      BY <1>1 DEF ShownIsSaved, FormInv
    <2>1. data = server
      BY <1>1 DEF FormInv, CacheFollows, Quiet, Settled, Idle
    <2>2. form[f] = baseline[f]
      BY <1>1 DEF FormInv, DirtyWasTyped, Dirty
    <2>3. CASE section.fresh
      BY <2>1, <2>2, <2>3 DEF Quiet, EffectDue
    <2>4. CASE ~section.fresh
      <3>1. Told(f) /\ ~fresh /\ ~submit.active
        BY <1>1, <2>4 DEF FormInv, FormFollows, Quiet, Settled, EffectDue
      <3>2. QED
        BY <2>1, <2>2, <3>1 DEF Told, Saving
    <2>5. QED
      BY <2>3, <2>4
  <1>2. QED
    BY FormInductive, <1>1, PTL
=============================================================================
