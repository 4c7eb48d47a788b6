-------------------------- MODULE TranscriptProofs --------------------------
(***************************************************************************)
(* Proofs about the transcripts, for any number of turns, rounds of tools  *)
(* and calls, runs that stop anywhere and harnesses that go on after them. *)
(***************************************************************************)
EXTENDS Transcripts, SelectionProofs

-----------------------------------------------------------------------------
(* Sequences of anything.                                                   *)

IsSeq(s) == s \in Seq(ToSet(s))

LEMMA TypedIsSeq ==
  ASSUME NEW V, NEW s \in Seq(V)
  PROVE  IsSeq(s)
<1>1. \A i \in 1..Len(s) : s[i] \in ToSet(s)
  BY DEF ToSet
<1>2. QED BY <1>1 DEF IsSeq

LEMMA SeqFacts ==
  ASSUME NEW s, IsSeq(s)
  PROVE  /\ Len(s) \in Nat /\ DOMAIN s = 1..Len(s)
         /\ ToSet(s) = {s[i] : i \in 1..Len(s)}
         /\ s = <<>> <=> Len(s) = 0
BY DEF IsSeq, ToSet

\* t is s and then x.
IsAppended(t, s, x) ==
  /\ IsSeq(t) /\ Len(t) = Len(s) + 1 /\ t # <<>>
  /\ \A i \in 1..Len(s) : t[i] = s[i]
  /\ t[Len(s) + 1] = x

LEMMA AppendFacts ==
  ASSUME NEW s, IsSeq(s), NEW x
  PROVE  IsAppended(Append(s, x), s, x)
<1> DEFINE V == ToSet(s) \cup {x}
<1>1. s \in Seq(V)
  <2>1. s \in Seq(ToSet(s))
    BY DEF IsSeq
  <2>2. QED BY <2>1
<1>2. x \in V
  OBVIOUS
<1> HIDE DEF V
<1>3. /\ Append(s, x) \in Seq(V) /\ Len(Append(s, x)) = Len(s) + 1
      /\ \A i \in 1..Len(s) : Append(s, x)[i] = s[i]
      /\ Append(s, x)[Len(s) + 1] = x
      /\ Append(s, x) # <<>>
  BY <1>1, <1>2, AppendProperties
<1>4. IsSeq(Append(s, x))
  BY <1>3, TypedIsSeq
<1>5. QED BY <1>3, <1>4 DEF IsAppended

-----------------------------------------------------------------------------
(* Trees of entries.                                                        *)

Ids(entries) == {entries[i].id : i \in 1..Len(entries)}

MayHangOff(e, entries) ==
  e.parent \in Ids(entries) \cup (IF e.type = "user" THEN {Null} ELSE {})

LEMMA EmptyIsTree == IsTree(<<>>) /\ Ids(<<>>) = {} /\ IsSeq(<<>>)
<1>1. Len(<<>>) = 0 /\ 1..Len(<<>>) = {} /\ <<>> \in Seq({})
  OBVIOUS
<1>2. QED BY <1>1, TypedIsSeq DEF IsTree, Ids

LEMMA AppendedToTree ==
  ASSUME NEW s, IsSeq(s), IsTree(s), NEW e, e.id \notin Ids(s), MayHangOff(e, s),
         NEW t, IsAppended(t, s, e)
  PROVE  /\ IsTree(t)
         /\ Ids(t) = Ids(s) \cup {e.id}
<1>1. /\ Len(s) \in Nat /\ Len(t) = Len(s) + 1
      /\ \A i \in 1..Len(s) : t[i] = s[i]
      /\ t[Len(s) + 1] = e
  BY SeqFacts DEF IsAppended
<1>2. Ids(t) = Ids(s) \cup {e.id}
  BY <1>1 DEF Ids
<1>3. ASSUME NEW i \in 1..Len(t)
      PROVE  LET above == {t[j].id : j \in 1..(i - 1)}
             IN /\ t[i].id \notin above
                /\ t[i].parent \in above \cup (IF t[i].type = "user" THEN {Null} ELSE {})
  <2> DEFINE above == {t[j].id : j \in 1..(i - 1)}
  <2>1. CASE i \in 1..Len(s)
    <3>1. above = {s[j].id : j \in 1..(i - 1)}
      BY <1>1, <2>1
    <3>2. t[i] = s[i]
      BY <1>1, <2>1
    <3> HIDE DEF above
    <3>3. QED BY <2>1, <3>1, <3>2 DEF IsTree, above
  <2>2. CASE i = Len(s) + 1
    <3>1. above = Ids(s)
      BY <1>1, <2>2 DEF Ids
    <3>2. t[i] = e
      BY <1>1, <2>2
    <3> HIDE DEF above
    <3>3. QED BY <3>1, <3>2 DEF MayHangOff, above
  <2>3. QED BY <1>1, <2>1, <2>2
<1>4. IsTree(t)
  BY <1>3 DEF IsTree
<1>5. QED BY <1>2, <1>4

\* Entries that keep their places, ids, parents and types are the same tree.
SameShape(s, t) ==
  /\ IsSeq(t) /\ Len(t) = Len(s)
  /\ \A i \in 1..Len(s) :
       t[i].id = s[i].id /\ t[i].parent = s[i].parent /\ t[i].type = s[i].type

LEMMA SameTree ==
  ASSUME NEW s, IsSeq(s), IsTree(s), NEW t, SameShape(s, t)
  PROVE  IsTree(t) /\ Ids(t) = Ids(s)
<1>1. /\ Len(s) \in Nat /\ Len(t) = Len(s)
      /\ \A i \in 1..Len(s) :
           t[i].id = s[i].id /\ t[i].parent = s[i].parent /\ t[i].type = s[i].type
  BY SeqFacts DEF SameShape
<1>2. Ids(t) = Ids(s)
  BY <1>1 DEF Ids
<1>3. ASSUME NEW i \in 1..Len(t)
      PROVE  LET above == {t[j].id : j \in 1..(i - 1)}
             IN /\ t[i].id \notin above
                /\ t[i].parent \in above \cup (IF t[i].type = "user" THEN {Null} ELSE {})
  <2> DEFINE above == {t[j].id : j \in 1..(i - 1)}
  <2>1. above = {s[j].id : j \in 1..(i - 1)}
    BY <1>1
  <2>2. t[i].id = s[i].id /\ t[i].parent = s[i].parent /\ t[i].type = s[i].type /\ i \in 1..Len(s)
    BY <1>1
  <2> HIDE DEF above
  <2>3. QED BY <2>1, <2>2 DEF IsTree, above
<1>4. IsTree(t)
  BY <1>3 DEF IsTree
<1>5. QED BY <1>2, <1>4

LEMMA IdsAreUnique ==
  ASSUME NEW s, IsSeq(s), IsTree(s), NEW i \in 1..Len(s), NEW j \in 1..Len(s),
         s[i].id = s[j].id
  PROVE  i = j
<1>1. Len(s) \in Nat
  BY SeqFacts
<1>2. ASSUME NEW k \in 1..Len(s), NEW l \in 1..(k - 1) PROVE s[k].id # s[l].id
  BY DEF IsTree
<1>3. i \in Nat /\ j \in Nat /\ (i < j => i \in 1..(j - 1)) /\ (j < i => j \in 1..(i - 1))
  BY <1>1
<1>4. QED BY <1>2, <1>3

-----------------------------------------------------------------------------
(* The content of an entry.                                                 *)

LEMMA FunctionIsSeq ==
  ASSUME NEW n \in Nat, NEW f, f = [i \in 1..n |-> f[i]]
  PROVE  IsSeq(f) /\ Len(f) = n
<1> DEFINE V == {f[i] : i \in 1..n}
<1>1. f \in [1..n -> V]
  OBVIOUS
<1>2. f \in Seq(V) /\ Len(f) = n
  BY <1>1
<1>3. QED BY <1>2, TypedIsSeq

LEMMA ConcatFacts ==
  ASSUME NEW a, IsSeq(a), NEW b, IsSeq(b)
  PROVE  /\ IsSeq(a \o b)
         /\ ToSet(a \o b) = ToSet(a) \cup ToSet(b)
         /\ Len(a \o b) = Len(a) + Len(b)
<1> DEFINE V == ToSet(a) \cup ToSet(b)
<1>1. a \in Seq(V) /\ b \in Seq(V)
  <2>1. a \in Seq(ToSet(a)) /\ b \in Seq(ToSet(b))
    BY DEF IsSeq
  <2>2. QED BY <2>1
<1> HIDE DEF V
<1>2. PICK c : c = a \o b
  OBVIOUS
<1>3. /\ c \in Seq(V) /\ Len(c) = Len(a) + Len(b) /\ Len(a) \in Nat /\ Len(b) \in Nat
      /\ \A i \in 1..Len(a) : c[i] = a[i]
      /\ \A i \in 1..Len(b) : c[Len(a) + i] = b[i]
  BY <1>1, <1>2
<1>4. IsSeq(c)
  BY <1>3, TypedIsSeq
<1>5. ToSet(c) = ToSet(a) \cup ToSet(b)
  <2>1. /\ ToSet(a) = {a[i] : i \in 1..Len(a)} /\ ToSet(b) = {b[i] : i \in 1..Len(b)}
        /\ ToSet(c) = {c[i] : i \in 1..Len(c)}
    BY <1>4, SeqFacts
  <2>2. ASSUME NEW i \in 1..Len(c) PROVE c[i] \in ToSet(a) \cup ToSet(b)
    BY <1>3 DEF V
  <2>3. ASSUME NEW i \in 1..Len(a) PROVE a[i] \in ToSet(c)
    BY <1>3, <2>1
  <2>4. ASSUME NEW i \in 1..Len(b) PROVE b[i] \in ToSet(c)
    <3>1. Len(a) + i \in 1..Len(c) /\ c[Len(a) + i] = b[i]
      BY <1>3
    <3>2. QED BY <2>1, <3>1
  <2>5. QED BY <2>1, <2>2, <2>3, <2>4
<1>6. QED BY <1>2, <1>3, <1>4, <1>5

LEMMA OnlyFacts ==
  ASSUME NEW content, IsSeq(content), NEW types
  PROVE  /\ IsSeq(Only(content, types))
         /\ ToSet(Only(content, types)) = {item \in ToSet(content) : item[1] \in types}
<1> DEFINE S == {item \in ToSet(content) : item[1] \in types}
           V == ToSet(content)
           f == Select(content, S)
<1>1. content \in Seq(V)
  BY DEF IsSeq
<1>2. f \in Seq(V \cap S)
  BY <1>1, SelectIsTyped
<1>3. IsSeq(f)
  BY <1>2, TypedIsSeq
<1>4. ToSet(f) = {f[i] : i \in 1..Len(f)} /\ ToSet(content) = {content[i] : i \in 1..Len(content)}
  BY <1>3, SeqFacts
<1>5. \A i \in 1..Len(content) :
        content[i] \in S => \E j \in 1..Len(f) : f[j] = content[i]
  BY <1>1, SelectKeeps
<1>6. \A i \in 1..Len(f) : f[i] \in S
  BY <1>2
<1>7. S \subseteq {content[i] : i \in 1..Len(content)}
  BY <1>4
<1> HIDE DEF f, S, V
<1>8. ToSet(f) = S
  BY <1>4, <1>5, <1>6, <1>7
<1>9. QED BY <1>3, <1>8 DEF Only, f, S

LEMMA LeastIsMember ==
  ASSUME NEW S \in SUBSET Nat, S # {}
  PROVE  Min(S) \in S
<1>1. \E x \in S : \A y \in S : x <= y
  BY LeastNatural
<1>2. QED BY <1>1 DEF Min

LEMMA TextFacts ==
  ASSUME NEW content, IsSeq(content)
  PROVE  /\ IsSeq(TextOf(content))
         /\ \A piece \in ToSet(TextOf(content)) :
              \E item \in ToSet(content) : item[1] = "text" /\ piece = item[2]
<1> DEFINE texts == Only(content, {"text"})
           f == TextOf(content)
<1>1. /\ IsSeq(texts) /\ Len(texts) \in Nat
      /\ \A item \in ToSet(texts) : item \in ToSet(content) /\ item[1] = "text"
  BY OnlyFacts, SeqFacts
<1>2. f = [i \in 1..Len(texts) |-> texts[i][2]]
  BY DEF TextOf
<1> HIDE DEF texts, f
<1>3. \A i \in 1..Len(texts) : texts[i] \in ToSet(texts)
  BY <1>1, SeqFacts
<1>4. IsSeq(f) /\ Len(f) = Len(texts)
  <2>1. f = [i \in 1..Len(texts) |-> f[i]]
    BY <1>2
  <2>2. QED BY <1>1, <2>1, FunctionIsSeq
<1>5. ToSet(f) = {f[i] : i \in 1..Len(f)}
  BY <1>4, SeqFacts
<1>6. ASSUME NEW i \in 1..Len(f)
      PROVE  \E item \in ToSet(content) : item[1] = "text" /\ f[i] = item[2]
  <2>1. i \in 1..Len(texts)
    BY <1>4
  <2>2. f[i] = texts[i][2]
    BY ONLY <1>2, <2>1
  <2>3. texts[i] \in ToSet(texts)
    BY <1>3, <2>1
  <2>4. texts[i] \in ToSet(content) /\ texts[i][1] = "text"
    BY <1>1, <2>3
  <2>5. QED BY <2>2, <2>4
<1>7. QED BY <1>4, <1>5, <1>6 DEF f

LEMMA SegmentFacts ==
  ASSUME NEW s, IsSeq(s), NEW k \in 0..Len(s)
  PROVE  IsSeq(SubSeq(s, 1, k)) /\ ToSet(SubSeq(s, 1, k)) \subseteq ToSet(s)
<1>1. s \in Seq(ToSet(s)) /\ Len(s) \in Nat
  BY SeqFacts DEF IsSeq
<1>2. SubSeq(s, 1, k) \in Seq(ToSet(s))
  BY <1>1
<1>3. IsSeq(SubSeq(s, 1, k))
  BY <1>2, TypedIsSeq
<1>4. ToSet(SubSeq(s, 1, k)) = {SubSeq(s, 1, k)[i] : i \in 1..Len(SubSeq(s, 1, k))}
  BY <1>3, SeqFacts
<1>5. QED BY <1>2, <1>3, <1>4

\* The items of a text come from the message, and so do its turns.
LEMMA PreambleFacts ==
  ASSUME NEW content, IsSeq(content)
  PROVE  /\ IsSeq(ToAssistantPreamble(content))
         /\ \A item \in ToSet(ToAssistantPreamble(content)) :
              \E pieces : /\ item = Text(pieces)
                          /\ \A piece \in ToSet(pieces) :
                               \E said \in ToSet(content) : said[1] = "text" /\ piece = said[2]
<1> DEFINE calls == {i \in 1..Len(content) : content[i][1] = "toolCall"}
           before == IF calls = {} THEN Len(content) ELSE Min(calls) - 1
           said == SubSeq(content, 1, before)
           preamble == TextOf(said)
<1>1. Len(content) \in Nat
  BY SeqFacts
<1>2. before \in 0..Len(content)
  <2>1. CASE calls = {}
    BY <1>1, <2>1
  <2>2. CASE calls # {}
    <3>1. calls \in SUBSET Nat /\ calls \subseteq 1..Len(content)
      OBVIOUS
    <3> HIDE DEF calls
    <3>2. Min(calls) \in 1..Len(content)
      BY <2>2, <3>1, LeastIsMember
    <3>3. QED BY <1>1, <2>2, <3>2
  <2>3. QED BY <2>1, <2>2
<1>3. ToAssistantPreamble(content) = IF preamble = <<>> THEN <<>> ELSE <<Text(preamble)>>
  BY DEF ToAssistantPreamble
<1> HIDE DEF before, calls
<1>4. IsSeq(said) /\ ToSet(said) \subseteq ToSet(content)
  BY <1>2, SegmentFacts
<1> HIDE DEF said
<1>5. \A piece \in ToSet(preamble) :
        \E item \in ToSet(content) : item[1] = "text" /\ piece = item[2]
  BY <1>4, TextFacts
<1> HIDE DEF preamble
<1>6. IsSeq(<<>>) /\ ToSet(<<>>) = {}
  <2>1. <<>> \in Seq({}) /\ Len(<<>>) = 0
    OBVIOUS
  <2>2. IsSeq(<<>>)
    BY <2>1, TypedIsSeq
  <2>3. QED BY <2>1, <2>2, SeqFacts
<1>7. IsSeq(<<Text(preamble)>>) /\ ToSet(<<Text(preamble)>>) = {Text(preamble)}
  <2>1. <<Text(preamble)>> \in Seq({Text(preamble)}) /\ Len(<<Text(preamble)>>) = 1
    OBVIOUS
  <2>2. IsSeq(<<Text(preamble)>>)
    BY <2>1, TypedIsSeq
  <2>3. ToSet(<<Text(preamble)>>) = {<<Text(preamble)>>[i] : i \in 1..Len(<<Text(preamble)>>)}
    BY <2>2, SeqFacts
  <2>4. QED BY <2>1, <2>2, <2>3
<1>8. QED BY <1>3, <1>5, <1>6, <1>7

-----------------------------------------------------------------------------
(* Transcripts: sequences of entries, and what happens to them.             *)

IsEntry(e) == e = Entry(e.id, e.parent, e.type, e.content) /\ IsSeq(e.content)

IsTranscript(s) == IsSeq(s) /\ \A i \in 1..Len(s) : IsEntry(s[i])

LEMMA ContentIsKept ==
  ASSUME NEW content, IsSeq(content)
  PROVE  Extends(content, content)
BY SeqFacts DEF Extends

LEMMA EntriesAreKept ==
  ASSUME NEW s, IsTranscript(s), NEW t, Len(t) \in Nat, Len(s) <= Len(t),
         \A i \in 1..Len(s) : t[i] = s[i]
  PROVE  Grows(s, t)
<1>1. ASSUME NEW i \in 1..Len(s)
      PROVE  Extends(s[i].content, t[i].content)
  <2>1. IsSeq(s[i].content)
    BY DEF IsTranscript, IsEntry
  <2>2. QED BY <2>1, ContentIsKept
<1>2. QED BY <1>1 DEF Grows

LEMMA EntryIsAppended ==
  ASSUME NEW s, IsTranscript(s), NEW e, IsEntry(e), NEW t, IsAppended(t, s, e)
  PROVE  IsTranscript(t) /\ Grows(s, t)
<1>1. /\ IsSeq(s) /\ IsSeq(t) /\ Len(s) \in Nat /\ Len(t) = Len(s) + 1
      /\ \A i \in 1..Len(s) : t[i] = s[i] /\ IsEntry(s[i])
      /\ t[Len(s) + 1] = e
  BY SeqFacts DEF IsAppended, IsTranscript
<1>2. IsTranscript(t)
  <2>1. ASSUME NEW i \in 1..Len(t) PROVE IsEntry(t[i])
    <3>1. i \in 1..Len(s) \/ i = Len(s) + 1
      BY <1>1
    <3>2. QED BY <1>1, <3>1
  <2>2. QED BY <1>1, <2>1 DEF IsTranscript
<1>3. Grows(s, t)
  BY <1>1, EntriesAreKept
<1>4. QED BY <1>2, <1>3

LEMMA ItemIsAdded ==
  ASSUME NEW s, IsTranscript(s), NEW id \in Ids(s), NEW item, NEW t, t = AddItem(s, id, item)
  PROVE  /\ IsTranscript(t)
         /\ SameShape(s, t)
         /\ Grows(s, t)
         /\ \E at \in 1..Len(s) :
              /\ s[at].id = id /\ IsAppended(t[at].content, s[at].content, item)
              /\ \A i \in 1..Len(s) : i # at => t[i] = s[i]
<1> DEFINE at == CHOOSE i \in 1..Len(s) : s[i].id = id
<1>1. at \in 1..Len(s) /\ s[at].id = id
  BY DEF Ids
<1>2. t = [s EXCEPT ![at].content = Append(@, item)]
  BY DEF AddItem
<1> HIDE DEF at
<1>3. IsSeq(s) /\ Len(s) \in Nat /\ DOMAIN s = 1..Len(s)
  BY SeqFacts DEF IsTranscript
<1>4. s[at] = Entry(s[at].id, s[at].parent, s[at].type, s[at].content) /\ IsSeq(s[at].content)
  BY <1>1 DEF IsTranscript, IsEntry
<1>5. IsAppended(Append(s[at].content, item), s[at].content, item)
  BY <1>4, AppendFacts
<1>6. t = [i \in 1..Len(s) |-> IF i = at THEN [s[at] EXCEPT !.content = Append(@, item)]
                               ELSE s[i]]
  BY <1>1, <1>2, <1>3
<1>7. t[at] = Entry(s[at].id, s[at].parent, s[at].type, Append(s[at].content, item))
  BY <1>1, <1>4, <1>6 DEF Entry
<1>8. \A i \in 1..Len(s) : i # at => t[i] = s[i]
  BY <1>6
<1>9. IsSeq(t) /\ Len(t) = Len(s)
  <2> DEFINE V == {t[i] : i \in 1..Len(s)}
  <2>1. t \in [1..Len(s) -> V]
    BY <1>6
  <2>2. t \in Seq(V) /\ Len(t) = Len(s)
    BY <1>3, <2>1
  <2>3. QED BY <2>2, TypedIsSeq
<1>10. /\ t[at].id = s[at].id /\ t[at].parent = s[at].parent /\ t[at].type = s[at].type
       /\ t[at].content = Append(s[at].content, item)
       /\ IsEntry(t[at])
  <2>1. IsSeq(Append(s[at].content, item))
    BY <1>5 DEF IsAppended
  <2>2. QED BY <1>7, <2>1 DEF Entry, IsEntry
<1>11. IsTranscript(t)
  BY <1>8, <1>9, <1>10 DEF IsTranscript
<1>12. SameShape(s, t)
  BY <1>8, <1>9, <1>10 DEF SameShape
<1>13. Grows(s, t)
  <2>1. ASSUME NEW i \in 1..Len(s) PROVE Extends(s[i].content, t[i].content)
    <3>1. CASE i = at
      BY <1>4, <1>5, <1>10, <3>1, SeqFacts DEF IsAppended, Extends
    <3>2. CASE i # at
      <4>1. IsSeq(s[i].content) /\ t[i] = s[i]
        BY <1>8, <3>2 DEF IsTranscript, IsEntry
      <4>2. QED BY <4>1, ContentIsKept
    <3>3. QED BY <3>1, <3>2
  <2>2. QED BY <1>3, <1>9, <1>12, <2>1 DEF Grows, SameShape
<1>14. QED BY <1>1, <1>5, <1>8, <1>10, <1>11, <1>12, <1>13

(* The view of pi's file.                                                   *)

PiKinds == {"pi_user", "pi_process", "pi_assistant"}

\* The id of the record k, which the harness of the turn who wrote.
MessageId(k, who) == <<"msg", k, who>>

\* The ids of entries come from the first n messages.
FromMessages(entries, n) ==
  \A i \in 1..Len(entries) : \E kind \in PiKinds, k \in 1..n, who \in 1..MaxTurns :
    entries[i].id = <<kind, MessageId(k, who)>>

\* A map from the first n messages to entries that their writers wrote.
MapsMessages(map, entries, n) ==
  \A id \in DOMAIN map :
    /\ map[id] \in Ids(entries)
    /\ \E k \in 1..n, who \in 1..MaxTurns : id = MessageId(k, who)
    /\ map[id][2][3] = id[3]

\* The view of pi's file after n records.
PiTree(v, n) ==
  /\ IsTranscript(v.entries)
  /\ IsTree(v.entries)
  /\ FromMessages(v.entries, n)
  /\ MapsMessages(v.platform, v.entries, n)
  /\ MapsMessages(v.process, v.entries, n)

\* What was mapped stays as it was.
Keeps(map, later) ==
  DOMAIN map \subseteq DOMAIN later /\ \A id \in DOMAIN map : later[id] = map[id]

\* The view w comes after the view v of the same file.
ReadsOn(v, w) ==
  /\ Grows(v.entries, w.entries)
  /\ Keeps(v.platform, w.platform)
  /\ Keeps(v.process, w.process)

Started(entries, id, call) ==
  \E i \in 1..Len(entries) :
    entries[i].id = id /\ ToolCall(call, "started") \in ToSet(entries[i].content)

Joined(entries, call) ==
  \E e \in ToSet(entries) :
    \E i, j \in 1..Len(e.content) :
      /\ i < j
      /\ e.content[i] = ToolCall(call, "started")
      /\ e.content[j] \in {ToolCall(call, status) : status \in {"completed", "error"}}

\* The turn of every harness is its own, and so are its calls.
HarnessInv ==
  /\ runtime \in Runtimes
  /\ turn \in 0..MaxTurns /\ (pc # "idle" => turn # 0)
  /\ DOMAIN harness = 1..MaxTurns
  /\ \A w \in 1..MaxTurns : \A call \in harness[w].open : call[1] = w

\* The last message a harness wrote became an entry, or joined one.
LeavesAreKnown ==
  \A w \in 1..MaxTurns : harness[w].at = "prompting" =>
    /\ Known(view.platform, harness[w].leaf) \/ Known(view.process, harness[w].leaf)
    /\ harness[w].leaf[3] = w

OpenCallsAreStarted ==
  \A w \in 1..MaxTurns : harness[w].at = "prompting" /\ harness[w].open # {} =>
    /\ Known(view.process, harness[w].leaf)
    /\ \A call \in harness[w].open : Started(view.entries, view.process[harness[w].leaf], call)

ResultsAreJoined ==
  \A n \in 1..Len(session) :
    session[n].type = "message" /\ session[n].role = "toolResult" =>
      Joined(view.entries, session[n].call)

\* What holds of pi's file and its view while its harnesses write it.
PiState ==
  /\ IsSeq(session)
  /\ PiTree(view, Len(session))
  /\ LeavesAreKnown
  /\ OpenCallsAreStarted
  /\ ResultsAreJoined

\* Nothing of the view is an orphan the reader would leave out.
IsShown(e) == ~(e.type = "process" /\ e.parent[1] = "pi_orphan")

AllIsShown(entries) == IsTranscript(entries) /\ \A i \in 1..Len(entries) : IsShown(entries[i])

PiInv ==
  /\ Adapter("pi") => PiState
  /\ AllIsShown(view.entries)

-----------------------------------------------------------------------------
(* One record more: what stays, and what a new message brings.               *)

LEMMA FreshId ==
  ASSUME NEW s, NEW n \in Nat, FromMessages(s, n), NEW kind, NEW who
  PROVE  <<kind, MessageId(n + 1, who)>> \notin Ids(s)
<1>1. SUFFICES ASSUME NEW i \in 1..Len(s), s[i].id = <<kind, MessageId(n + 1, who)>> PROVE FALSE
  BY DEF Ids
<1>2. PICK other \in PiKinds, k \in 1..n, writer \in 1..MaxTurns :
        s[i].id = <<other, MessageId(k, writer)>>
  BY DEF FromMessages
<1>3. MessageId(k, writer) = MessageId(n + 1, who)
  BY <1>1, <1>2
<1>4. k = n + 1
  BY <1>3 DEF MessageId
<1>5. QED BY <1>4

LEMMA MessagesRemain ==
  ASSUME NEW s, NEW n \in Nat, FromMessages(s, n)
  PROVE  FromMessages(s, n + 1)
<1>1. 1..n \subseteq 1..(n + 1)
  OBVIOUS
<1>2. QED BY <1>1 DEF FromMessages

LEMMA MapRemains ==
  ASSUME NEW map, NEW s, NEW t, NEW n \in Nat, MapsMessages(map, s, n), Ids(s) \subseteq Ids(t)
  PROVE  MapsMessages(map, t, n + 1)
<1>1. 1..n \subseteq 1..(n + 1)
  OBVIOUS
<1>2. QED BY <1>1 DEF MapsMessages

LEMMA MapGains ==
  ASSUME NEW map, NEW s, NEW t, NEW n \in Nat, MapsMessages(map, s, n), Ids(s) \subseteq Ids(t),
         NEW who \in 1..MaxTurns, NEW entry \in Ids(t), entry[2][3] = who,
         NEW later, later = With(map, MessageId(n + 1, who), entry)
  PROVE  /\ MapsMessages(later, t, n + 1)
         /\ Keeps(map, later)
         /\ Known(later, MessageId(n + 1, who))
         /\ later[MessageId(n + 1, who)] = entry
<1> DEFINE new == MessageId(n + 1, who)
<1>1. MapsMessages(map, t, n + 1)
  BY MapRemains
<1>2. new # Null /\ new[3] = who
  BY DEF MessageId, Null
<1>3. n + 1 \in 1..(n + 1)
  OBVIOUS
<1>4. /\ DOMAIN later = DOMAIN map \cup {new}
      /\ later[new] = entry
      /\ \A id \in DOMAIN map : id # new => later[id] = map[id]
  BY DEF With
<1>5. \A id \in DOMAIN later :
        /\ later[id] \in Ids(t)
        /\ \E k \in 1..(n + 1), writer \in 1..MaxTurns : id = MessageId(k, writer)
        /\ later[id][2][3] = id[3]
  <2>1. SUFFICES ASSUME NEW id \in DOMAIN later
                 PROVE  /\ later[id] \in Ids(t)
                        /\ \E k \in 1..(n + 1), writer \in 1..MaxTurns : id = MessageId(k, writer)
                        /\ later[id][2][3] = id[3]
    OBVIOUS
  <2>2. CASE id = new
    BY <1>2, <1>3, <1>4, <2>2
  <2>3. CASE id # new
    BY <1>1, <1>4, <2>3 DEF MapsMessages
  <2>4. QED BY <2>2, <2>3
<1>6. new \notin DOMAIN map
  <2>1. SUFFICES ASSUME new \in DOMAIN map PROVE FALSE
    OBVIOUS
  <2>2. PICK k \in 1..n, writer \in 1..MaxTurns : new = MessageId(k, writer)
    BY <2>1 DEF MapsMessages
  <2>3. k = n + 1
    BY <2>2 DEF MessageId
  <2>4. QED BY <2>3
<1>7. Keeps(map, later)
  BY <1>4, <1>6 DEF Keeps
<1>8. QED BY <1>2, <1>4, <1>5, <1>7 DEF MapsMessages, Known

LEMMA NothingIsLost ==
  ASSUME NEW map
  PROVE  Keeps(map, map)
BY DEF Keeps

LEMMA LookupIsEntry ==
  ASSUME NEW map, NEW s, NEW n, MapsMessages(map, s, n), NEW id, Known(map, id)
  PROVE  map[id] \in Ids(s) /\ map[id][2][3] = id[3]
BY DEF MapsMessages, Known

\* The new entry of the message n + 1.
LEMMA EntryOfMessage ==
  ASSUME NEW s, IsTranscript(s), IsTree(s), NEW n \in Nat, FromMessages(s, n + 1),
         NEW kind \in PiKinds, NEW who \in 1..MaxTurns,
         NEW e, IsEntry(e), e.id = <<kind, MessageId(n + 1, who)>>,
         e.id \notin Ids(s), MayHangOff(e, s), NEW t, IsAppended(t, s, e)
  PROVE  /\ IsTranscript(t)
         /\ IsTree(t)
         /\ FromMessages(t, n + 1)
         /\ Ids(t) = Ids(s) \cup {e.id}
         /\ Grows(s, t)
<1>1. IsTranscript(t) /\ Grows(s, t)
  BY EntryIsAppended
<1>2. IsSeq(s)
  BY DEF IsTranscript
<1>3. IsTree(t) /\ Ids(t) = Ids(s) \cup {e.id}
  BY <1>2, AppendedToTree
<1>4. FromMessages(t, n + 1)
  <2>1. SUFFICES ASSUME NEW i \in 1..Len(t)
                 PROVE  \E other \in PiKinds, k \in 1..(n + 1), writer \in 1..MaxTurns :
                          t[i].id = <<other, MessageId(k, writer)>>
    BY DEF FromMessages
  <2>2. /\ Len(s) \in Nat /\ Len(t) = Len(s) + 1 /\ t[Len(s) + 1] = e
        /\ \A j \in 1..Len(s) : t[j] = s[j]
    BY <1>2, SeqFacts DEF IsAppended
  <2>3. CASE i \in 1..Len(s)
    BY <2>2, <2>3 DEF FromMessages
  <2>4. CASE i = Len(s) + 1
    <3>1. n + 1 \in 1..(n + 1)
      OBVIOUS
    <3>2. QED BY <2>2, <2>4, <3>1
  <2>5. QED BY <2>2, <2>3, <2>4
<1>5. QED BY <1>1, <1>3, <1>4

LEMMA ShapeKeepsMessages ==
  ASSUME NEW s, NEW n, FromMessages(s, n), NEW t, SameShape(s, t)
  PROVE  FromMessages(t, n)
BY DEF FromMessages, SameShape

-----------------------------------------------------------------------------
(* What a growing transcript keeps of the calls it shows.                    *)

LEMMA ItemsRemain ==
  ASSUME NEW content, IsSeq(content), NEW later, Extends(content, later),
         NEW i \in 1..Len(content), content[i][1] = "tool_call"
  PROVE  later[i] = content[i]
<1>1. content[i][1] # "text"
  OBVIOUS
<1>2. QED BY <1>1 DEF Extends

LEMMA CallsRemain ==
  ASSUME NEW s, IsTranscript(s), NEW t, IsTranscript(t), Grows(s, t), NEW call
  PROVE  /\ Joined(s, call) => Joined(t, call)
         /\ \A id : Started(s, id, call) => Started(t, id, call)
<1>1. /\ IsSeq(s) /\ IsSeq(t) /\ Len(s) \in Nat /\ Len(t) \in Nat /\ Len(s) <= Len(t)
      /\ ToSet(s) = {s[i] : i \in 1..Len(s)} /\ ToSet(t) = {t[i] : i \in 1..Len(t)}
  BY SeqFacts DEF IsTranscript, Grows
<1>2. ASSUME NEW i \in 1..Len(s)
      PROVE  /\ i \in 1..Len(t) /\ t[i].id = s[i].id
             /\ IsSeq(s[i].content) /\ IsSeq(t[i].content)
             /\ Extends(s[i].content, t[i].content)
             /\ 1..Len(s[i].content) \subseteq 1..Len(t[i].content)
  <2>1. /\ i \in 1..Len(t) /\ t[i].id = s[i].id
        /\ IsSeq(s[i].content) /\ IsSeq(t[i].content)
        /\ Extends(s[i].content, t[i].content)
    BY <1>1 DEF Grows, IsTranscript, IsEntry
  <2>2. Len(s[i].content) \in Nat /\ Len(t[i].content) \in Nat
    BY <2>1, SeqFacts
  <2>3. Len(s[i].content) <= Len(t[i].content)
    BY <2>1 DEF Extends
  <2>4. QED BY <2>1, <2>2, <2>3
<1>3. ASSUME NEW i \in 1..Len(s), NEW j \in 1..Len(s[i].content), NEW status,
             s[i].content[j] = ToolCall(call, status)
      PROVE  t[i].content[j] = ToolCall(call, status)
  <2>1. s[i].content[j][1] = "tool_call"
    BY <1>3 DEF ToolCall
  <2>2. PICK a, b : a = s[i].content /\ b = t[i].content
    OBVIOUS
  <2>3. IsSeq(a) /\ Extends(a, b) /\ j \in 1..Len(a) /\ a[j][1] = "tool_call"
    BY <1>2, <2>1, <2>2
  <2>4. b[j] = a[j]
    BY <2>3, ItemsRemain
  <2>5. QED BY <1>3, <2>2, <2>4
<1>4. ASSUME Joined(s, call) PROVE Joined(t, call)
  <2>1. PICK i \in 1..Len(s) :
          \E j, k \in 1..Len(s[i].content) :
            /\ j < k
            /\ s[i].content[j] = ToolCall(call, "started")
            /\ s[i].content[k] \in {ToolCall(call, status) : status \in {"completed", "error"}}
    BY <1>1, <1>4 DEF Joined
  <2>2. PICK j \in 1..Len(s[i].content), k \in 1..Len(s[i].content) :
          /\ j < k
          /\ s[i].content[j] = ToolCall(call, "started")
          /\ s[i].content[k] \in {ToolCall(call, status) : status \in {"completed", "error"}}
    BY <2>1
  <2>3. PICK status \in {"completed", "error"} : s[i].content[k] = ToolCall(call, status)
    BY <2>2
  <2>4. /\ j < k
        /\ t[i].content[j] = ToolCall(call, "started")
        /\ t[i].content[k] \in {ToolCall(call, x) : x \in {"completed", "error"}}
    BY <1>3, <2>2, <2>3
  <2>5. j \in 1..Len(t[i].content) /\ k \in 1..Len(t[i].content) /\ t[i] \in ToSet(t)
    BY <1>1, <1>2
  <2>6. QED BY <2>4, <2>5 DEF Joined
<1>5. ASSUME NEW id, Started(s, id, call) PROVE Started(t, id, call)
  <2>1. PICK i \in 1..Len(s) :
          s[i].id = id /\ ToolCall(call, "started") \in ToSet(s[i].content)
    BY <1>5 DEF Started
  <2>2. PICK j \in 1..Len(s[i].content) : s[i].content[j] = ToolCall(call, "started")
    <3>1. ToSet(s[i].content) = {s[i].content[j] : j \in 1..Len(s[i].content)}
      BY <1>2, SeqFacts
    <3>2. QED BY <2>1, <3>1
  <2>3. t[i].content[j] = ToolCall(call, "started") /\ j \in 1..Len(t[i].content)
    BY <1>2, <1>3, <2>2
  <2>4. ToolCall(call, "started") \in ToSet(t[i].content)
    BY <1>2, <2>3, SeqFacts
  <2>5. QED BY <1>2, <2>1, <2>4 DEF Started
<1>6. QED BY <1>4, <1>5

-----------------------------------------------------------------------------
(* The content each record brings.                                           *)

LEMMA UserContentIsSeq ==
  ASSUME NEW content, IsSeq(content)
  PROVE  IsSeq(ToUserContent(content))
<1> DEFINE shown == Only(content, {"text", "image"})
           f == ToUserContent(content)
<1>1. IsSeq(shown) /\ Len(shown) \in Nat
  BY OnlyFacts, SeqFacts
<1>2. f = [i \in 1..Len(shown) |-> <<shown[i][1], <<shown[i][2]>>>>]
  BY DEF ToUserContent
<1> HIDE DEF shown, f
<1>3. f = [i \in 1..Len(shown) |-> f[i]]
  BY <1>2
<1>4. IsSeq(f)
  BY <1>1, <1>3, FunctionIsSeq
<1>5. QED BY <1>4 DEF f

LEMMA ThoughtsAreSeq ==
  ASSUME NEW content, IsSeq(content)
  PROVE  IsSeq(ToProcessContent(content))
<1> DEFINE thoughts == Only(content, {"thinking"})
           f == ToProcessContent(content)
<1>1. IsSeq(thoughts) /\ Len(thoughts) \in Nat
  BY OnlyFacts, SeqFacts
<1>2. f = [i \in 1..Len(thoughts) |-> Text(<<thoughts[i][2]>>)]
  BY DEF ToProcessContent
<1> HIDE DEF thoughts, f
<1>3. f = [i \in 1..Len(thoughts) |-> f[i]]
  BY <1>2
<1>4. IsSeq(f)
  BY <1>1, <1>3, FunctionIsSeq
<1>5. QED BY <1>4 DEF f

LEMMA CallsAreShown ==
  ASSUME NEW content, IsSeq(content)
  PROVE  /\ IsSeq(ToToolCallContent(content))
         /\ \A call : <<"toolCall", call>> \in ToSet(content)
              => ToolCall(call, "started") \in ToSet(ToToolCallContent(content))
<1> DEFINE calls == Only(content, {"toolCall"})
           f == ToToolCallContent(content)
<1>1. /\ IsSeq(calls) /\ Len(calls) \in Nat
      /\ ToSet(calls) = {calls[i] : i \in 1..Len(calls)}
      /\ ToSet(calls) = {item \in ToSet(content) : item[1] \in {"toolCall"}}
  BY OnlyFacts, SeqFacts
<1>2. f = [i \in 1..Len(calls) |-> ToolCall(calls[i][2], "started")]
  BY DEF ToToolCallContent
<1> HIDE DEF calls, f
<1>3. IsSeq(f) /\ Len(f) = Len(calls)
  <2>1. f = [i \in 1..Len(calls) |-> f[i]]
    BY <1>2
  <2>2. QED BY <1>1, <2>1, FunctionIsSeq
<1>4. ToSet(f) = {f[i] : i \in 1..Len(f)}
  BY <1>3, SeqFacts
<1>5. ASSUME NEW call, <<"toolCall", call>> \in ToSet(content)
      PROVE  ToolCall(call, "started") \in ToSet(f)
  <2>1. <<"toolCall", call>>[1] = "toolCall" /\ <<"toolCall", call>>[2] = call
    OBVIOUS
  <2>2. PICK i \in 1..Len(calls) : calls[i] = <<"toolCall", call>>
    BY <1>1, <1>5, <2>1
  <2>3. f[i] = ToolCall(call, "started") /\ i \in 1..Len(f)
    BY <1>2, <1>3, <2>1, <2>2
  <2>4. QED BY <1>4, <2>3
<1>6. QED BY <1>3, <1>5 DEF f

LEMMA AssistantTextIsSeq ==
  ASSUME NEW content
  PROVE  IsSeq(ToAssistantText(content))
<1>1. PICK item : item = Text(TextOf(content))
  OBVIOUS
<1>2. <<item>> \in Seq({item})
  OBVIOUS
<1>3. IsSeq(<<item>>)
  BY <1>2, TypedIsSeq
<1>4. QED BY <1>1, <1>3 DEF ToAssistantText

-----------------------------------------------------------------------------
(* The reader takes one message of pi's more.                                *)

LEMMA UserIsRead ==
  ASSUME NEW v, NEW n \in Nat, PiTree(v, n),
         NEW who \in 1..MaxTurns, NEW m, m.id = MessageId(n + 1, who), IsSeq(m.content),
         NEW w, w = ReadUser(v, m)
  PROVE  /\ PiTree(w, n + 1)
         /\ ReadsOn(v, w)
         /\ Known(w.platform, MessageId(n + 1, who))
<1> DEFINE id == <<"pi_user", m.id>>
           above == Lookup(v.platform, m.parent)
           e == Entry(id, above, "user", ToUserContent(m.content))
<1>1. /\ w.entries = Append(v.entries, e)
      /\ w.platform = With(v.platform, m.id, id)
      /\ w.process = v.process
  BY DEF ReadUser, PiView
<1>2. /\ IsTranscript(v.entries) /\ IsTree(v.entries) /\ IsSeq(v.entries)
      /\ FromMessages(v.entries, n) /\ FromMessages(v.entries, n + 1)
      /\ MapsMessages(v.platform, v.entries, n) /\ MapsMessages(v.process, v.entries, n)
  BY MessagesRemain DEF PiTree, IsTranscript
<1>3. IsEntry(e) /\ e.id = id /\ e.parent = above /\ e.type = "user"
  <2>1. IsSeq(ToUserContent(m.content))
    BY UserContentIsSeq
  <2>2. QED BY <2>1 DEF Entry, IsEntry
<1>4. MayHangOff(e, v.entries)
  <2>1. above \in Ids(v.entries) \cup {Null}
    BY <1>2, LookupIsEntry DEF Lookup
  <2> HIDE DEF e, above
  <2>2. QED BY <1>3, <2>1 DEF MayHangOff
<1>5. id \notin Ids(v.entries) /\ id = <<"pi_user", MessageId(n + 1, who)>> /\ "pi_user" \in PiKinds
  BY <1>2, FreshId DEF PiKinds
<1> HIDE DEF e, above
<1>6. IsAppended(w.entries, v.entries, e)
  BY <1>1, <1>2, AppendFacts
<1> HIDE DEF id
<1>7. /\ IsTranscript(w.entries) /\ IsTree(w.entries) /\ FromMessages(w.entries, n + 1)
      /\ Ids(w.entries) = Ids(v.entries) \cup {id} /\ Grows(v.entries, w.entries)
  BY <1>2, <1>3, <1>4, <1>5, <1>6, EntryOfMessage
<1>8. /\ MapsMessages(w.platform, w.entries, n + 1) /\ Known(w.platform, MessageId(n + 1, who))
      /\ Keeps(v.platform, w.platform)
  <2>1. id \in Ids(w.entries) /\ Ids(v.entries) \subseteq Ids(w.entries)
    BY <1>7
  <2>2. w.platform = With(v.platform, MessageId(n + 1, who), id) /\ id[2][3] = who
    BY <1>1, <1>5 DEF MessageId
  <2>3. PICK map, s, t, later :
          map = v.platform /\ s = v.entries /\ t = w.entries /\ later = w.platform
    OBVIOUS
  <2>4. QED BY <1>2, <2>1, <2>2, <2>3, MapGains
<1>9. MapsMessages(w.process, w.entries, n + 1) /\ Keeps(v.process, w.process)
  BY <1>1, <1>2, <1>7, MapRemains, NothingIsLost
<1>10. QED BY <1>7, <1>8, <1>9 DEF PiTree, ReadsOn

LEMMA ToolUseIsRead ==
  ASSUME NEW v, NEW n \in Nat, PiTree(v, n),
         NEW who \in 1..MaxTurns, NEW m, m.id = MessageId(n + 1, who), IsSeq(m.content),
         Known(v.platform, m.parent) \/ Known(v.process, m.parent),
         NEW w, w = ReadToolUse(v, m)
  PROVE  /\ PiTree(w, n + 1)
         /\ ReadsOn(v, w)
         /\ Known(w.process, MessageId(n + 1, who))
         /\ \A call : <<"toolCall", call>> \in ToSet(m.content)
              => Started(w.entries, w.process[MessageId(n + 1, who)], call)
<1> DEFINE id == <<"pi_process", m.id>>
           above == ParentOfProcess(v, m)
           started == ToToolCallContent(m.content)
           content == ToProcessContent(m.content) \o ToAssistantPreamble(m.content) \o started
           e == Entry(id, above, "process", content)
<1>1. /\ w.entries = Append(v.entries, e)
      /\ w.process = With(v.process, m.id, id)
      /\ w.platform = v.platform
  BY DEF ReadToolUse, PiView
<1>2. /\ IsTranscript(v.entries) /\ IsTree(v.entries) /\ IsSeq(v.entries)
      /\ FromMessages(v.entries, n) /\ FromMessages(v.entries, n + 1)
      /\ MapsMessages(v.platform, v.entries, n) /\ MapsMessages(v.process, v.entries, n)
  BY MessagesRemain DEF PiTree, IsTranscript
<1>3. IsSeq(content) /\ ToSet(started) \subseteq ToSet(content)
  <2>1. PICK a, b, c : /\ a = ToProcessContent(m.content)
                       /\ b = ToAssistantPreamble(m.content)
                       /\ c = started
    OBVIOUS
  <2>2. IsSeq(a) /\ IsSeq(b) /\ IsSeq(c)
    BY <2>1, ThoughtsAreSeq, PreambleFacts, CallsAreShown
  <2>3. PICK d : d = a \o b
    OBVIOUS
  <2>4. IsSeq(d)
    BY <2>2, <2>3, ConcatFacts
  <2>5. IsSeq(d \o c) /\ ToSet(d \o c) = ToSet(d) \cup ToSet(c)
    BY <2>2, <2>4, ConcatFacts
  <2>6. content = d \o c
    BY <2>1, <2>3
  <2>7. QED BY <2>1, <2>5, <2>6
<1>4. \A call : <<"toolCall", call>> \in ToSet(m.content)
                  => ToolCall(call, "started") \in ToSet(content)
  BY <1>3, CallsAreShown
<1> HIDE DEF content, started
<1>5. /\ IsEntry(e) /\ e.id = id /\ e.parent = above /\ e.type = "process"
      /\ e.content = content
  BY <1>3 DEF Entry, IsEntry
<1>6. MayHangOff(e, v.entries)
  <2>1. above \in Ids(v.entries)
    BY <1>2, LookupIsEntry DEF ParentOfProcess
  <2> HIDE DEF e, above
  <2>2. QED BY <1>5, <2>1 DEF MayHangOff
<1>7. /\ id \notin Ids(v.entries) /\ id = <<"pi_process", MessageId(n + 1, who)>>
      /\ "pi_process" \in PiKinds
  BY <1>2, FreshId DEF PiKinds
<1> HIDE DEF e, above
<1>8. IsAppended(w.entries, v.entries, e)
  BY <1>1, <1>2, AppendFacts
<1> HIDE DEF id
<1>9. /\ IsTranscript(w.entries) /\ IsTree(w.entries) /\ FromMessages(w.entries, n + 1)
      /\ Ids(w.entries) = Ids(v.entries) \cup {id} /\ Grows(v.entries, w.entries)
  BY <1>2, <1>5, <1>6, <1>7, <1>8, EntryOfMessage
<1>10. /\ MapsMessages(w.process, w.entries, n + 1) /\ Known(w.process, MessageId(n + 1, who))
       /\ w.process[MessageId(n + 1, who)] = id /\ Keeps(v.process, w.process)
  <2>1. id \in Ids(w.entries) /\ Ids(v.entries) \subseteq Ids(w.entries)
    BY <1>9
  <2>2. w.process = With(v.process, MessageId(n + 1, who), id) /\ id[2][3] = who
    BY <1>1, <1>7 DEF MessageId
  <2>3. PICK map, s, t, later :
          map = v.process /\ s = v.entries /\ t = w.entries /\ later = w.process
    OBVIOUS
  <2>4. QED BY <1>2, <2>1, <2>2, <2>3, MapGains
<1>11. MapsMessages(w.platform, w.entries, n + 1) /\ Keeps(v.platform, w.platform)
  BY <1>1, <1>2, <1>9, MapRemains, NothingIsLost
<1>12. ASSUME NEW call, <<"toolCall", call>> \in ToSet(m.content)
       PROVE  Started(w.entries, id, call)
  <2>1. Len(v.entries) \in Nat
    BY <1>2, SeqFacts
  <2>2. Len(w.entries) = Len(v.entries) + 1 /\ w.entries[Len(v.entries) + 1] = e
    BY <1>8 DEF IsAppended
  <2>3. Len(v.entries) + 1 \in 1..Len(w.entries)
    BY <2>1, <2>2
  <2>4. QED BY <1>4, <1>5, <1>12, <2>2, <2>3 DEF Started
<1>13. QED BY <1>9, <1>10, <1>11, <1>12 DEF PiTree, ReadsOn

LEMMA ResultJoins ==
  ASSUME NEW s, IsTranscript(s), IsTree(s), NEW id \in Ids(s), NEW call, NEW status,
         status \in {"completed", "error"}, Started(s, id, call),
         NEW t, t = AddItem(s, id, ToolCall(call, status))
  PROVE  Joined(t, call)
<1> DEFINE item == ToolCall(call, status)
<1>1. IsSeq(s) /\ Len(s) \in Nat
  BY SeqFacts DEF IsTranscript
<1>2. PICK i \in 1..Len(s) : s[i].id = id /\ ToolCall(call, "started") \in ToSet(s[i].content)
  BY DEF Started
<1>3. IsTranscript(t) /\ SameShape(s, t)
  BY ItemIsAdded
<1>4. PICK at \in 1..Len(s) : s[at].id = id /\ IsAppended(t[at].content, s[at].content, item)
  BY ItemIsAdded
<1>5. at = i
  BY <1>1, <1>2, <1>4, IdsAreUnique
<1>6. PICK a, b : a = s[i].content /\ b = t[i].content
  OBVIOUS
<1>7. IsSeq(a) /\ IsAppended(b, a, item) /\ ToolCall(call, "started") \in ToSet(a)
  BY <1>2, <1>4, <1>5, <1>6 DEF IsTranscript, IsEntry
<1>8. PICK j \in 1..Len(a) : a[j] = ToolCall(call, "started")
  <2>1. ToSet(a) = {a[j] : j \in 1..Len(a)}
    BY <1>7, SeqFacts
  <2>2. QED BY <1>7, <2>1
<1>9. /\ j \in 1..Len(b) /\ Len(a) + 1 \in 1..Len(b) /\ j < Len(a) + 1
      /\ b[j] = ToolCall(call, "started")
      /\ b[Len(a) + 1] = item
  <2>1. Len(a) \in Nat /\ Len(b) = Len(a) + 1
    BY <1>7, SeqFacts DEF IsAppended
  <2>2. QED BY <1>7, <1>8, <2>1 DEF IsAppended
<1>10. t[i] \in ToSet(t)
  <2>1. IsSeq(t) /\ Len(t) = Len(s)
    BY <1>3 DEF SameShape
  <2>2. ToSet(t) = {t[k] : k \in 1..Len(t)}
    BY <2>1, SeqFacts
  <2>3. QED BY <2>1, <2>2
<1>11. item \in {ToolCall(call, x) : x \in {"completed", "error"}}
  OBVIOUS
<1> HIDE DEF item
<1>12. QED BY <1>6, <1>9, <1>10, <1>11 DEF Joined

LEMMA ToolResultIsRead ==
  ASSUME NEW v, NEW n \in Nat, PiTree(v, n),
         NEW who \in 1..MaxTurns, NEW m, m.id = MessageId(n + 1, who), m.isError \in BOOLEAN,
         Known(v.process, m.parent), m.parent[3] = who, Started(v.entries, v.process[m.parent], m.call),
         NEW w, w = ReadToolResult(v, m)
  PROVE  /\ PiTree(w, n + 1)
         /\ ReadsOn(v, w)
         /\ Known(w.process, MessageId(n + 1, who))
         /\ w.process[MessageId(n + 1, who)] = v.process[m.parent]
         /\ Joined(w.entries, m.call)
<1> DEFINE id == v.process[m.parent]
           status == IF m.isError THEN "error" ELSE "completed"
<1>1. /\ w.entries = AddItem(v.entries, id, ToolCall(m.call, status))
      /\ w.process = With(v.process, MessageId(n + 1, who), id)
      /\ w.platform = v.platform
  BY DEF ReadToolResult, PiView
<1>2. /\ IsTranscript(v.entries) /\ IsTree(v.entries) /\ IsSeq(v.entries)
      /\ FromMessages(v.entries, n) /\ FromMessages(v.entries, n + 1)
      /\ MapsMessages(v.platform, v.entries, n) /\ MapsMessages(v.process, v.entries, n)
  BY MessagesRemain DEF PiTree, IsTranscript
<1>3. id \in Ids(v.entries) /\ id[2][3] = who /\ status \in {"completed", "error"}
  BY <1>2, LookupIsEntry
<1> HIDE DEF id, status
<1>4. PICK s, t, call, item, process, later :
        /\ s = v.entries /\ t = w.entries /\ call = m.call /\ item = ToolCall(call, status)
        /\ process = v.process /\ later = w.process
  OBVIOUS
<1>5. /\ IsTranscript(s) /\ IsTree(s) /\ IsSeq(s) /\ id \in Ids(s)
      /\ t = AddItem(s, id, item) /\ t = AddItem(s, id, ToolCall(call, status))
      /\ Started(s, id, call)
  BY <1>1, <1>2, <1>3, <1>4 DEF id
<1>6. IsTranscript(t) /\ SameShape(s, t) /\ Grows(s, t)
  BY <1>5, ItemIsAdded
<1>7. IsTree(t) /\ Ids(t) = Ids(s)
  BY <1>5, <1>6, SameTree
<1>8. FromMessages(t, n + 1)
  BY <1>2, <1>4, <1>6, ShapeKeepsMessages
<1>9. Joined(t, call)
  BY <1>3, <1>5, ResultJoins
<1>10. /\ MapsMessages(later, t, n + 1) /\ Known(later, MessageId(n + 1, who))
       /\ later[MessageId(n + 1, who)] = id /\ Keeps(process, later)
  <2>1. MapsMessages(process, s, n) /\ id \in Ids(t) /\ id[2][3] = who /\ Ids(s) \subseteq Ids(t)
        /\ later = With(process, MessageId(n + 1, who), id)
    BY <1>1, <1>2, <1>3, <1>4, <1>5, <1>7
  <2>2. QED BY <2>1, MapGains
<1>11. MapsMessages(w.platform, t, n + 1) /\ Keeps(v.platform, w.platform)
  BY <1>1, <1>2, <1>4, <1>7, MapRemains, NothingIsLost
<1>12. QED BY <1>4, <1>6, <1>7, <1>8, <1>9, <1>10, <1>11 DEF PiTree, ReadsOn, id

LEMMA ReplyIsRead ==
  ASSUME NEW v, NEW n \in Nat, PiTree(v, n),
         NEW who \in 1..MaxTurns, NEW m, m.id = MessageId(n + 1, who), IsSeq(m.content),
         Known(v.platform, m.parent) \/ Known(v.process, m.parent),
         NEW w, w = ReadReply(v, m)
  PROVE  PiTree(w, n + 1) /\ ReadsOn(v, w)
<1> DEFINE process == <<"pi_process", m.id>>
           id == <<"pi_assistant", m.id>>
           text == ToAssistantText(m.content)
           thoughts == ToProcessContent(m.content)
           above == ParentOfProcess(v, m)
<1>1. /\ w.platform = With(v.platform, MessageId(n + 1, who), id) /\ w.process = v.process
      /\ Known(v.process, m.parent) =>
           w.entries = Append(v.entries, Entry(id, v.process[m.parent], "assistant", text))
      /\ ~Known(v.process, m.parent) =>
           w.entries = Append(Append(v.entries, Entry(process, above, "process", thoughts)),
                              Entry(id, process, "assistant", text))
  BY DEF ReadReply, PiView
<1>2. /\ IsTranscript(v.entries) /\ IsTree(v.entries) /\ IsSeq(v.entries)
      /\ FromMessages(v.entries, n) /\ FromMessages(v.entries, n + 1)
      /\ MapsMessages(v.platform, v.entries, n) /\ MapsMessages(v.process, v.entries, n)
  BY MessagesRemain DEF PiTree, IsTranscript
<1>3. IsSeq(text) /\ IsSeq(thoughts)
  BY AssistantTextIsSeq, ThoughtsAreSeq
<1>4. above \in Ids(v.entries)
  BY <1>2, LookupIsEntry DEF ParentOfProcess
<1>5. /\ id \notin Ids(v.entries) /\ process \notin Ids(v.entries) /\ id # process
      /\ id = <<"pi_assistant", MessageId(n + 1, who)>> /\ "pi_assistant" \in PiKinds
      /\ process = <<"pi_process", MessageId(n + 1, who)>> /\ "pi_process" \in PiKinds
  BY <1>2, FreshId DEF PiKinds
<1> HIDE DEF text, thoughts, above, id, process
<1>6. PICK s, t : s = v.entries /\ t = w.entries
  OBVIOUS
<1>7. /\ IsTranscript(t) /\ IsTree(t) /\ FromMessages(t, n + 1) /\ Grows(s, t)
      /\ Ids(s) \subseteq Ids(t) /\ id \in Ids(t)
  <2>1. CASE Known(v.process, m.parent)
    <3>1. PICK e : e = Entry(id, v.process[m.parent], "assistant", text)
      OBVIOUS
    <3>2. IsEntry(e) /\ e.id = id /\ e.parent = v.process[m.parent] /\ e.type = "assistant"
      BY <1>3, <3>1 DEF Entry, IsEntry
    <3>3. v.process[m.parent] \in Ids(s)
      BY <1>2, <1>6, <2>1, LookupIsEntry
    <3>4. MayHangOff(e, s)
      BY <3>2, <3>3 DEF MayHangOff
    <3>5. t = Append(s, e) /\ IsSeq(s)
      BY <1>1, <1>2, <1>6, <2>1, <3>1
    <3>6. IsAppended(t, s, e)
      BY <3>5, AppendFacts
    <3>7. /\ IsTranscript(s) /\ IsTree(s) /\ FromMessages(s, n + 1)
          /\ e.id \notin Ids(s) /\ e.id = <<"pi_assistant", MessageId(n + 1, who)>>
      BY <1>2, <1>5, <1>6, <3>2
    <3>8. /\ IsTranscript(t) /\ IsTree(t) /\ FromMessages(t, n + 1) /\ Grows(s, t)
          /\ Ids(t) = Ids(s) \cup {e.id}
      BY <1>5, <3>2, <3>4, <3>6, <3>7, EntryOfMessage
    <3>9. QED BY <3>2, <3>8
  <2>2. CASE ~Known(v.process, m.parent)
    <3>1. PICK e, f, u : /\ e = Entry(process, above, "process", thoughts)
                         /\ f = Entry(id, process, "assistant", text)
                         /\ u = Append(s, e)
      OBVIOUS
    <3>2. /\ IsEntry(e) /\ e.id = process /\ e.parent = above /\ e.type = "process"
          /\ IsEntry(f) /\ f.id = id /\ f.parent = process /\ f.type = "assistant"
      BY <1>3, <3>1 DEF Entry, IsEntry
    <3>3. MayHangOff(e, s)
      BY <1>4, <1>6, <3>2 DEF MayHangOff
    <3>4. t = Append(u, f) /\ IsSeq(s)
      BY <1>1, <1>2, <1>6, <2>2, <3>1
    <3>5. IsAppended(u, s, e)
      BY <3>1, <3>4, AppendFacts
    <3>6. /\ IsTranscript(s) /\ IsTree(s) /\ FromMessages(s, n + 1)
          /\ e.id \notin Ids(s) /\ e.id = <<"pi_process", MessageId(n + 1, who)>>
      BY <1>2, <1>5, <1>6, <3>2
    <3>7. /\ IsTranscript(u) /\ IsTree(u) /\ FromMessages(u, n + 1)
          /\ Ids(u) = Ids(s) \cup {e.id}
      BY <1>5, <3>2, <3>3, <3>5, <3>6, EntryOfMessage
    <3>8. MayHangOff(f, u)
      BY <3>2, <3>7 DEF MayHangOff
    <3>9. IsAppended(t, u, f)
      <4>1. IsSeq(u)
        BY <3>7 DEF IsTranscript
      <4>2. QED BY <3>4, <4>1, AppendFacts
    <3>10. f.id \notin Ids(u) /\ f.id = <<"pi_assistant", MessageId(n + 1, who)>>
      BY <1>5, <1>6, <3>2, <3>7
    <3>11. /\ IsTranscript(t) /\ IsTree(t) /\ FromMessages(t, n + 1)
           /\ Ids(t) = Ids(u) \cup {f.id}
      BY <1>5, <3>2, <3>7, <3>8, <3>9, <3>10, EntryOfMessage
    <3>12. Grows(s, t)
      <4>1. /\ Len(s) \in Nat /\ Len(u) = Len(s) + 1 /\ Len(t) = Len(u) + 1
            /\ \A i \in 1..Len(s) : u[i] = s[i]
            /\ \A i \in 1..Len(u) : t[i] = u[i]
        BY <3>4, <3>5, <3>9, SeqFacts DEF IsAppended
      <4>2. Len(t) \in Nat /\ Len(s) <= Len(t) /\ \A i \in 1..Len(s) : t[i] = s[i]
        BY <4>1
      <4>3. QED BY <3>6, <4>2, EntriesAreKept
    <3>13. QED BY <3>2, <3>7, <3>11, <3>12
  <2>3. QED BY <2>1, <2>2
<1>8. MapsMessages(w.platform, t, n + 1) /\ Keeps(v.platform, w.platform)
  <2>1. PICK map, later : map = v.platform /\ later = w.platform
    OBVIOUS
  <2>2. /\ MapsMessages(map, s, n) /\ later = With(map, MessageId(n + 1, who), id)
        /\ id[2][3] = who
    BY <1>1, <1>2, <1>5, <1>6, <2>1 DEF MessageId
  <2>3. QED BY <1>7, <2>1, <2>2, MapGains
<1>9. MapsMessages(w.process, t, n + 1) /\ Keeps(v.process, w.process)
  BY <1>1, <1>2, <1>6, <1>7, MapRemains, NothingIsLost
<1>10. QED BY <1>6, <1>7, <1>8, <1>9 DEF PiTree, ReadsOn

-----------------------------------------------------------------------------
(* The harnesses over the steps.                                             *)

\* Of the harnesses only that of the turn w moves.
Moves(w, at, leaf, open) ==
  /\ DOMAIN harness' = 1..MaxTurns
  /\ harness'[w].at = at /\ harness'[w].leaf = leaf /\ harness'[w].open = open
  /\ \A v \in 1..MaxTurns : v # w => harness'[v] = harness[v]

LEMMA HarnessMoves ==
  ASSUME HarnessInv, NEW w \in 1..MaxTurns, NEW at, NEW leaf, NEW open,
         harness' = [harness EXCEPT ![w] = Harness(at, leaf, open)]
  PROVE  Moves(w, at, leaf, open)
<1>1. PICK h : h = Harness(at, leaf, open)
  OBVIOUS
<1>2. h.at = at /\ h.leaf = leaf /\ h.open = open
  BY <1>1 DEF Harness
<1>3. DOMAIN harness = 1..MaxTurns /\ harness' = [harness EXCEPT ![w] = h]
  BY <1>1 DEF HarnessInv
<1>4. /\ DOMAIN harness' = 1..MaxTurns /\ harness'[w] = h
      /\ \A v \in 1..MaxTurns : v # w => harness'[v] = harness[v]
  BY <1>3
<1>5. QED BY <1>2, <1>4 DEF Moves

LEMMA MoveKeepsHarnesses ==
  ASSUME HarnessInv, NEW w \in 1..MaxTurns, NEW at, NEW leaf, NEW open,
         Moves(w, at, leaf, open), \A call \in open : call[1] = w,
         runtime' = runtime, turn' = turn, pc' = pc
  PROVE  HarnessInv'
<1>1. ASSUME NEW v \in 1..MaxTurns, NEW call \in harness'[v].open PROVE call[1] = v
  <2>1. CASE v = w
    BY <1>1, <2>1 DEF Moves
  <2>2. CASE v # w
    BY <1>1, <2>2 DEF Moves, HarnessInv
  <2>3. QED BY <2>1, <2>2
<1>2. QED BY <1>1 DEF HarnessInv, Moves

LEMMA HarnessesAreLeft ==
  ASSUME HarnessInv, runtime' = runtime, turn' = turn, harness' = harness,
         pc' # "idle" => pc # "idle"
  PROVE  HarnessInv'
BY DEF HarnessInv

LEMMA WriterMoves ==
  ASSUME HarnessInv, NEW w \in 1..MaxTurns, NEW r, NEW at, NEW open, Writes(w, r, at, open)
  PROVE  /\ session' = Append(session, r)
         /\ view' = ReadPiRecord(view, r)
         /\ Moves(w, at, r.id, open)
<1>1. PICK leaf : leaf = r.id
  OBVIOUS
<1>2. /\ session' = Append(session, r) /\ view' = ReadPiRecord(view, r)
      /\ harness' = [harness EXCEPT ![w] = Harness(at, leaf, open)]
  BY <1>1 DEF Writes, Note
<1>3. QED BY <1>1, <1>2, HarnessMoves

LEMMA CallsAreTheirs ==
  ASSUME NEW w, NEW n
  PROVE  \A call \in CallsOf(w, n) : call[1] = w
BY DEF CallsOf

LEMMA SubmissionKeepsHarnesses ==
  ASSUME HarnessInv, SubmitMessage
  PROVE  /\ HarnessInv'
         /\ \A w \in 1..MaxTurns :
              harness'[w].at = "prompting" => recorded /\ harness'[w] = harness[w]
<1>1. /\ turn' = turn + 1 /\ turn < MaxTurns /\ turn \in 0..MaxTurns /\ MaxTurns \in Nat
      /\ runtime' = runtime
  BY BoundsAssumption DEF SubmitMessage, HarnessInv
<1>2. PICK fresh : fresh = Harness("opening", Null, {})
  OBVIOUS
<1>3. fresh.at = "opening" /\ fresh.open = {} /\ NoHarness.at = "none" /\ NoHarness.open = {}
  BY <1>2 DEF Harness, NoHarness
<1>4. harness' = [w \in 1..MaxTurns |->
                    IF w = turn' THEN fresh ELSE IF recorded THEN harness[w] ELSE NoHarness]
  BY <1>2 DEF SubmitMessage
<1>5. ASSUME NEW w \in 1..MaxTurns
      PROVE  /\ harness'[w].at = "prompting" => recorded /\ harness'[w] = harness[w]
             /\ \A call \in harness'[w].open : call[1] = w
  <2>1. harness'[w] = IF w = turn' THEN fresh ELSE IF recorded THEN harness[w] ELSE NoHarness
    BY <1>4
  <2>2. CASE w = turn'
    BY <1>3, <2>1, <2>2
  <2>3. CASE w # turn' /\ recorded
    BY <2>1, <2>3 DEF HarnessInv
  <2>4. CASE w # turn' /\ ~recorded
    BY <1>3, <2>1, <2>4
  <2>5. QED BY <2>2, <2>3, <2>4
<1>6. DOMAIN harness' = 1..MaxTurns
  BY <1>4
<1>7. turn' \in 0..MaxTurns /\ turn' # 0 /\ runtime' \in Runtimes
  BY <1>1 DEF HarnessInv
<1>8. QED BY <1>5, <1>6, <1>7 DEF HarnessInv

LEMMA ClaudeMoves ==
  ASSUME HarnessInv, NEW place, NEW next, NEW open, Claude(place, next, open)
  PROVE  /\ turn \in 1..MaxTurns /\ pc = "running" /\ pc' = "running"
         /\ Adapter("claude-code") /\ harness[turn].at = place
         /\ UNCHANGED <<runtime, turn, buffered, session, view, recorded>>
         /\ Moves(turn, next, Null, open)
<1>1. pc = "running" /\ harness[turn].at = place /\ Adapter("claude-code")
      /\ UNCHANGED <<runtime, pc, turn, buffered, session, view, recorded>>
  BY DEF Claude, At
<1>2. turn \in 1..MaxTurns
  BY <1>1, BoundsAssumption DEF HarnessInv
<1>3. PICK w, leaf : w = turn /\ leaf = Null
  OBVIOUS
<1>4. w \in 1..MaxTurns /\ harness' = [harness EXCEPT ![w] = Harness(next, leaf, open)]
  BY <1>2, <1>3 DEF Claude
<1>5. Moves(w, next, leaf, open)
  BY <1>4, HarnessMoves
<1>6. QED BY <1>1, <1>2, <1>3, <1>5

LEMMA StepKeepsHarnesses ==
  ASSUME HarnessInv, [Next]_vars
  PROVE  HarnessInv'
<1>1. CASE UNCHANGED vars
  BY <1>1, HarnessesAreLeft DEF vars
<1>2. CASE SubmitMessage
  BY <1>2, SubmissionKeepsHarnesses
<1>3. ASSUME NEW w \in 1..MaxTurns, PiOpensSession(w) PROVE HarnessInv'
  <2>1. PICK leaf, open : leaf = (IF session = <<>> THEN Null ELSE Last(session).id) /\ open = {}
    OBVIOUS
  <2>2. harness' = [harness EXCEPT ![w] = Harness("opened", leaf, open)] /\ UNCHANGED run
    BY <1>3, <2>1 DEF PiOpensSession
  <2>3. Moves(w, "opened", leaf, open)
    BY <2>2, HarnessMoves
  <2>4. QED BY <2>1, <2>2, <2>3, MoveKeepsHarnesses DEF run
<1>4. ASSUME NEW w \in 1..MaxTurns, PiChangesSettings(w) PROVE HarnessInv'
  <2>1. PICK r, open : Writes(w, r, "configured", open) /\ open = {}
    BY <1>4 DEF PiChangesSettings
  <2>2. UNCHANGED run
    BY <1>4 DEF PiChangesSettings
  <2>3. QED BY <2>1, <2>2, WriterMoves, MoveKeepsHarnesses DEF run
<1>5. ASSUME NEW w \in 1..MaxTurns, PiAcceptsPrompt(w) PROVE HarnessInv'
  <2>1. PICK r, open : Writes(w, r, "prompting", open) /\ open = {}
    BY <1>5 DEF PiAcceptsPrompt
  <2>2. UNCHANGED run
    BY <1>5 DEF PiAcceptsPrompt
  <2>3. QED BY <2>1, <2>2, WriterMoves, MoveKeepsHarnesses DEF run
<1>6. ASSUME NEW w \in 1..MaxTurns, PiCallsTools(w) PROVE HarnessInv'
  <2>1. PICK n, r, open : /\ n \in 1..MaxCalls
                         /\ Writes(w, r, "prompting", open) /\ open = CallsOf(w, n)
    BY <1>6 DEF PiCallsTools
  <2>2. UNCHANGED run
    BY <1>6 DEF PiCallsTools
  <2>3. \A call \in open : call[1] = w
    BY <2>1, CallsAreTheirs
  <2>4. QED BY <2>1, <2>2, <2>3, WriterMoves, MoveKeepsHarnesses DEF run
<1>7. ASSUME NEW w \in 1..MaxTurns, PiToolEnds(w) PROVE HarnessInv'
  <2>1. PICK call, r, open :
          call \in harness[w].open /\ Writes(w, r, "prompting", open) /\ open = harness[w].open \ {call}
    BY <1>7 DEF PiToolEnds
  <2>2. UNCHANGED run
    BY <1>7 DEF PiToolEnds
  <2>3. \A other \in open : other[1] = w
    BY <2>1 DEF HarnessInv
  <2>4. QED BY <2>1, <2>2, <2>3, WriterMoves, MoveKeepsHarnesses DEF run
<1>8. ASSUME NEW w \in 1..MaxTurns, PiReplies(w) PROVE HarnessInv'
  <2>1. PICK r, open : Writes(w, r, "answered", open) /\ open = {}
    BY <1>8 DEF PiReplies
  <2>2. UNCHANGED run
    BY <1>8 DEF PiReplies
  <2>3. QED BY <2>1, <2>2, WriterMoves, MoveKeepsHarnesses DEF run
<1>9. CASE PiAdapterYields
  BY <1>9, HarnessesAreLeft DEF PiAdapterYields
<1>10. ASSUME NEW place, NEW next, NEW open, \A call \in open : call[1] = turn,
              Claude(place, next, open)
       PROVE  HarnessInv'
  <2>1. PICK w, leaf : w \in 1..MaxTurns /\ w = turn /\ Moves(w, next, leaf, open)
    BY <1>10, ClaudeMoves
  <2>2. runtime' = runtime /\ turn' = turn /\ pc' = pc /\ \A call \in open : call[1] = w
    BY <1>10, <2>1, ClaudeMoves
  <2>3. QED BY <2>1, <2>2, MoveKeepsHarnesses
<1>11. ASSUME pc # "idle" PROVE \A call \in harness[turn].open : call[1] = turn
  <2>1. turn \in 1..MaxTurns
    BY <1>11, BoundsAssumption DEF HarnessInv
  <2>2. QED BY <2>1 DEF HarnessInv
<1>12. CASE ClaudeStarts
  BY <1>10, <1>12 DEF ClaudeStarts
<1>13. CASE ClaudeWrites
  BY <1>10, <1>11, <1>13, ClaudeMoves DEF ClaudeWrites, ClaudeYields
<1>14. CASE ClaudeCallsTool
  <2>1. PICK call, open : call = <<turn, steps, 1>> /\ open = harness[turn].open \cup {call}
    OBVIOUS
  <2>2. Claude("prompting", "prompting", open)
    BY <1>14, <2>1 DEF ClaudeCallsTool, ClaudeYields
  <2>3. pc = "running" /\ call[1] = turn
    BY <2>1, <2>2 DEF Claude, At
  <2>4. \A other \in open : other[1] = turn
    BY <1>11, <2>1, <2>3
  <2>5. QED BY <1>10, <2>2, <2>4
<1>15. CASE ClaudeToolEnds
  <2>1. PICK call, open : open = harness[turn].open \ {call} /\ Claude("prompting", "prompting", open)
    BY <1>15 DEF ClaudeToolEnds, ClaudeYields
  <2>2. \A other \in open : other[1] = turn
    BY <1>11, <2>1 DEF Claude, At
  <2>3. QED BY <1>10, <2>1, <2>2
<1>16. CASE ClaudeExits
  BY <1>10, <1>16 DEF ClaudeExits
<1>17. CASE WriteMockTranscript
  BY <1>17, HarnessesAreLeft DEF WriteMockTranscript, At
<1>18. CASE AgentEnds
  BY <1>18, HarnessesAreLeft DEF AgentEnds, At
<1>19. CASE RunCompletes
  BY <1>19, HarnessesAreLeft DEF RunCompletes
<1>20. CASE RunStops
  BY <1>20, HarnessesAreLeft DEF RunStops
<1>21. QED
  BY <1>1, <1>2, <1>3, <1>4, <1>5, <1>6, <1>7, <1>8, <1>9, <1>12, <1>13, <1>14, <1>15, <1>16,
     <1>17, <1>18, <1>19, <1>20 DEF Next

LEMMA HarnessInvariant == Spec => []HarnessInv
<1>1. Init => HarnessInv
  <2>1. SUFFICES ASSUME Init PROVE HarnessInv
    OBVIOUS
  <2>2. /\ runtime \in Runtimes /\ turn = 0 /\ pc = "idle" /\ MaxTurns \in Nat
        /\ harness = [w \in 1..MaxTurns |-> NoHarness]
    BY <2>1, BoundsAssumption DEF Init
  <2>3. NoHarness.open = {}
    BY DEF NoHarness, Harness
  <2>4. QED BY <2>2, <2>3 DEF HarnessInv
<1>2. HarnessInv /\ [Next]_vars => HarnessInv'
  BY StepKeepsHarnesses
<1>3. QED BY <1>1, <1>2, PTL DEF Spec

-----------------------------------------------------------------------------
(* The steps of the harnesses of pi.                                         *)

IsResult(r) == r.type = "message" /\ r.role = "toolResult"

LEMMA GrowsStays ==
  ASSUME NEW s, IsTranscript(s)
  PROVE  Grows(s, s)
<1>1. Len(s) \in Nat
  BY SeqFacts DEF IsTranscript
<1>2. QED BY <1>1, EntriesAreKept

\* The file and its results when the record r is noted.
LEMMA RecordIsNoted ==
  ASSUME IsSeq(session), PiTree(view, Len(session)), ResultsAreJoined,
         NEW r, session' = Append(session, r),
         PiTree(view', Len(session) + 1), Grows(view.entries, view'.entries),
         IsResult(r) => Joined(view'.entries, r.call)
  PROVE  /\ IsSeq(session')
         /\ PiTree(view', Len(session'))
         /\ ResultsAreJoined'
<1>1. IsAppended(session', session, r) /\ Len(session) \in Nat
  BY AppendFacts, SeqFacts
<1>2. /\ IsSeq(session') /\ Len(session') = Len(session) + 1 /\ session' # <<>>
      /\ \A i \in 1..Len(session) : session'[i] = session[i]
      /\ session'[Len(session) + 1] = r
  BY <1>1 DEF IsAppended
<1>3. IsTranscript(view.entries) /\ IsTranscript(view'.entries)
  BY DEF PiTree
<1>4. ASSUME NEW n \in 1..Len(session'),
             session'[n].type = "message" /\ session'[n].role = "toolResult"
      PROVE  Joined(view'.entries, session'[n].call)
  <2>1. CASE n \in 1..Len(session)
    <3>1. session'[n] = session[n]
      BY <1>2, <2>1
    <3>2. Joined(view.entries, session[n].call)
      BY <1>4, <2>1, <3>1 DEF ResultsAreJoined
    <3>3. PICK call : call = session[n].call
      OBVIOUS
    <3>4. Joined(view'.entries, call)
      BY <1>3, <3>2, <3>3, CallsRemain
    <3>5. QED BY <3>1, <3>3, <3>4
  <2>2. CASE n = Len(session) + 1
    BY <1>2, <1>4, <2>2 DEF IsResult
  <2>3. QED BY <1>1, <1>2, <2>1, <2>2
<1>5. QED BY <1>1, <1>2, <1>4 DEF ResultsAreJoined

\* What the other harnesses wrote stays known and started.
LEMMA OthersRemain ==
  ASSUME PiState, NEW w \in 1..MaxTurns, NEW at, NEW leaf, NEW open, Moves(w, at, leaf, open),
         IsTranscript(view'.entries), ReadsOn(view, view'),
         at = "prompting" =>
           /\ leaf[3] = w
           /\ Known(view'.platform, leaf) \/ Known(view'.process, leaf),
         at = "prompting" /\ open # {} =>
           /\ Known(view'.process, leaf)
           /\ \A call \in open : Started(view'.entries, view'.process[leaf], call)
  PROVE  LeavesAreKnown' /\ OpenCallsAreStarted'
<1>1. /\ IsTranscript(view.entries) /\ Grows(view.entries, view'.entries)
      /\ Keeps(view.platform, view'.platform) /\ Keeps(view.process, view'.process)
  BY DEF PiState, PiTree, ReadsOn
<1>2. ASSUME NEW id
      PROVE  /\ Known(view.platform, id) => Known(view'.platform, id)
             /\ Known(view.process, id) =>
                  Known(view'.process, id) /\ view'.process[id] = view.process[id]
  BY <1>1 DEF Known, Keeps
<1>3. ASSUME NEW id, NEW call, Started(view.entries, id, call)
      PROVE  Started(view'.entries, id, call)
  <2>1. PICK s, t : s = view.entries /\ t = view'.entries
    OBVIOUS
  <2>2. IsTranscript(s) /\ IsTranscript(t) /\ Grows(s, t) /\ Started(s, id, call)
    BY <1>1, <1>3, <2>1
  <2>3. Started(t, id, call)
    BY <2>2, CallsRemain
  <2>4. QED BY <2>1, <2>3
<1>4. ASSUME NEW v \in 1..MaxTurns, harness'[v].at = "prompting"
      PROVE  /\ Known(view'.platform, harness'[v].leaf) \/ Known(view'.process, harness'[v].leaf)
             /\ harness'[v].leaf[3] = v
  <2>1. CASE v = w
    BY <1>4, <2>1 DEF Moves
  <2>2. CASE v # w
    <3>1. harness'[v] = harness[v]
      BY <2>2 DEF Moves
    <3>2. PICK id : id = harness[v].leaf
      OBVIOUS
    <3>3. (Known(view.platform, id) \/ Known(view.process, id)) /\ id[3] = v
      BY <1>4, <3>1, <3>2 DEF PiState, LeavesAreKnown
    <3>4. QED BY <1>2, <3>1, <3>2, <3>3
  <2>3. QED BY <2>1, <2>2
<1>5. ASSUME NEW v \in 1..MaxTurns, harness'[v].at = "prompting", harness'[v].open # {}
      PROVE  /\ Known(view'.process, harness'[v].leaf)
             /\ \A call \in harness'[v].open :
                  Started(view'.entries, view'.process[harness'[v].leaf], call)
  <2>1. CASE v = w
    BY <1>5, <2>1 DEF Moves
  <2>2. CASE v # w
    <3>1. harness'[v] = harness[v]
      BY <2>2 DEF Moves
    <3>2. PICK id, calls : id = harness[v].leaf /\ calls = harness[v].open
      OBVIOUS
    <3>3. Known(view.process, id) /\ \A call \in calls : Started(view.entries, view.process[id], call)
      BY <1>5, <3>1, <3>2 DEF PiState, OpenCallsAreStarted
    <3>4. Known(view'.process, id) /\ \A call \in calls : Started(view'.entries, view'.process[id], call)
      BY <1>2, <1>3, <3>3
    <3>5. QED BY <3>1, <3>2, <3>4
  <2>3. QED BY <2>1, <2>2
<1>6. LeavesAreKnown'
  BY <1>4 DEF LeavesAreKnown
<1>7. OpenCallsAreStarted'
  BY <1>5 DEF OpenCallsAreStarted
<1>8. QED BY <1>6, <1>7

LEMMA SessionIsOpened ==
  ASSUME HarnessInv, PiState, NEW w \in 1..MaxTurns, PiOpensSession(w)
  PROVE  PiState' /\ Grows(view.entries, view'.entries)
<1>1. PICK leaf, open : leaf = (IF session = <<>> THEN Null ELSE Last(session).id) /\ open = {}
  OBVIOUS
<1>2. /\ harness' = [harness EXCEPT ![w] = Harness("opened", leaf, open)]
      /\ session' = session /\ view' = view
  BY <1>1 DEF PiOpensSession
<1>3. Moves(w, "opened", leaf, open)
  BY <1>2, HarnessMoves
<1>4. IsTranscript(view.entries) /\ Grows(view.entries, view.entries)
  BY GrowsStays DEF PiState, PiTree
<1>5. IsTranscript(view'.entries) /\ ReadsOn(view, view')
  BY <1>2, <1>4, NothingIsLost DEF ReadsOn
<1>6. LeavesAreKnown' /\ OpenCallsAreStarted'
  BY <1>3, <1>5, OthersRemain
<1>7. ResultsAreJoined'
  BY <1>2 DEF PiState, ResultsAreJoined
<1>8. QED BY <1>2, <1>4, <1>6, <1>7 DEF PiState

LEMMA SettingsAreNoted ==
  ASSUME HarnessInv, PiState, NEW w \in 1..MaxTurns, PiChangesSettings(w)
  PROVE  PiState' /\ Grows(view.entries, view'.entries)
<1>1. PICK r, open : /\ r = [type |-> "model_change", id |-> NextId(w)]
                     /\ open = {} /\ Writes(w, r, "configured", open)
  BY DEF PiChangesSettings
<1>2. /\ session' = Append(session, r) /\ view' = ReadPiRecord(view, r)
      /\ Moves(w, "configured", r.id, open)
  BY <1>1, WriterMoves
<1>3. r.type = "model_change" /\ ~IsResult(r)
  BY <1>1 DEF IsResult
<1>4. view' = view
  BY <1>2, <1>3 DEF ReadPiRecord
<1>5. IsSeq(session) /\ PiTree(view, Len(session)) /\ ResultsAreJoined /\ Len(session) \in Nat
  BY SeqFacts DEF PiState
<1>6. PiTree(view', Len(session) + 1)
  BY <1>4, <1>5, MessagesRemain, MapRemains DEF PiTree
<1>7. ReadsOn(view, view') /\ IsTranscript(view'.entries)
  BY <1>4, <1>5, GrowsStays, NothingIsLost DEF PiTree, ReadsOn
<1>8. Grows(view.entries, view'.entries)
  BY <1>7 DEF ReadsOn
<1>9. IsSeq(session') /\ PiTree(view', Len(session')) /\ ResultsAreJoined'
  BY <1>2, <1>3, <1>5, <1>6, <1>8, RecordIsNoted
<1>10. LeavesAreKnown' /\ OpenCallsAreStarted'
  <2>1. PICK leaf, at : leaf = r.id /\ at = "configured"
    OBVIOUS
  <2>2. Moves(w, at, leaf, open) /\ at # "prompting"
    BY <1>2, <2>1
  <2>3. QED BY <1>7, <2>2, OthersRemain
<1>11. QED BY <1>8, <1>9, <1>10 DEF PiState

LEMMA PromptIsAccepted ==
  ASSUME HarnessInv, PiState, NEW w \in 1..MaxTurns, PiAcceptsPrompt(w)
  PROVE  PiState' /\ Grows(view.entries, view'.entries)
<1>1. PICK content, r, open : /\ content = <<<<"text", w>>, <<"image", w>>>>
                              /\ r = Message(w, "user", content)
                              /\ open = {} /\ Writes(w, r, "prompting", open)
  BY DEF PiAcceptsPrompt
<1>2. /\ session' = Append(session, r) /\ view' = ReadPiRecord(view, r)
      /\ Moves(w, "prompting", r.id, open)
  BY <1>1, WriterMoves
<1>3. IsSeq(content)
  <2>1. content \in Seq({<<"text", w>>, <<"image", w>>})
    BY <1>1
  <2>2. QED BY <2>1, TypedIsSeq
<1>4. /\ r.type = "message" /\ r.role = "user" /\ r.id = MessageId(Len(session) + 1, w)
      /\ r.content = content /\ ~IsResult(r)
  BY <1>1 DEF Message, IsResult, NextId, MessageId
<1>5. view' = ReadUser(view, r)
  BY <1>2, <1>4 DEF ReadPiRecord
<1>6. IsSeq(session) /\ PiTree(view, Len(session)) /\ ResultsAreJoined /\ Len(session) \in Nat
  BY SeqFacts DEF PiState
<1>7. PICK v, u, n : v = view /\ u = view' /\ n = Len(session)
  OBVIOUS
<1>8. n \in Nat /\ PiTree(v, n) /\ r.id = MessageId(n + 1, w) /\ IsSeq(r.content) /\ u = ReadUser(v, r)
  BY <1>3, <1>4, <1>5, <1>6, <1>7
<1>9. PiTree(u, n + 1) /\ ReadsOn(v, u) /\ Known(u.platform, MessageId(n + 1, w))
  BY <1>8, UserIsRead
<1>10. /\ PiTree(view', Len(session) + 1) /\ ReadsOn(view, view') /\ Known(view'.platform, r.id)
       /\ Grows(view.entries, view'.entries) /\ IsTranscript(view'.entries)
  BY <1>7, <1>8, <1>9 DEF ReadsOn, PiTree
<1>11. IsSeq(session') /\ PiTree(view', Len(session')) /\ ResultsAreJoined'
  BY <1>2, <1>4, <1>6, <1>10, RecordIsNoted
<1>12. LeavesAreKnown' /\ OpenCallsAreStarted'
  <2>1. PICK leaf, at : leaf = r.id /\ at = "prompting"
    OBVIOUS
  <2>2. leaf[3] = w
    BY <1>4, <2>1 DEF MessageId
  <2>3. Moves(w, at, leaf, open) /\ Known(view'.platform, leaf) /\ open = {}
    BY <1>1, <1>2, <1>10, <2>1
  <2>4. QED BY <1>10, <2>2, <2>3, OthersRemain
<1>13. QED BY <1>10, <1>11, <1>12 DEF PiState

\* The content of a message that calls the first n tools of a round.
RoundOf(w, said, n) ==
  <<<<"thinking", w>>>> \o said \o [i \in 1..n |-> <<"toolCall", <<w, steps, i>>>>]

LEMMA CallsAreNoted ==
  ASSUME NEW w, NEW n \in Nat, NEW said, IsSeq(said)
  PROVE  /\ IsSeq(RoundOf(w, said, n))
         /\ \A call \in CallsOf(w, n) : <<"toolCall", call>> \in ToSet(RoundOf(w, said, n))
<1> DEFINE f == [i \in 1..n |-> <<"toolCall", <<w, steps, i>>>>]
<1>1. IsSeq(f) /\ Len(f) = n
  <2>1. f = [i \in 1..n |-> f[i]]
    OBVIOUS
  <2> HIDE DEF f
  <2>2. QED BY <2>1, FunctionIsSeq
<1>2. \A i \in 1..n : f[i] = <<"toolCall", <<w, steps, i>>>>
  OBVIOUS
<1>3. PICK a, b, d : a = <<<<"thinking", w>>>> /\ b = f /\ d = a \o said
  OBVIOUS
<1>4. IsSeq(a)
  <2>1. a \in Seq({<<"thinking", w>>})
    BY <1>3
  <2>2. QED BY <2>1, TypedIsSeq
<1>5. IsSeq(d)
  BY <1>3, <1>4, ConcatFacts
<1>6. RoundOf(w, said, n) = d \o b
  BY <1>3 DEF RoundOf
<1> HIDE DEF f
<1>7. IsSeq(b)
  BY <1>1, <1>3
<1>8. IsSeq(d \o b) /\ ToSet(d \o b) = ToSet(d) \cup ToSet(b)
  BY <1>5, <1>7, ConcatFacts
<1>9. ASSUME NEW call \in CallsOf(w, n) PROVE <<"toolCall", call>> \in ToSet(b)
  <2>1. PICK i \in 1..n : call = <<w, steps, i>>
    BY DEF CallsOf
  <2>2. b[i] = <<"toolCall", call>> /\ i \in 1..Len(b)
    BY <1>1, <1>2, <1>3, <2>1
  <2>3. ToSet(b) = {b[j] : j \in 1..Len(b)}
    BY <1>7, SeqFacts
  <2>4. QED BY <2>2, <2>3
<1>10. QED BY <1>6, <1>8, <1>9

\* What a message says before it calls its tools.
Preamble(w, preamble) == IF preamble THEN <<<<"text", w>>>> ELSE <<>>

\* The message of a harness that calls tools, and what becomes of it.
CallsIn(w, n, content, r) ==
  /\ r.type = "message" /\ r.role = "assistant" /\ r.id = MessageId(Len(session) + 1, w)
  /\ r.parent = harness[w].leaf /\ r.content = content /\ r.stopReason = "toolUse"
  /\ Writes(w, r, "prompting", CallsOf(w, n))

LEMMA RoundIsSaid ==
  ASSUME NEW w, PiCallsTools(w)
  PROVE  \E n \in 1..MaxCalls, preamble \in BOOLEAN : \E r :
           CallsIn(w, n, RoundOf(w, Preamble(w, preamble), n), r)
<1>1. PICK n \in 1..MaxCalls, preamble \in BOOLEAN :
        LET said == IF preamble THEN <<<<"text", w>>>> ELSE <<>>
            calls == [i \in 1..n |-> <<w, steps, i>>]
        IN Writes(w, [Message(w, "assistant", <<<<"thinking", w>>>> \o said
                        \o [i \in 1..n |-> <<"toolCall", calls[i]>>])
                      EXCEPT !.stopReason = "toolUse"],
                  "prompting", CallsOf(w, n))
  BY DEF PiCallsTools
<1> DEFINE said == IF preamble THEN <<<<"text", w>>>> ELSE <<>>
           calls == [i \in 1..n |-> <<w, steps, i>>]
           content == <<<<"thinking", w>>>> \o said
                        \o [i \in 1..n |-> <<"toolCall", calls[i]>>]
           r == [Message(w, "assistant", content) EXCEPT !.stopReason = "toolUse"]
<1>2. Writes(w, r, "prompting", CallsOf(w, n))
  BY <1>1
<1>3. content = RoundOf(w, Preamble(w, preamble), n)
  <2>1. [i \in 1..n |-> <<"toolCall", calls[i]>>] = [i \in 1..n |-> <<"toolCall", <<w, steps, i>>>>]
    OBVIOUS
  <2>2. QED BY <2>1 DEF RoundOf, Preamble
<1> HIDE DEF content, said, calls
<1>4. /\ r.type = "message" /\ r.role = "assistant" /\ r.id = MessageId(Len(session) + 1, w)
      /\ r.parent = harness[w].leaf /\ r.content = content /\ r.stopReason = "toolUse"
  BY DEF Message, NextId, MessageId
<1> HIDE DEF r
<1>5. CallsIn(w, n, content, r)
  BY <1>2, <1>4 DEF CallsIn
<1>6. QED BY <1>3, <1>5

LEMMA ToolsAreCalled ==
  ASSUME HarnessInv, PiState, NEW w \in 1..MaxTurns, harness[w].at = "prompting",
         NEW count \in Nat, NEW said, IsSeq(said), NEW content, content = RoundOf(w, said, count),
         NEW r, CallsIn(w, count, content, r)
  PROVE  PiState' /\ Grows(view.entries, view'.entries)
<1>1. PICK open : open = CallsOf(w, count)
  OBVIOUS
<1>2. /\ r.type = "message" /\ r.role = "assistant" /\ r.id = MessageId(Len(session) + 1, w)
      /\ r.parent = harness[w].leaf /\ r.content = content /\ r.stopReason = "toolUse"
      /\ Writes(w, r, "prompting", open)
  BY <1>1 DEF CallsIn
<1>3. /\ session' = Append(session, r) /\ view' = ReadPiRecord(view, r)
      /\ Moves(w, "prompting", r.id, open)
  BY <1>2, WriterMoves
<1>4. IsSeq(content) /\ \A call \in open : <<"toolCall", call>> \in ToSet(content)
  BY <1>1, CallsAreNoted
<1>5. ~IsResult(r) /\ view' = ReadToolUse(view, r)
  BY <1>2, <1>3 DEF ReadPiRecord, IsResult
<1>6. IsSeq(session) /\ PiTree(view, Len(session)) /\ ResultsAreJoined /\ Len(session) \in Nat
  BY SeqFacts DEF PiState
<1>7. PICK v, u, n : v = view /\ u = view' /\ n = Len(session)
  OBVIOUS
<1>8. /\ n \in Nat /\ PiTree(v, n) /\ r.id = MessageId(n + 1, w) /\ IsSeq(r.content)
      /\ Known(v.platform, r.parent) \/ Known(v.process, r.parent)
      /\ u = ReadToolUse(v, r)
  BY <1>2, <1>4, <1>5, <1>6, <1>7 DEF PiState, LeavesAreKnown
<1>9. /\ PiTree(u, n + 1) /\ ReadsOn(v, u) /\ Known(u.process, MessageId(n + 1, w))
      /\ \A call : <<"toolCall", call>> \in ToSet(r.content)
           => Started(u.entries, u.process[MessageId(n + 1, w)], call)
  BY <1>8, ToolUseIsRead
<1>10. /\ PiTree(view', Len(session) + 1) /\ ReadsOn(view, view')
       /\ Grows(view.entries, view'.entries) /\ IsTranscript(view'.entries)
       /\ Known(view'.process, r.id)
       /\ \A call \in open : Started(view'.entries, view'.process[r.id], call)
  BY <1>2, <1>4, <1>7, <1>8, <1>9 DEF ReadsOn, PiTree
<1>11. IsSeq(session') /\ PiTree(view', Len(session')) /\ ResultsAreJoined'
  BY <1>3, <1>5, <1>6, <1>10, RecordIsNoted
<1>12. LeavesAreKnown' /\ OpenCallsAreStarted'
  <2>1. PICK leaf, at : leaf = r.id /\ at = "prompting"
    OBVIOUS
  <2>2. leaf[3] = w
    BY <1>2, <2>1 DEF MessageId
  <2>3. /\ Moves(w, at, leaf, open) /\ Known(view'.process, leaf)
        /\ \A call \in open : Started(view'.entries, view'.process[leaf], call)
    BY <1>3, <1>10, <2>1
  <2>4. QED BY <1>10, <2>2, <2>3, OthersRemain
<1>13. QED BY <1>10, <1>11, <1>12 DEF PiState

\* The result of a call as pi notes it.
ResultIn(w, call, r) ==
  /\ r.type = "message" /\ r.role = "toolResult" /\ r.id = MessageId(Len(session) + 1, w)
  /\ r.parent = harness[w].leaf /\ r.call = call /\ r.isError \in BOOLEAN
  /\ Writes(w, r, "prompting", harness[w].open \ {call})

LEMMA ResultIsSaid ==
  ASSUME NEW w, PiToolEnds(w)
  PROVE  \E call \in harness[w].open : \E r : ResultIn(w, call, r)
<1>1. PICK call \in harness[w].open :
        Writes(w, [type |-> "message", id |-> NextId(w), parent |-> harness[w].leaf,
                   role |-> "toolResult", call |-> call, isError |-> IsError(call)],
               "prompting", harness[w].open \ {call})
  BY DEF PiToolEnds
<1>2. PICK r : r = [type |-> "message", id |-> NextId(w), parent |-> harness[w].leaf,
                    role |-> "toolResult", call |-> call, isError |-> IsError(call)]
  OBVIOUS
<1>3. Writes(w, r, "prompting", harness[w].open \ {call})
  BY <1>1, <1>2
<1>4. /\ r.type = "message" /\ r.role = "toolResult" /\ r.id = MessageId(Len(session) + 1, w)
      /\ r.parent = harness[w].leaf /\ r.call = call /\ r.isError \in BOOLEAN
  BY <1>2 DEF IsError, NextId, MessageId
<1>5. QED BY <1>3, <1>4 DEF ResultIn

LEMMA ToolHasEnded ==
  ASSUME HarnessInv, PiState, NEW w \in 1..MaxTurns, harness[w].at = "prompting",
         NEW call \in harness[w].open, NEW r, ResultIn(w, call, r)
  PROVE  PiState' /\ Grows(view.entries, view'.entries)
<1>1. PICK before, open : before = harness[w].leaf /\ open = harness[w].open \ {call}
  OBVIOUS
<1>2. /\ r.type = "message" /\ r.role = "toolResult" /\ r.id = MessageId(Len(session) + 1, w)
      /\ r.parent = before /\ r.call = call /\ r.isError \in BOOLEAN
      /\ Writes(w, r, "prompting", open)
  BY <1>1 DEF ResultIn
<1>3. /\ session' = Append(session, r) /\ view' = ReadPiRecord(view, r)
      /\ Moves(w, "prompting", r.id, open)
  BY <1>2, WriterMoves
<1>4. view' = ReadToolResult(view, r)
  BY <1>2, <1>3 DEF ReadPiRecord
<1>5. IsSeq(session) /\ PiTree(view, Len(session)) /\ ResultsAreJoined /\ Len(session) \in Nat
  BY SeqFacts DEF PiState
<1>6. /\ Known(view.process, before) /\ before[3] = w
      /\ \A c \in harness[w].open : Started(view.entries, view.process[before], c)
  BY <1>1 DEF PiState, OpenCallsAreStarted, LeavesAreKnown
<1>7. PICK v, u, n : v = view /\ u = view' /\ n = Len(session)
  OBVIOUS
<1>8. /\ n \in Nat /\ PiTree(v, n) /\ r.id = MessageId(n + 1, w) /\ r.isError \in BOOLEAN
      /\ Known(v.process, r.parent) /\ r.parent[3] = w
      /\ Started(v.entries, v.process[r.parent], r.call)
      /\ u = ReadToolResult(v, r)
  BY <1>2, <1>4, <1>5, <1>6, <1>7
<1>9. /\ PiTree(u, n + 1) /\ ReadsOn(v, u)
      /\ Known(u.process, MessageId(n + 1, w))
      /\ u.process[MessageId(n + 1, w)] = v.process[r.parent]
      /\ Joined(u.entries, r.call)
  BY <1>8, ToolResultIsRead
<1>10. /\ PiTree(view', Len(session) + 1) /\ ReadsOn(view, view')
       /\ Grows(view.entries, view'.entries) /\ IsTranscript(view'.entries)
       /\ Known(view'.process, r.id)
       /\ view'.process[r.id] = view.process[before]
       /\ Joined(view'.entries, r.call)
  BY <1>2, <1>7, <1>9 DEF ReadsOn, PiTree
<1>11. IsSeq(session') /\ PiTree(view', Len(session')) /\ ResultsAreJoined'
  BY <1>3, <1>5, <1>10, RecordIsNoted
<1>12. ASSUME NEW other \in open
       PROVE  Started(view'.entries, view'.process[r.id], other)
  <2>1. PICK id, s, t : id = view.process[before] /\ s = view.entries /\ t = view'.entries
    OBVIOUS
  <2>2. Started(s, id, other)
    BY <1>1, <1>6, <2>1
  <2>3. IsTranscript(s) /\ IsTranscript(t) /\ Grows(s, t)
    BY <1>5, <1>10, <2>1 DEF PiTree
  <2>4. Started(t, id, other)
    BY <2>2, <2>3, CallsRemain
  <2>5. QED BY <1>10, <2>1, <2>4
<1>13. LeavesAreKnown' /\ OpenCallsAreStarted'
  <2>1. PICK leaf, at : leaf = r.id /\ at = "prompting"
    OBVIOUS
  <2>2. leaf[3] = w
    BY <1>2, <2>1 DEF MessageId
  <2>3. /\ Moves(w, at, leaf, open) /\ Known(view'.process, leaf)
        /\ \A c \in open : Started(view'.entries, view'.process[leaf], c)
    BY <1>3, <1>10, <1>12, <2>1
  <2>4. QED BY <1>10, <2>2, <2>3, OthersRemain
<1>14. QED BY <1>10, <1>11, <1>13 DEF PiState

\* What pi answers, and the message that says it.
AnswerOf(w, empty) == IF empty THEN <<>> ELSE <<<<"thinking", w>>, <<"text", w>>>>

AnswerIn(w, content, r) ==
  /\ r.type = "message" /\ r.role = "assistant" /\ r.id = MessageId(Len(session) + 1, w)
  /\ r.parent = harness[w].leaf /\ r.content = content /\ r.stopReason = "stop"
  /\ Writes(w, r, "answered", {})

LEMMA AnswerIsSaid ==
  ASSUME NEW w, PiReplies(w)
  PROVE  \E empty \in BOOLEAN : \E r : AnswerIn(w, AnswerOf(w, empty), r)
<1>1. PICK empty \in BOOLEAN : Writes(w, Message(w, "assistant", AnswerOf(w, empty)), "answered", {})
  BY DEF PiReplies, AnswerOf
<1>2. PICK r : r = Message(w, "assistant", AnswerOf(w, empty))
  OBVIOUS
<1>3. /\ r.type = "message" /\ r.role = "assistant" /\ r.id = MessageId(Len(session) + 1, w)
      /\ r.parent = harness[w].leaf /\ r.content = AnswerOf(w, empty) /\ r.stopReason = "stop"
  BY <1>2 DEF Message, NextId, MessageId
<1>4. QED BY <1>1, <1>2, <1>3 DEF AnswerIn

LEMMA AnswerIsSeq ==
  ASSUME NEW w, NEW empty \in BOOLEAN
  PROVE  IsSeq(AnswerOf(w, empty))
<1>1. /\ <<>> \in Seq({<<"thinking", w>>, <<"text", w>>})
      /\ <<<<"thinking", w>>, <<"text", w>>>> \in Seq({<<"thinking", w>>, <<"text", w>>})
  OBVIOUS
<1>2. AnswerOf(w, empty) \in Seq({<<"thinking", w>>, <<"text", w>>})
  BY <1>1, Zenon DEF AnswerOf
<1>3. QED BY <1>2, TypedIsSeq

LEMMA PromptIsAnswered ==
  ASSUME HarnessInv, PiState, NEW w \in 1..MaxTurns, harness[w].at = "prompting",
         NEW content, IsSeq(content), NEW r, AnswerIn(w, content, r)
  PROVE  PiState' /\ Grows(view.entries, view'.entries)
<1>1. PICK open : open = {}
  OBVIOUS
<1>2. /\ r.type = "message" /\ r.role = "assistant" /\ r.id = MessageId(Len(session) + 1, w)
      /\ r.parent = harness[w].leaf /\ r.content = content /\ r.stopReason = "stop"
      /\ Writes(w, r, "answered", open)
  BY <1>1 DEF AnswerIn
<1>3. /\ session' = Append(session, r) /\ view' = ReadPiRecord(view, r)
      /\ Moves(w, "answered", r.id, open)
  BY <1>2, WriterMoves
<1>4. ~IsResult(r) /\ view' = ReadReply(view, r)
  BY <1>2, <1>3 DEF ReadPiRecord, IsResult
<1>5. IsSeq(session) /\ PiTree(view, Len(session)) /\ ResultsAreJoined /\ Len(session) \in Nat
  BY SeqFacts DEF PiState
<1>6. PICK v, u, n : v = view /\ u = view' /\ n = Len(session)
  OBVIOUS
<1>7. /\ n \in Nat /\ PiTree(v, n) /\ r.id = MessageId(n + 1, w) /\ IsSeq(r.content)
      /\ Known(v.platform, r.parent) \/ Known(v.process, r.parent)
      /\ u = ReadReply(v, r)
  BY <1>2, <1>4, <1>5, <1>6 DEF PiState, LeavesAreKnown
<1>8. PiTree(u, n + 1) /\ ReadsOn(v, u)
  BY <1>7, ReplyIsRead
<1>9. /\ PiTree(view', Len(session) + 1) /\ ReadsOn(view, view')
      /\ Grows(view.entries, view'.entries) /\ IsTranscript(view'.entries)
  BY <1>6, <1>8 DEF ReadsOn, PiTree
<1>10. IsSeq(session') /\ PiTree(view', Len(session')) /\ ResultsAreJoined'
  BY <1>3, <1>4, <1>5, <1>9, RecordIsNoted
<1>11. LeavesAreKnown' /\ OpenCallsAreStarted'
  <2>1. PICK leaf, at : leaf = r.id /\ at = "answered"
    OBVIOUS
  <2>2. Moves(w, at, leaf, open) /\ at # "prompting"
    BY <1>3, <2>1
  <2>3. QED BY <1>9, <2>2, OthersRemain
<1>12. QED BY <1>9, <1>10, <1>11 DEF PiState

(* What getSession shows of the view.                                        *)

LEMMA AllIsSelected ==
  ASSUME NEW v, AllIsShown(v.entries)
  PROVE  PiEntries(v) = v.entries
<1> DEFINE S == {e \in ToSet(v.entries) : ~(e.type = "process" /\ e.parent[1] = "pi_orphan")}
<1>1. IsSeq(v.entries) /\ ToSet(v.entries) = {v.entries[i] : i \in 1..Len(v.entries)}
  BY SeqFacts DEF AllIsShown, IsTranscript
<1>2. \A i \in 1..Len(v.entries) : v.entries[i] \in S
  BY <1>1 DEF AllIsShown, IsShown
<1>3. S = ToSet(v.entries)
  BY <1>1, <1>2
<1> HIDE DEF S
<1>4. v.entries \in Seq(S)
  BY <1>1, <1>3 DEF IsSeq
<1>5. Select(v.entries, S) = v.entries
  BY <1>4, SelectOfAll
<1>6. QED BY <1>5 DEF PiEntries, S

LEMMA TreeIsShown ==
  ASSUME NEW v, NEW n, PiTree(v, n)
  PROVE  AllIsShown(v.entries)
<1>1. IsTranscript(v.entries) /\ IsTree(v.entries) /\ FromMessages(v.entries, n)
      /\ Len(v.entries) \in Nat
  BY SeqFacts DEF PiTree, IsTranscript
<1>2. ASSUME NEW i \in 1..Len(v.entries), v.entries[i].type = "process"
      PROVE  v.entries[i].parent[1] # "pi_orphan"
  <2>1. PICK j \in 1..(i - 1) : v.entries[i].parent = v.entries[j].id
    BY <1>1, <1>2 DEF IsTree
  <2>2. j \in 1..Len(v.entries)
    BY <1>1
  <2>3. PICK kind \in PiKinds, k \in 1..n, who \in 1..MaxTurns :
          v.entries[j].id = <<kind, MessageId(k, who)>>
    BY <1>1, <2>2 DEF FromMessages
  <2>4. QED BY <2>1, <2>3 DEF PiKinds
<1>3. QED BY <1>1, <1>2 DEF AllIsShown, IsShown

LEMMA NothingIsShown ==
  /\ PiTree(NothingRead, 0)
  /\ AllIsShown(NothingRead.entries)
  /\ NothingRead.entries = <<>>
<1>1. /\ NothingRead.entries = <<>> /\ NothingRead.platform = <<>> /\ NothingRead.process = <<>>
  BY DEF NothingRead, PiView
<1>2. Len(<<>>) = 0 /\ 1..0 = {} /\ DOMAIN <<>> = {}
  OBVIOUS
<1>3. IsTranscript(<<>>) /\ IsTree(<<>>)
  BY <1>2, EmptyIsTree DEF IsTranscript
<1>4. PiTree(NothingRead, 0)
  BY <1>1, <1>2, <1>3 DEF PiTree, FromMessages, MapsMessages
<1>5. QED BY <1>1, <1>4, TreeIsShown

-----------------------------------------------------------------------------
(* The mock executor's records.                                              *)

LEMMA ManagedEntryIsRead ==
  ASSUME NEW v, AllIsShown(v.entries), NEW id, NEW above, NEW type, NEW content, IsSeq(content),
         type = "user" \/ above # Null, type = "process" => above[1] # "pi_orphan",
         NEW w,
         w = ReadPiRecord(v, [type |-> "managed_entry", entry |-> Entry(id, above, type, content)])
  PROVE  /\ AllIsShown(w.entries)
         /\ \E e : IsAppended(w.entries, v.entries, e)
<1>1. PICK e : e = Entry(id, above, type, Only(content, {"text", "tool_call"}))
  OBVIOUS
<1>2. w.entries = Append(v.entries, e)
  BY <1>1 DEF ReadPiRecord, ReadManagedEntry, Entry, PiView
<1>3. IsEntry(e) /\ e.type = type /\ e.parent = above
  <2>1. IsSeq(Only(content, {"text", "tool_call"}))
    BY OnlyFacts
  <2>2. QED BY <1>1, <2>1 DEF Entry, IsEntry
<1>4. IsShown(e)
  BY <1>3 DEF IsShown
<1>5. PICK s, t : s = v.entries /\ t = w.entries
  OBVIOUS
<1>6. IsTranscript(s) /\ IsSeq(s) /\ \A i \in 1..Len(s) : IsShown(s[i])
  BY <1>5 DEF AllIsShown, IsTranscript
<1>7. IsAppended(t, s, e)
  BY <1>2, <1>5, <1>6, AppendFacts
<1>8. IsTranscript(t)
  BY <1>3, <1>6, <1>7, EntryIsAppended
<1>9. ASSUME NEW i \in 1..Len(t) PROVE IsShown(t[i])
  <2>1. /\ Len(s) \in Nat /\ Len(t) = Len(s) + 1 /\ t[Len(s) + 1] = e
        /\ \A j \in 1..Len(s) : t[j] = s[j]
    BY <1>6, <1>7, SeqFacts DEF IsAppended
  <2>2. i \in 1..Len(s) \/ i = Len(s) + 1
    BY <2>1
  <2>3. QED BY <1>4, <1>6, <2>1, <2>2
<1>10. QED BY <1>5, <1>7, <1>8, <1>9 DEF AllIsShown

LEMMA MockIsWritten ==
  ASSUME AllIsShown(view.entries), WriteMockTranscript
  PROVE  AllIsShown(view'.entries) /\ Grows(view.entries, view'.entries)
<1> DEFINE content == <<<<"text", <<turn>>>>>>
<1>1. IsSeq(content)
  <2>1. content \in Seq({<<"text", <<turn>>>>})
    OBVIOUS
  <2>2. QED BY <2>1, TypedIsSeq
<1>2. /\ MockEntries[1] = [type |-> "managed_entry", entry |-> Entry(UserId, parent, "user", content)]
      /\ MockEntries[2] =
           [type |-> "managed_entry", entry |-> Entry(ProcessId, UserId, "process", content)]
      /\ MockEntries[3] =
           [type |-> "managed_entry", entry |-> Entry(FinalId, ProcessId, "assistant", content)]
  BY DEF MockEntries, ManagedEntry
<1>3. UserId # Null /\ ProcessId # Null /\ UserId[1] # "pi_orphan"
  BY DEF UserId, ProcessId, Null
<1>4. PICK v, a, b, c : /\ v = view
                        /\ a = ReadPiRecord(view, MockEntries[1])
                        /\ b = ReadPiRecord(a, MockEntries[2])
                        /\ c = ReadPiRecord(b, MockEntries[3])
  OBVIOUS
<1>5. view' = c
  BY <1>4 DEF WriteMockTranscript
<1> HIDE DEF content
<1>6. AllIsShown(a.entries) /\ \E e : IsAppended(a.entries, view.entries, e)
  <2>1. PICK id, above : id = UserId /\ above = parent
    OBVIOUS
  <2>2. a = ReadPiRecord(v, [type |-> "managed_entry", entry |-> Entry(id, above, "user", content)])
    BY <1>2, <1>4, <2>1
  <2>3. AllIsShown(v.entries)
    BY <1>4
  <2>4. AllIsShown(a.entries) /\ \E e : IsAppended(a.entries, v.entries, e)
    BY <1>1, <2>2, <2>3, ManagedEntryIsRead
  <2>5. QED BY <1>4, <2>4
<1>7. AllIsShown(b.entries) /\ \E e : IsAppended(b.entries, a.entries, e)
  <2>1. PICK id, above : id = ProcessId /\ above = UserId
    OBVIOUS
  <2>2. b = ReadPiRecord(a, [type |-> "managed_entry",
                             entry |-> Entry(id, above, "process", content)])
    BY <1>2, <1>4, <2>1
  <2>3. above # Null /\ above[1] # "pi_orphan"
    BY <1>3, <2>1
  <2>4. QED BY <1>1, <1>6, <2>2, <2>3, ManagedEntryIsRead
<1>8. AllIsShown(c.entries) /\ \E e : IsAppended(c.entries, b.entries, e)
  <2>1. PICK id, above : id = FinalId /\ above = ProcessId
    OBVIOUS
  <2>2. c = ReadPiRecord(b, [type |-> "managed_entry",
                             entry |-> Entry(id, above, "assistant", content)])
    BY <1>2, <1>4, <2>1
  <2>3. above # Null
    BY <1>3, <2>1
  <2>4. QED BY <1>1, <1>7, <2>2, <2>3, ManagedEntryIsRead
<1>9. PICK r, s, t, u : r = view.entries /\ s = a.entries /\ t = b.entries /\ u = c.entries
  OBVIOUS
<1>10. Grows(r, u)
  <2>1. IsTranscript(r) /\ IsSeq(r) /\ Len(r) \in Nat
    BY <1>9, SeqFacts DEF AllIsShown, IsTranscript
  <2>2. /\ Len(s) = Len(r) + 1 /\ Len(t) = Len(s) + 1 /\ Len(u) = Len(t) + 1
        /\ \A i \in 1..Len(r) : s[i] = r[i]
        /\ \A i \in 1..Len(s) : t[i] = s[i]
        /\ \A i \in 1..Len(t) : u[i] = t[i]
    BY <1>6, <1>7, <1>8, <1>9 DEF IsAppended
  <2>3. Len(u) \in Nat /\ Len(r) <= Len(u) /\ \A i \in 1..Len(r) : u[i] = r[i]
    BY <2>1, <2>2
  <2>4. QED BY <2>1, <2>3, EntriesAreKept
<1>11. QED BY <1>5, <1>8, <1>9, <1>10

-----------------------------------------------------------------------------
(* Every step of every run.                                                  *)

\* A step of the view: the invariant holds, and entries are only added.
ViewGoesOn == PiInv' /\ (recorded => Grows(view.entries, view'.entries))

LEMMA FileIsLeft ==
  ASSUME PiInv, UNCHANGED <<runtime, session, view>>,
         Adapter("pi") => \A w \in 1..MaxTurns :
           harness'[w].at = "prompting" => harness'[w] = harness[w]
  PROVE  ViewGoesOn
<1>1. Grows(view.entries, view'.entries)
  BY GrowsStays DEF PiInv, AllIsShown
<1>2. ASSUME Adapter("pi") PROVE PiState'
  <2>1. PiState /\ \A w \in 1..MaxTurns :
          harness'[w].at = "prompting" => harness'[w] = harness[w]
    BY <1>2 DEF PiInv
  <2>2. LeavesAreKnown'
    BY <2>1 DEF PiState, LeavesAreKnown
  <2>3. OpenCallsAreStarted'
    BY <2>1 DEF PiState, OpenCallsAreStarted
  <2>4. QED BY <2>1, <2>2, <2>3 DEF PiState, ResultsAreJoined
<1>3. QED BY <1>1, <1>2 DEF ViewGoesOn, PiInv, Adapter

LEMMA SubmissionKeepsTheFile ==
  ASSUME HarnessInv, PiInv, SubmitMessage
  PROVE  ViewGoesOn
<1>1. /\ runtime' = runtime
      /\ session' = (IF recorded THEN session ELSE <<>>)
      /\ view' = (IF recorded THEN view ELSE NothingRead)
  BY DEF SubmitMessage
<1>2. \A w \in 1..MaxTurns :
        harness'[w].at = "prompting" => recorded /\ harness'[w] = harness[w]
  BY SubmissionKeepsHarnesses
<1>3. CASE recorded
  BY <1>1, <1>2, <1>3, FileIsLeft
<1>4. CASE ~recorded
  <2>1. session' = <<>> /\ view' = NothingRead
    BY <1>1, <1>4
  <2>2. IsSeq(session') /\ Len(session') = 0
    BY <2>1, EmptyIsTree
  <2>3. PiTree(view', Len(session')) /\ AllIsShown(view'.entries)
    BY <2>1, <2>2, NothingIsShown
  <2>4. PiState'
    BY <1>2, <1>4, <2>2, <2>3 DEF PiState, LeavesAreKnown, OpenCallsAreStarted, ResultsAreJoined
  <2>5. QED BY <1>1, <1>4, <2>3, <2>4 DEF ViewGoesOn, PiInv, Adapter
<1>5. QED BY <1>3, <1>4

LEMMA PiGoesOn ==
  ASSUME PiInv, Adapter("pi"), runtime' = runtime, PiState', Grows(view.entries, view'.entries)
  PROVE  ViewGoesOn
<1>1. AllIsShown(view'.entries)
  BY TreeIsShown DEF PiState
<1>2. QED BY <1>1 DEF ViewGoesOn, PiInv, Adapter

LEMMA WriterKeepsTheFile ==
  ASSUME HarnessInv, PiInv, NEW w \in 1..MaxTurns,
         \/ PiOpensSession(w) \/ PiChangesSettings(w) \/ PiAcceptsPrompt(w)
         \/ PiCallsTools(w) \/ PiToolEnds(w) \/ PiReplies(w)
  PROVE  ViewGoesOn
<1>1. Adapter("pi") /\ runtime' = runtime
  BY DEF PiOpensSession, PiChangesSettings, PiAcceptsPrompt, PiCallsTools, PiToolEnds, PiReplies,
         Pi, run
<1>2. PiState
  BY <1>1 DEF PiInv
<1>3. SUFFICES PiState' /\ Grows(view.entries, view'.entries)
  BY <1>1, PiGoesOn
<1>4. CASE PiOpensSession(w)
  BY <1>2, <1>4, SessionIsOpened
<1>5. CASE PiChangesSettings(w)
  BY <1>2, <1>5, SettingsAreNoted
<1>6. CASE PiAcceptsPrompt(w)
  BY <1>2, <1>6, PromptIsAccepted
<1>7. CASE PiCallsTools(w)
  <2>1. PICK count, preamble, r :
          /\ count \in 1..MaxCalls /\ preamble \in BOOLEAN
          /\ CallsIn(w, count, RoundOf(w, Preamble(w, preamble), count), r)
    BY <1>7, RoundIsSaid
  <2>2. PICK said, content : said = Preamble(w, preamble) /\ content = RoundOf(w, said, count)
    OBVIOUS
  <2>3. IsSeq(said)
    <3>1. <<<<"text", w>>>> \in Seq({<<"text", w>>}) /\ <<>> \in Seq({<<"text", w>>})
      OBVIOUS
    <3>2. said \in Seq({<<"text", w>>})
      BY <2>2, <3>1, Zenon DEF Preamble
    <3>3. QED BY <3>2, TypedIsSeq
  <2>4. count \in Nat /\ CallsIn(w, count, content, r) /\ harness[w].at = "prompting"
    BY <1>7, <2>1, <2>2 DEF PiCallsTools, Pi
  <2>5. QED BY <1>2, <2>2, <2>3, <2>4, ToolsAreCalled
<1>8. CASE PiToolEnds(w)
  <2>1. PICK call, r : call \in harness[w].open /\ ResultIn(w, call, r)
    BY <1>8, ResultIsSaid
  <2>2. harness[w].at = "prompting"
    BY <1>8 DEF PiToolEnds, Pi
  <2>3. QED BY <1>2, <2>1, <2>2, ToolHasEnded
<1>9. CASE PiReplies(w)
  <2>1. PICK empty, r : empty \in BOOLEAN /\ AnswerIn(w, AnswerOf(w, empty), r)
    BY <1>9, AnswerIsSaid
  <2>2. PICK content : content = AnswerOf(w, empty)
    OBVIOUS
  <2>3. IsSeq(content) /\ AnswerIn(w, content, r) /\ harness[w].at = "prompting"
    BY <1>9, <2>1, <2>2, AnswerIsSeq DEF PiReplies, Pi
  <2>4. QED BY <1>2, <2>3, PromptIsAnswered
<1>10. QED BY <1>4, <1>5, <1>6, <1>7, <1>8, <1>9

LEMMA StepKeepsTheFile ==
  ASSUME HarnessInv, PiInv, [Next]_vars
  PROVE  ViewGoesOn
<1>1. CASE UNCHANGED vars
  BY <1>1, FileIsLeft DEF vars
<1>2. CASE SubmitMessage
  BY <1>2, SubmissionKeepsTheFile
<1>3. CASE \E w \in 1..MaxTurns :
             \/ PiOpensSession(w) \/ PiChangesSettings(w) \/ PiAcceptsPrompt(w)
             \/ PiCallsTools(w) \/ PiToolEnds(w) \/ PiReplies(w)
  BY <1>3, WriterKeepsTheFile
<1>4. CASE PiAdapterYields
  BY <1>4, FileIsLeft DEF PiAdapterYields
<1>5. ASSUME NEW place, NEW next, NEW open, Claude(place, next, open) PROVE ViewGoesOn
  <2>1. Adapter("claude-code") /\ UNCHANGED <<runtime, session, view>>
    BY <1>5 DEF Claude
  <2>2. ~Adapter("pi")
    BY <2>1 DEF Adapter
  <2>3. QED BY <2>1, <2>2, FileIsLeft
<1>6. CASE ClaudeStarts
  BY <1>5, <1>6 DEF ClaudeStarts
<1>7. CASE ClaudeWrites
  BY <1>5, <1>7 DEF ClaudeWrites, ClaudeYields
<1>8. CASE ClaudeCallsTool
  BY <1>5, <1>8 DEF ClaudeCallsTool, ClaudeYields
<1>9. CASE ClaudeToolEnds
  BY <1>5, <1>9 DEF ClaudeToolEnds, ClaudeYields
<1>10. CASE ClaudeExits
  BY <1>5, <1>10 DEF ClaudeExits
<1>11. CASE WriteMockTranscript
  <2>1. runtime.executor = "mock" /\ runtime' = runtime
    BY <1>11 DEF WriteMockTranscript
  <2>2. runtime.adapter = "none"
    BY <2>1 DEF HarnessInv, Runtimes
  <2>3. AllIsShown(view'.entries) /\ Grows(view.entries, view'.entries)
    BY <1>11, MockIsWritten DEF PiInv
  <2>4. QED BY <2>1, <2>2, <2>3 DEF ViewGoesOn, PiInv, Adapter
<1>12. CASE AgentEnds
  BY <1>12, FileIsLeft DEF AgentEnds
<1>13. CASE RunCompletes
  BY <1>13, FileIsLeft DEF RunCompletes, files
<1>14. CASE RunStops
  BY <1>14, FileIsLeft DEF RunStops, files
<1>15. QED
  BY <1>1, <1>2, <1>3, <1>4, <1>6, <1>7, <1>8, <1>9, <1>10, <1>11, <1>12, <1>13, <1>14 DEF Next

(* Pi's file and what the reader makes of it, in every reachable state,     *)
(* however many harnesses write it.                                         *)
THEOREM FileInvariant == Spec => []PiInv
<1>1. Init => PiInv
  <2>1. SUFFICES ASSUME Init PROVE PiInv
    OBVIOUS
  <2>2. session = <<>> /\ view = NothingRead /\ harness = [w \in 1..MaxTurns |-> NoHarness]
    BY <2>1 DEF Init
  <2>3. IsSeq(session) /\ Len(session) = 0
    BY <2>2, EmptyIsTree
  <2>4. PiTree(view, Len(session)) /\ AllIsShown(view.entries)
    BY <2>2, <2>3, NothingIsShown
  <2>5. \A w \in 1..MaxTurns : harness[w].at = "none"
    BY <2>2 DEF NoHarness, Harness
  <2>6. PiState
    BY <2>3, <2>4, <2>5 DEF PiState, LeavesAreKnown, OpenCallsAreStarted, ResultsAreJoined
  <2>7. QED BY <2>4, <2>6 DEF PiInv
<1>2. HarnessInv /\ PiInv /\ [Next]_vars => PiInv'
  BY StepKeepsTheFile DEF ViewGoesOn
<1>3. QED BY <1>1, <1>2, HarnessInvariant, PTL DEF Spec

(* Every entry of pi's file has an id of its own, a question hangs off      *)
(* nothing or an entry above it, and everything else off one above it,      *)
(* however many rounds of tools, stopped runs and harnesses left behind the *)
(* file holds.                                                              *)
THEOREM PiEntriesAlwaysFormATree == Spec => []PiEntriesFormATree
<1>1. PiInv => PiEntriesFormATree
  <2>1. SUFFICES ASSUME PiInv, Adapter("pi") PROVE IsTree(PiEntries(view))
    BY DEF PiEntriesFormATree
  <2>2. PiEntries(view) = view.entries
    BY <2>1, AllIsSelected DEF PiInv
  <2>3. IsTree(view.entries)
    BY <2>1 DEF PiInv, PiState, PiTree
  <2>4. QED BY <2>2, <2>3
<1>2. QED BY <1>1, FileInvariant, PTL

(* Every result pi noted is shown in the process that started its call,     *)
(* after the start, whichever rounds came between, whatever stopped and     *)
(* whoever else wrote.                                                      *)
THEOREM ResultsAlwaysJoinTheirCalls == Spec => []ResultsJoinTheirCalls
<1>1. PiInv => ResultsJoinTheirCalls
  <2>1. SUFFICES ASSUME PiInv, Adapter("pi"), NEW n \in 1..Len(session),
                        session[n].type = "message" /\ session[n].role = "toolResult"
                 PROVE  \E e \in ToSet(PiEntries(view)) :
                          \E i, j \in 1..Len(e.content) :
                            /\ i < j
                            /\ e.content[i] = ToolCall(session[n].call, "started")
                            /\ e.content[j] \in {ToolCall(session[n].call, status) :
                                                   status \in {"completed", "error"}}
    BY DEF ResultsJoinTheirCalls
  <2>2. PiEntries(view) = view.entries
    BY <2>1, AllIsSelected DEF PiInv
  <2>3. Joined(view.entries, session[n].call)
    BY <2>1 DEF PiInv, PiState, ResultsAreJoined
  <2>4. QED BY <2>2, <2>3 DEF Joined
<1>2. QED BY <1>1, FileInvariant, PTL

-----------------------------------------------------------------------------
(* Turns: f gives the turn of every entry.                                   *)

OfTurn(content, t) == \A item \in ToSet(content) : TurnsIn(item) \subseteq {t}

IsQuestion(e, t) == e.type = "user" /\ e.content[1][2] = <<t>>

TurnsOf(s, f, t) ==
  /\ f \in [1..Len(s) -> Nat]
  /\ \A i \in 1..Len(s) : f[i] <= t
  /\ \A i \in 1..Len(s) : s[i].type = "user" => IsQuestion(s[i], f[i])
  /\ \A i \in 1..Len(s) : OfTurn(s[i].content, f[i])
  /\ \A i \in 1..Len(s) : \E j \in 1..i : s[j].type = "user" /\ f[j] = f[i]
  /\ \A i \in 1..Len(s) : \A j \in 1..i : f[j] <= f[i]
  /\ \A i \in 1..Len(s) : \A j \in 1..(i - 1) :
       s[i].type = "user" /\ s[j].type = "user" => f[j] < f[i]

\* The entries are in turn order, none belongs to a later turn than t.
Ordered(s, t) == \E f : TurnsOf(s, f, t)

\* And the last one belongs to t.
Current(s, t) == \E f : TurnsOf(s, f, t) /\ Len(s) # 0 /\ f[Len(s)] = t

LEMMA OrderedIsInOrder ==
  ASSUME NEW s, IsTranscript(s), NEW t, Ordered(s, t)
  PROVE  InTurnOrder(s)
<1>1. PICK f : TurnsOf(s, f, t)
  BY DEF Ordered
<1>2. Len(s) \in Nat
  BY SeqFacts DEF IsTranscript
<1>3. SUFFICES ASSUME NEW i \in 1..Len(s)
               PROVE  /\ \E j \in 1..i : s[j].type = "user"
                      /\ \A k \in 1..Len(s[i].content) :
                           TurnsIn(s[i].content[k]) \subseteq ToSet(QuestionBefore(s, i))
                      /\ \A j \in 1..(i - 1) :
                           s[i].type = "user" /\ s[j].type = "user"
                             => s[j].content[1][2][1] < s[i].content[1][2][1]
  BY DEF InTurnOrder
<1>4. PICK q \in 1..i : s[q].type = "user" /\ f[q] = f[i]
  BY <1>1 DEF TurnsOf
<1>5. \A j \in 1..Len(s) : s[j].type = "user" => s[j].content[1][2] = <<f[j]>>
  BY <1>1 DEF TurnsOf, IsQuestion
<1>6. QuestionBefore(s, i) = <<f[i]>>
  <2> DEFINE questions == {j \in 1..i : s[j].type = "user"}
             last == CHOOSE j \in questions : \A k \in questions : k <= j
  <2>1. ASSUME NEW k \in questions PROVE k <= q
    <3>1. k \in 1..Len(s) /\ q \in 1..Len(s) /\ k \in 1..i /\ s[k].type = "user"
      BY <1>2
    <3>2. f[k] <= f[i]
      BY <1>1, <3>1 DEF TurnsOf
    <3>3. q < k => f[q] < f[k]
      <4>1. q < k => q \in 1..(k - 1)
        BY <3>1
      <4>2. QED BY <1>1, <1>4, <3>1, <4>1 DEF TurnsOf
    <3>4. f[k] \in Nat /\ f[q] \in Nat /\ f[i] \in Nat
      BY <1>1, <3>1 DEF TurnsOf
    <3>5. QED BY <1>4, <3>1, <3>2, <3>3, <3>4
  <2>2. q \in questions
    BY <1>4
  <2>3. last \in questions /\ \A k \in questions : k <= last
    BY <2>1, <2>2
  <2>4. last = q
    BY <1>2, <2>1, <2>2, <2>3
  <2>5. QuestionBefore(s, i) = s[last].content[1][2]
    BY DEF QuestionBefore
  <2> HIDE DEF last
  <2>6. q \in 1..Len(s)
    BY <1>2
  <2>7. QED BY <1>4, <1>5, <2>4, <2>5, <2>6
<1>7. ToSet(<<f[i]>>) = {f[i]}
  <2>1. <<f[i]>> \in Seq({f[i]}) /\ Len(<<f[i]>>) = 1
    OBVIOUS
  <2>2. IsSeq(<<f[i]>>)
    BY <2>1, TypedIsSeq
  <2>3. ToSet(<<f[i]>>) = {<<f[i]>>[k] : k \in 1..Len(<<f[i]>>)}
    BY <2>2, SeqFacts
  <2>4. QED BY <2>1, <2>3
<1>8. ASSUME NEW k \in 1..Len(s[i].content)
      PROVE  TurnsIn(s[i].content[k]) \subseteq {f[i]}
  <2>1. IsSeq(s[i].content)
    BY DEF IsTranscript, IsEntry
  <2>2. ToSet(s[i].content) = {s[i].content[l] : l \in 1..Len(s[i].content)}
    BY <2>1, SeqFacts
  <2>3. OfTurn(s[i].content, f[i])
    BY <1>1 DEF TurnsOf
  <2>4. QED BY <2>2, <2>3 DEF OfTurn
<1>9. ASSUME NEW j \in 1..(i - 1), s[i].type = "user", s[j].type = "user"
      PROVE  s[j].content[1][2][1] < s[i].content[1][2][1]
  <2>1. j \in 1..Len(s)
    BY <1>2
  <2>2. f[j] < f[i]
    BY <1>1, <1>9, <2>1 DEF TurnsOf
  <2>3. s[j].content[1][2] = <<f[j]>> /\ s[i].content[1][2] = <<f[i]>>
    BY <1>5, <1>9, <2>1
  <2>4. QED BY <2>2, <2>3
<1>10. QED BY <1>4, <1>6, <1>7, <1>8, <1>9

\* The entry e after the entries of s, at the turn t.
TurnWith(f, n, t) == [i \in 1..(n + 1) |-> IF i = n + 1 THEN t ELSE f[i]]

LEMMA EntryOfTurn ==
  ASSUME NEW s, IsSeq(s), NEW t \in Nat, NEW f, TurnsOf(s, f, t),
         NEW e, OfTurn(e.content, t),
         e.type = "user" => IsQuestion(e, t) /\ \A i \in 1..Len(s) : f[i] < t,
         e.type # "user" => Len(s) # 0 /\ f[Len(s)] = t,
         NEW u, IsAppended(u, s, e)
  PROVE  Current(u, t)
<1> DEFINE g == TurnWith(f, Len(s), t)
<1>1. /\ Len(s) \in Nat /\ Len(u) = Len(s) + 1 /\ u[Len(s) + 1] = e
      /\ \A i \in 1..Len(s) : u[i] = s[i]
  BY SeqFacts DEF IsAppended
<1>2. /\ g \in [1..Len(u) -> Nat] /\ g[Len(u)] = t
      /\ \A i \in 1..Len(s) : g[i] = f[i]
  BY <1>1 DEF TurnsOf, TurnWith
<1> HIDE DEF g
<1>3. \A i \in 1..Len(u) : i \in 1..Len(s) \/ i = Len(u)
  BY <1>1
<1>4. \A i \in 1..Len(u) : g[i] <= t
  BY <1>2, <1>3 DEF TurnsOf
<1>5. \A i \in 1..Len(u) : u[i].type = "user" => IsQuestion(u[i], g[i])
  BY <1>1, <1>2, <1>3 DEF TurnsOf
<1>6. \A i \in 1..Len(u) : OfTurn(u[i].content, g[i])
  BY <1>1, <1>2, <1>3 DEF TurnsOf
<1>7. ASSUME NEW i \in 1..Len(u) PROVE \E j \in 1..i : u[j].type = "user" /\ g[j] = g[i]
  <2>1. CASE i \in 1..Len(s)
    <3>1. PICK j \in 1..i : s[j].type = "user" /\ f[j] = f[i]
      BY <2>1 DEF TurnsOf
    <3>2. j \in 1..Len(s)
      BY <1>1, <2>1
    <3>3. QED BY <1>1, <1>2, <2>1, <3>1, <3>2
  <2>2. CASE i = Len(u) /\ e.type = "user"
    BY <1>1, <2>2
  <2>3. CASE i = Len(u) /\ e.type # "user"
    <3>1. Len(s) \in 1..Len(s)
      BY <1>1, <2>3
    <3>2. PICK j \in 1..Len(s) : s[j].type = "user" /\ f[j] = f[Len(s)]
      BY <3>1 DEF TurnsOf
    <3>3. j \in 1..i /\ u[j] = s[j] /\ g[j] = f[j]
      BY <1>1, <1>2, <2>3
    <3>4. QED BY <1>2, <2>3, <3>2, <3>3
  <2>4. QED BY <1>3, <2>1, <2>2, <2>3
<1>8. ASSUME NEW i \in 1..Len(u), NEW j \in 1..i PROVE g[j] <= g[i]
  <2>1. CASE i \in 1..Len(s)
    <3>1. j \in 1..Len(s)
      BY <1>1, <2>1
    <3>2. QED BY <1>2, <2>1, <3>1 DEF TurnsOf
  <2>2. CASE i = Len(u)
    <3>1. j \in 1..Len(u)
      BY <2>2
    <3>2. QED BY <1>2, <1>4, <2>2, <3>1
  <2>3. QED BY <1>3, <2>1, <2>2
<1>9. ASSUME NEW i \in 1..Len(u), NEW j \in 1..(i - 1), u[i].type = "user", u[j].type = "user"
      PROVE  g[j] < g[i]
  <2>1. j \in 1..Len(s)
    BY <1>1
  <2>2. CASE i \in 1..Len(s)
    <3>1. s[i].type = "user" /\ s[j].type = "user"
      BY <1>1, <1>9, <2>1, <2>2
    <3>2. QED BY <1>2, <2>1, <2>2, <3>1 DEF TurnsOf
  <2>3. CASE i = Len(u)
    BY <1>1, <1>2, <1>9, <2>1, <2>3
  <2>4. QED BY <1>3, <2>2, <2>3
<1>10. TurnsOf(u, g, t)
  BY <1>2, <1>4, <1>5, <1>6, <1>7, <1>8, <1>9 DEF TurnsOf
<1>11. QED BY <1>1, <1>2, <1>10 DEF Current

LEMMA TurnsAreNumbers ==
  ASSUME NEW s, NEW f, NEW t, TurnsOf(s, f, t), NEW i \in 1..Len(s)
  PROVE  f[i] \in Nat /\ f[i] <= t
<1>1. f \in [1..Len(s) -> Nat]
  BY DEF TurnsOf
<1>2. f[i] <= t
  BY DEF TurnsOf
<1>3. QED BY <1>1, <1>2

LEMMA TurnIsLater ==
  ASSUME NEW s, NEW f, NEW t \in Int, NEW late \in Int, t <= late, TurnsOf(s, f, t)
  PROVE  TurnsOf(s, f, late)
<1>1. ASSUME NEW i \in 1..Len(s) PROVE f[i] <= late
  <2>1. f[i] \in Nat /\ f[i] <= t
    BY TurnsAreNumbers
  <2>2. QED BY <2>1
<1>2. QED BY <1>1 DEF TurnsOf

LEMMA QuestionIsAsked ==
  ASSUME NEW s, IsSeq(s), NEW t \in Nat, Ordered(s, t - 1),
         NEW e, OfTurn(e.content, t), IsQuestion(e, t), NEW u, IsAppended(u, s, e)
  PROVE  Current(u, t)
<1>1. PICK f : TurnsOf(s, f, t - 1)
  BY DEF Ordered
<1>2. ASSUME NEW i \in 1..Len(s) PROVE f[i] < t
  <2>1. PICK before : before = t - 1
    OBVIOUS
  <2>2. f[i] \in Nat /\ f[i] <= before
    BY <1>1, <2>1, TurnsAreNumbers
  <2>3. QED BY <2>1, <2>2
<1>3. TurnsOf(s, f, t)
  <2>1. PICK before \in Int : before = t - 1 /\ before <= t
    OBVIOUS
  <2>2. QED BY <1>1, <2>1, TurnIsLater
<1>4. QED BY <1>2, <1>3, EntryOfTurn DEF IsQuestion

LEMMA WorkIsDone ==
  ASSUME NEW s, IsSeq(s), NEW t \in Nat, Current(s, t),
         NEW e, OfTurn(e.content, t), e.type # "user", NEW u, IsAppended(u, s, e)
  PROVE  Current(u, t)
<1>1. PICK f : TurnsOf(s, f, t) /\ Len(s) # 0 /\ f[Len(s)] = t
  BY DEF Current
<1>2. QED BY <1>1, EntryOfTurn

LEMMA TurnsPass ==
  ASSUME NEW s, NEW t \in Int
  PROVE  /\ Current(s, t) => Ordered(s, t)
         /\ Ordered(s, t) => Ordered(s, t + 1)
<1>1. Current(s, t) => Ordered(s, t)
  BY DEF Current, Ordered
<1>2. ASSUME NEW f, TurnsOf(s, f, t) PROVE TurnsOf(s, f, t + 1)
  <2>1. PICK late \in Int : late = t + 1 /\ t <= late
    OBVIOUS
  <2>2. QED BY <1>2, <2>1, TurnIsLater
<1>3. QED BY <1>1, <1>2 DEF Ordered

LEMMA NothingIsOrdered ==
  ASSUME NEW t
  PROVE  Ordered(<<>>, t)
<1>1. Len(<<>>) = 0 /\ 1..0 = {} /\ <<>> \in [1..0 -> Nat]
  OBVIOUS
<1>2. TurnsOf(<<>>, <<>>, t)
  BY <1>1 DEF TurnsOf
<1>3. QED BY <1>2 DEF Ordered

-----------------------------------------------------------------------------
(* The host's view: the entries of earlier turns, and the parts of the       *)
(* current one, which are shown after them.                                  *)

Holds(p) == p = <<p[1]>> /\ IsEntry(p[1])

HoldsQuestion(p, t) == Holds(p) /\ IsQuestion(p[1], t) /\ OfTurn(p[1].content, t)

HoldsWork(p, t) == Holds(p) /\ p[1].type # "user" /\ OfTurn(p[1].content, t)

HoldsReply(p, t) ==
  /\ HoldsWork(p, t)
  /\ \E text : /\ p[1].content = <<Text(text)>>
               /\ IsSeq(text) /\ text # <<>> /\ ToSet(text) \subseteq {t}

\* The view of a session's copy whose last prompt is the one of turn t.
HostShape(v, t) ==
  /\ IsTranscript(v.entries)
  /\ v.user = <<>> => v.process = <<>> /\ v.assistant = <<>> /\ Ordered(v.entries, t)
  /\ v.user # <<>> =>
       /\ Ordered(v.entries, t - 1)
       /\ HoldsQuestion(v.user, t)
       /\ v.process # <<>> => HoldsWork(v.process, t)
       /\ v.assistant # <<>> => v.process # <<>> /\ HoldsReply(v.assistant, t)

\* t is s and then the entry of p, if p holds one.
Placed(t, s, p) == IF p = <<>> THEN t = s ELSE IsAppended(t, s, p[1])

LEMMA PartIsPlaced ==
  ASSUME NEW s, IsSeq(s), NEW p, p = <<>> \/ p = <<p[1]>>, NEW t, t = s \o p
  PROVE  Placed(t, s, p)
<1>1. CASE p = <<>>
  <2>1. s \in Seq(ToSet(s))
    BY DEF IsSeq
  <2>2. t = s
    BY <1>1, <2>1
  <2>3. QED BY <1>1, <2>2 DEF Placed
<1>2. CASE p # <<>>
  <2>1. PICK x : x = p[1]
    OBVIOUS
  <2>2. p = <<x>> /\ <<x>> \in Seq({x}) /\ Len(<<x>>) = 1 /\ <<x>>[1] = x
    BY <1>2, <2>1
  <2>3. IsSeq(<<x>>)
    BY <2>2, TypedIsSeq
  <2>4. IsSeq(t) /\ Len(t) = Len(s) + 1
    BY <2>2, <2>3, ConcatFacts
  <2>5. /\ \A i \in 1..Len(s) : t[i] = s[i]
        /\ t[Len(s) + 1] = x
    <3>1. s \in Seq(ToSet(s) \cup {x}) /\ <<x>> \in Seq(ToSet(s) \cup {x})
      <4>1. s \in Seq(ToSet(s))
        BY DEF IsSeq
      <4>2. QED BY <4>1
    <3>2. QED BY <2>2, <3>1
  <2>6. t # <<>>
    BY <2>4, SeqFacts
  <2>7. QED BY <1>2, <2>1, <2>4, <2>5, <2>6 DEF Placed, IsAppended
<1>3. QED BY <1>1, <1>2

LEMMA PlacedIsKept ==
  ASSUME NEW s, IsTranscript(s), NEW p, p # <<>> => IsEntry(p[1]), NEW t, Placed(t, s, p)
  PROVE  /\ IsTranscript(t) /\ Grows(s, t)
         /\ Len(t) = IF p = <<>> THEN Len(s) ELSE Len(s) + 1
         /\ \A i \in 1..Len(s) : t[i] = s[i]
<1>1. CASE p = <<>>
  BY <1>1, GrowsStays DEF Placed
<1>2. CASE p # <<>>
  <2>1. PICK e : e = p[1] /\ IsEntry(e) /\ IsAppended(t, s, e)
    BY <1>2 DEF Placed
  <2>2. IsTranscript(t) /\ Grows(s, t)
    BY <2>1, EntryIsAppended
  <2>3. QED BY <1>2, <2>1, <2>2 DEF IsAppended
<1>3. QED BY <1>1, <1>2

LEMMA PlacedGrows ==
  ASSUME NEW s, IsTranscript(s), NEW p, p # <<>> => IsEntry(p[1]), NEW t, Placed(t, s, p),
         NEW s2, IsTranscript(s2), NEW p2, p2 # <<>> => IsEntry(p2[1]), NEW t2, Placed(t2, s2, p2),
         Grows(s, s2), Len(s) = Len(s2),
         p # <<>> => /\ p2 # <<>>
                     /\ p2[1].id = p[1].id /\ p2[1].parent = p[1].parent
                     /\ Extends(p[1].content, p2[1].content)
  PROVE  Grows(t, t2)
<1>1. /\ Len(s) \in Nat
      /\ Len(t) = IF p = <<>> THEN Len(s) ELSE Len(s) + 1
      /\ \A i \in 1..Len(s) : t[i] = s[i]
  BY PlacedIsKept, SeqFacts DEF IsTranscript
<1>2. /\ Len(t2) = IF p2 = <<>> THEN Len(s) ELSE Len(s) + 1
      /\ \A i \in 1..Len(s) : t2[i] = s2[i]
  BY PlacedIsKept
<1>3. Len(t) <= Len(t2)
  BY <1>1, <1>2
<1>4. ASSUME NEW i \in 1..Len(t)
      PROVE  /\ t[i].id = t2[i].id /\ t[i].parent = t2[i].parent
             /\ Extends(t[i].content, t2[i].content)
  <2>1. CASE i \in 1..Len(s)
    <3>1. t[i] = s[i] /\ t2[i] = s2[i]
      BY <1>1, <1>2, <2>1
    <3>2. QED BY <2>1, <3>1 DEF Grows
  <2>2. CASE p # <<>> /\ i = Len(s) + 1
    BY <2>2 DEF Placed, IsAppended
  <2>3. QED BY <1>1, <2>1, <2>2
<1>5. QED BY <1>3, <1>4 DEF Grows

\* What is shown of a view, part by part.
LEMMA HostIsShown ==
  ASSUME NEW v, NEW t \in Nat, HostShape(v, t),
         NEW x, x = v.entries \o v.user,
         NEW y, y = x \o v.process,
         NEW z, z = y \o v.assistant
  PROVE  /\ z = HostEntries(v)
         /\ Placed(x, v.entries, v.user) /\ Placed(y, x, v.process) /\ Placed(z, y, v.assistant)
         /\ IsTranscript(x) /\ IsTranscript(y) /\ IsTranscript(z)
         /\ Ordered(z, t)
<1>1. /\ v.user # <<>> => Holds(v.user)
      /\ v.process # <<>> => Holds(v.process)
      /\ v.assistant # <<>> => Holds(v.assistant)
  BY DEF HostShape, HoldsQuestion, HoldsWork, HoldsReply
<1>2. PICK s, p, q, r : s = v.entries /\ p = v.user /\ q = v.process /\ r = v.assistant
  OBVIOUS
<1>3. /\ p = <<>> \/ (p = <<p[1]>> /\ IsEntry(p[1]))
      /\ q = <<>> \/ (q = <<q[1]>> /\ IsEntry(q[1]))
      /\ r = <<>> \/ (r = <<r[1]>> /\ IsEntry(r[1]))
      /\ x = s \o p /\ y = x \o q /\ z = y \o r
  BY <1>1, <1>2 DEF Holds
<1>4. IsTranscript(s) /\ IsSeq(s)
  BY <1>2 DEF HostShape, IsTranscript
<1>5. Placed(x, s, p)
  BY <1>3, <1>4, PartIsPlaced
<1>6. IsTranscript(x) /\ IsSeq(x)
  <2>1. IsTranscript(x)
    BY <1>3, <1>4, <1>5, PlacedIsKept
  <2>2. QED BY <2>1 DEF IsTranscript
<1>7. Placed(y, x, q)
  BY <1>3, <1>6, PartIsPlaced
<1>8. IsTranscript(y) /\ IsSeq(y)
  <2>1. IsTranscript(y)
    BY <1>3, <1>6, <1>7, PlacedIsKept
  <2>2. QED BY <2>1 DEF IsTranscript
<1>9. Placed(z, y, r)
  BY <1>3, <1>8, PartIsPlaced
<1>10. IsTranscript(z)
  BY <1>3, <1>8, <1>9, PlacedIsKept
<1>11. z = HostEntries(v)
  <2>1. Written(r) = r
    <3>1. CASE r = <<>>
      BY <3>1 DEF Written
    <3>2. CASE r # <<>>
      <4>1. v.user # <<>>
        BY <1>2, <3>2 DEF HostShape
      <4>2. HoldsReply(r, t)
        BY <1>2, <3>2, <4>1 DEF HostShape
      <4>3. PICK text : r[1].content = <<Text(text)>> /\ text # <<>>
        BY <4>2 DEF HoldsReply
      <4>4. r[1].content # <<Text(<<>>)>>
        BY <4>3 DEF Text
      <4>5. QED BY <4>4 DEF Written
    <3>3. QED BY <3>1, <3>2
  <2>2. HostEntries(v) = s \o p \o q \o Written(r)
    BY <1>2 DEF HostEntries, FlushCurrentTurn, HostView
  <2>3. QED BY <1>3, <2>1, <2>2
<1>12. Ordered(z, t)
  <2>1. CASE p = <<>>
    <3>1. q = <<>> /\ r = <<>> /\ Ordered(s, t)
      BY <1>2, <2>1 DEF HostShape
    <3>2. z = s
      BY <1>5, <1>7, <1>9, <2>1, <3>1 DEF Placed
    <3>3. QED BY <3>1, <3>2
  <2>2. CASE p # <<>>
    <3>1. /\ Ordered(s, t - 1) /\ HoldsQuestion(p, t)
          /\ q # <<>> => HoldsWork(q, t)
          /\ r # <<>> => HoldsWork(r, t)
      BY <1>2, <2>2 DEF HostShape, HoldsReply
    <3>2. Current(x, t)
      <4>1. PICK e : e = p[1] /\ IsAppended(x, s, e)
        BY <1>5, <2>2 DEF Placed
      <4>2. OfTurn(e.content, t) /\ IsQuestion(e, t)
        BY <3>1, <4>1 DEF HoldsQuestion
      <4>3. QED BY <1>4, <3>1, <4>1, <4>2, QuestionIsAsked
    <3>3. Current(y, t)
      <4>1. CASE q = <<>>
        BY <1>7, <3>2, <4>1 DEF Placed
      <4>2. CASE q # <<>>
        <5>1. PICK e : e = q[1] /\ IsAppended(y, x, e)
          BY <1>7, <4>2 DEF Placed
        <5>2. OfTurn(e.content, t) /\ e.type # "user"
          BY <3>1, <4>2, <5>1 DEF HoldsWork
        <5>3. QED BY <1>6, <3>2, <5>1, <5>2, WorkIsDone
      <4>3. QED BY <4>1, <4>2
    <3>4. Current(z, t)
      <4>1. CASE r = <<>>
        BY <1>9, <3>3, <4>1 DEF Placed
      <4>2. CASE r # <<>>
        <5>1. PICK e : e = r[1] /\ IsAppended(z, y, e)
          BY <1>9, <4>2 DEF Placed
        <5>2. OfTurn(e.content, t) /\ e.type # "user"
          BY <3>1, <4>2, <5>1 DEF HoldsWork
        <5>3. QED BY <1>8, <3>3, <5>1, <5>2, WorkIsDone
      <4>3. QED BY <4>1, <4>2
    <3>5. QED BY <3>4, TurnsPass
  <2>3. QED BY <2>1, <2>2
<1>13. QED BY <1>2, <1>5, <1>6, <1>7, <1>8, <1>9, <1>10, <1>11, <1>12

\* q is what became of the part p.
PartGrows(p, q) ==
  p # <<>> => /\ q # <<>>
              /\ q[1].id = p[1].id /\ q[1].parent = p[1].parent
              /\ Extends(p[1].content, q[1].content)

LEMMA TurnGrows ==
  ASSUME NEW v, NEW t \in Nat, HostShape(v, t), NEW w, HostShape(w, t),
         w.entries = v.entries, w.user = v.user,
         PartGrows(v.process, w.process), PartGrows(v.assistant, w.assistant)
  PROVE  Grows(HostEntries(v), HostEntries(w))
<1>1. PICK x, y, z : x = v.entries \o v.user /\ y = x \o v.process /\ z = y \o v.assistant
  OBVIOUS
<1>2. PICK y2, z2 : y2 = x \o w.process /\ z2 = y2 \o w.assistant
  OBVIOUS
<1>3. /\ z = HostEntries(v) /\ Placed(y, x, v.process) /\ Placed(z, y, v.assistant)
      /\ IsTranscript(x) /\ IsTranscript(y) /\ IsTranscript(z)
  BY <1>1, HostIsShown
<1>4. /\ z2 = HostEntries(w) /\ Placed(y2, x, w.process) /\ Placed(z2, y2, w.assistant)
      /\ IsTranscript(y2) /\ IsTranscript(z2)
  <2>1. x = w.entries \o w.user
    BY <1>1
  <2>2. QED BY <1>2, <2>1, HostIsShown
<1>5. PICK p, q, p2, q2 : /\ p = v.process /\ q = v.assistant
                          /\ p2 = w.process /\ q2 = w.assistant
  OBVIOUS
<1>6. /\ p # <<>> => IsEntry(p[1])
      /\ q # <<>> => IsEntry(q[1]) /\ p # <<>>
      /\ p2 # <<>> => IsEntry(p2[1])
      /\ q2 # <<>> => IsEntry(q2[1])
  BY <1>5 DEF HostShape, HoldsWork, HoldsReply, Holds
<1>7. Len(x) \in Nat
  BY <1>3, SeqFacts DEF IsTranscript
<1>8. CASE p # <<>>
  <2>1. Grows(x, x)
    BY <1>3, GrowsStays
  <2>2. Grows(y, y2)
    <3>1. /\ Placed(y, x, p) /\ Placed(y2, x, p2) /\ IsTranscript(x)
          /\ (p # <<>> => IsEntry(p[1])) /\ (p2 # <<>> => IsEntry(p2[1]))
      BY <1>3, <1>4, <1>5, <1>6
    <3>2. p # <<>> => /\ p2 # <<>>
                      /\ p2[1].id = p[1].id /\ p2[1].parent = p[1].parent
                      /\ Extends(p[1].content, p2[1].content)
      BY <1>5 DEF PartGrows
    <3>3. QED BY <2>1, <3>1, <3>2, PlacedGrows
  <2>3. Len(y) = Len(y2)
    <3>1. /\ Placed(y, x, p) /\ Placed(y2, x, p2) /\ IsTranscript(x)
          /\ (p # <<>> => IsEntry(p[1])) /\ (p2 # <<>> => IsEntry(p2[1]))
      BY <1>3, <1>4, <1>5, <1>6
    <3>2. Len(y) = Len(x) + 1
      BY <1>8, <3>1, PlacedIsKept
    <3>3. p2 # <<>>
      BY <1>5, <1>8 DEF PartGrows
    <3>4. Len(y2) = Len(x) + 1
      BY <3>1, <3>3, PlacedIsKept
    <3>5. QED BY <3>2, <3>4
  <2>4. Grows(z, z2)
    <3>1. /\ Placed(z, y, q) /\ Placed(z2, y2, q2) /\ IsTranscript(y) /\ IsTranscript(y2)
          /\ (q # <<>> => IsEntry(q[1])) /\ (q2 # <<>> => IsEntry(q2[1]))
      BY <1>3, <1>4, <1>5, <1>6
    <3>2. q # <<>> => /\ q2 # <<>>
                      /\ q2[1].id = q[1].id /\ q2[1].parent = q[1].parent
                      /\ Extends(q[1].content, q2[1].content)
      BY <1>5 DEF PartGrows
    <3>3. QED BY <2>2, <2>3, <3>1, <3>2, PlacedGrows
  <2>5. QED BY <1>3, <1>4, <2>4
<1>9. CASE p = <<>>
  <2>1. z = x
    BY <1>3, <1>5, <1>6, <1>9 DEF Placed
  <2>2. /\ Len(y2) = IF p2 = <<>> THEN Len(x) ELSE Len(x) + 1
        /\ \A i \in 1..Len(x) : y2[i] = x[i]
    <3>1. Placed(y2, x, p2) /\ IsTranscript(x) /\ (p2 # <<>> => IsEntry(p2[1]))
      BY <1>3, <1>4, <1>5, <1>6
    <3>2. QED BY <3>1, PlacedIsKept
  <2>3. /\ Len(z2) = IF q2 = <<>> THEN Len(y2) ELSE Len(y2) + 1
        /\ \A i \in 1..Len(y2) : z2[i] = y2[i]
    <3>1. Placed(z2, y2, q2) /\ IsTranscript(y2) /\ (q2 # <<>> => IsEntry(q2[1]))
      BY <1>4, <1>5, <1>6
    <3>2. QED BY <3>1, PlacedIsKept
  <2>4. Len(z2) \in Nat /\ Len(x) <= Len(z2) /\ \A i \in 1..Len(x) : z2[i] = x[i]
    BY <1>7, <2>2, <2>3
  <2>5. QED BY <1>3, <1>4, <2>1, <2>4, EntriesAreKept
<1>10. QED BY <1>8, <1>9

-----------------------------------------------------------------------------
(* The reader takes one event of the host's copy more.                       *)

LEMMA SingletonFacts ==
  ASSUME NEW x
  PROVE  IsSeq(<<x>>) /\ ToSet(<<x>>) = {x} /\ <<x>>[1] = x /\ <<x>> # <<>> /\ Len(<<x>>) = 1
<1>1. <<x>> \in Seq({x}) /\ Len(<<x>>) = 1 /\ <<x>>[1] = x /\ <<x>> # <<>>
  OBVIOUS
<1>2. IsSeq(<<x>>)
  BY <1>1, TypedIsSeq
<1>3. ToSet(<<x>>) = {<<x>>[k] : k \in 1..Len(<<x>>)}
  BY <1>2, SeqFacts
<1>4. QED BY <1>1, <1>2, <1>3

LEMMA ItemOfTurn ==
  ASSUME NEW content, IsSeq(content), NEW t, OfTurn(content, t),
         NEW item, TurnsIn(item) \subseteq {t}, NEW later, IsAppended(later, content, item)
  PROVE  OfTurn(later, t) /\ IsSeq(later) /\ Extends(content, later)
<1>1. /\ IsSeq(later) /\ Len(content) \in Nat /\ Len(later) = Len(content) + 1
      /\ \A i \in 1..Len(content) : later[i] = content[i]
      /\ later[Len(content) + 1] = item
      /\ ToSet(later) = {later[i] : i \in 1..Len(later)}
      /\ ToSet(content) = {content[i] : i \in 1..Len(content)}
  BY SeqFacts DEF IsAppended
<1>2. ASSUME NEW i \in 1..Len(later) PROVE TurnsIn(later[i]) \subseteq {t}
  <2>1. i \in 1..Len(content) \/ i = Len(content) + 1
    BY <1>1
  <2>2. QED BY <1>1, <2>1 DEF OfTurn
<1>3. Extends(content, later)
  BY <1>1 DEF Extends
<1>4. QED BY <1>1, <1>2, <1>3 DEF OfTurn

LEMMA EmptyFacts ==
  ASSUME NEW t
  PROVE  IsSeq(<<>>) /\ ToSet(<<>>) = {} /\ OfTurn(<<>>, t)
<1>1. IsSeq(<<>>) /\ Len(<<>>) = 0
  BY EmptyIsTree
<1>2. ToSet(<<>>) = {<<>>[k] : k \in 1..Len(<<>>)}
  BY <1>1, SeqFacts
<1>3. ToSet(<<>>) = {}
  BY <1>1, <1>2
<1>4. QED BY <1>1, <1>3 DEF OfTurn

LEMMA ItemIsRead ==
  ASSUME NEW v, NEW t \in Nat, HostShape(v, t), v.user # <<>>,
         NEW event, NEW item, TurnsIn(item) \subseteq {t},
         NEW w, w = ReadProcessItem(v, event, item)
  PROVE  HostShape(w, t) /\ w.user # <<>> /\ Grows(HostEntries(v), HostEntries(w))
<1> DEFINE seen == EnsureProcessEntry(v, event)
           entry == seen.process[1]
           q == [entry EXCEPT !.content = Append(@, item)]
<1>1. w = HostView(seen.entries, seen.user, <<q>>, seen.assistant)
  BY DEF ReadProcessItem
<1>2. /\ seen.entries = v.entries /\ seen.user = v.user /\ seen.assistant = v.assistant
      /\ v.process # <<>> => entry = v.process[1]
      /\ v.process = <<>> =>
           \E id, above : entry = Entry(id, above, "process", <<>>)
  BY DEF EnsureProcessEntry, HostView
<1>3. PICK e : e = entry
  OBVIOUS
<1>4. /\ IsEntry(e) /\ e.type # "user" /\ OfTurn(e.content, t)
      /\ v.process # <<>> => e = v.process[1]
  <2>1. CASE v.process # <<>>
    BY <1>2, <1>3, <2>1 DEF HostShape, HoldsWork, Holds
  <2>2. CASE v.process = <<>>
    <3>1. PICK id, above : e = Entry(id, above, "process", <<>>)
      BY <1>2, <1>3, <2>2
    <3>2. QED BY <2>2, <3>1, EmptyFacts DEF Entry, IsEntry
  <2>3. QED BY <2>1, <2>2
<1>5. PICK d : d = q /\ d = [e EXCEPT !.content = Append(@, item)]
  BY <1>3
<1> HIDE DEF seen, entry, q
<1>6. w.entries = v.entries /\ w.user = v.user /\ w.process = <<d>> /\ w.assistant = v.assistant
  BY <1>1, <1>2, <1>5 DEF HostView
<1>7. IsSeq(e.content) /\ IsAppended(Append(e.content, item), e.content, item)
  BY <1>4, AppendFacts DEF IsEntry
<1>8. PICK content : content = Append(e.content, item)
  OBVIOUS
<1>9. OfTurn(content, t) /\ IsSeq(content) /\ Extends(e.content, content)
  <2>1. PICK c : c = e.content
    OBVIOUS
  <2>2. IsSeq(c) /\ OfTurn(c, t) /\ IsAppended(content, c, item)
    BY <1>4, <1>7, <1>8, <2>1
  <2>3. OfTurn(content, t) /\ IsSeq(content) /\ Extends(c, content)
    BY <2>2, ItemOfTurn
  <2>4. QED BY <2>1, <2>3
<1>10. d = Entry(e.id, e.parent, e.type, content)
  <2>1. e = Entry(e.id, e.parent, e.type, e.content)
    BY <1>4 DEF IsEntry
  <2>2. QED BY <1>5, <1>8, <2>1 DEF Entry
<1>11. /\ IsEntry(d) /\ d.id = e.id /\ d.parent = e.parent /\ d.type = e.type
       /\ d.content = content
  BY <1>9, <1>10 DEF Entry, IsEntry
<1>12. HoldsWork(w.process, t) /\ w.process # <<>> /\ w.process[1] = d
  BY <1>4, <1>6, <1>9, <1>11, SingletonFacts DEF HoldsWork, Holds
<1>13. HostShape(w, t)
  BY <1>6, <1>12 DEF HostShape
<1>14. PartGrows(v.process, w.process)
  BY <1>4, <1>9, <1>11, <1>12 DEF PartGrows
<1>15. PartGrows(v.assistant, w.assistant)
  <2>1. v.assistant # <<>> => IsSeq(v.assistant[1].content)
    BY DEF HostShape, HoldsReply, HoldsWork, Holds, IsEntry
  <2>2. QED BY <1>6, <2>1, ContentIsKept DEF PartGrows
<1>16. QED BY <1>6, <1>13, <1>14, <1>15, TurnGrows

LEMMA TextOfTurn ==
  ASSUME NEW text, IsSeq(text), NEW t, ToSet(text) \subseteq {t}, NEW later, later = text \o <<t>>
  PROVE  /\ IsSeq(later) /\ later # <<>> /\ ToSet(later) \subseteq {t}
         /\ OfTurn(<<Text(later)>>, t)
         /\ Extends(<<Text(text)>>, <<Text(later)>>)
<1>1. PICK one : one = <<t>> /\ IsSeq(one) /\ ToSet(one) = {t} /\ Len(one) = 1
  BY SingletonFacts
<1>2. /\ IsSeq(later) /\ ToSet(later) = ToSet(text) \cup {t} /\ Len(later) = Len(text) + 1
      /\ Len(text) \in Nat
  BY <1>1, ConcatFacts, SeqFacts
<1>3. later # <<>>
  BY <1>2, SeqFacts
<1>4. TurnsIn(Text(later)) \subseteq {t}
  BY <1>2 DEF TurnsIn, Text
<1>5. OfTurn(<<Text(later)>>, t)
  BY <1>4, SingletonFacts DEF OfTurn
<1>6. Len(text) <= Len(later) /\ SubSeq(text, 1, Len(text)) = SubSeq(later, 1, Len(text))
  <2>1. text \in Seq(ToSet(text) \cup {t}) /\ one \in Seq(ToSet(text) \cup {t})
    <3>1. text \in Seq(ToSet(text))
      BY DEF IsSeq
    <3>2. QED BY <1>1, <3>1
  <2>2. \A i \in 1..Len(text) : later[i] = text[i]
    BY <1>1, <2>1
  <2>3. later \in Seq(ToSet(text) \cup {t})
    BY <1>1, <2>1
  <2>4. QED BY <1>2, <2>1, <2>2, <2>3
<1>7. IsPrefix(text, later)
  BY <1>6 DEF IsPrefix
<1>8. Extends(<<Text(text)>>, <<Text(later)>>)
  <2>1. PICK a, b : a = <<Text(text)>> /\ b = <<Text(later)>>
    OBVIOUS
  <2>2. Len(a) = 1 /\ Len(b) = 1 /\ a[1] = Text(text) /\ b[1] = Text(later)
    BY <2>1, SingletonFacts
  <2>3. /\ a[1][1] = "text" /\ b[1][1] = "text" /\ a[1][2] = text /\ b[1][2] = later
    BY <2>2 DEF Text
  <2>4. Extends(a, b)
    <3>1. ASSUME NEW i \in 1..Len(a)
          PROVE  a[i][1] = "text" /\ b[i][1] = "text" /\ IsPrefix(a[i][2], b[i][2])
      <4>1. i = 1
        BY <2>2
      <4>2. QED BY <1>7, <2>3, <4>1
    <3>2. QED BY <2>2, <3>1 DEF Extends
  <2>5. QED BY <2>1, <2>4
<1>9. QED BY <1>2, <1>3, <1>5, <1>8

LEMMA OutputIsRead ==
  ASSUME NEW v, NEW t \in Nat, HostShape(v, t), v.user # <<>>,
         NEW event, event.text = <<t>>,
         NEW w, w = ReadOutput(v, event)
  PROVE  HostShape(w, t) /\ w.user # <<>> /\ Grows(HostEntries(v), HostEntries(w))
<1>1. PICK seen : seen = EnsureAssistantEntry(v, event)
  OBVIOUS
<1>2. PICK e, text : e = seen.assistant[1] /\ text = TextSoFar(seen)
  OBVIOUS
<1>3. /\ seen.entries = v.entries /\ seen.user = v.user /\ seen.process # <<>>
      /\ HoldsWork(seen.process, t)
      /\ PartGrows(v.process, seen.process)
      /\ v.assistant = <<>> => \E id, above : e = Entry(id, above, "assistant", <<Text(<<>>)>>)
      /\ v.assistant # <<>> => e = v.assistant[1]
  <2>1. CASE v.assistant # <<>>
    <3>1. seen = v
      BY <1>1, <2>1 DEF EnsureAssistantEntry
    <3>2. v.process # <<>> /\ HoldsWork(v.process, t)
      BY <2>1 DEF HostShape
    <3>3. PartGrows(v.process, v.process)
      BY <3>2, ContentIsKept DEF PartGrows, HoldsWork, Holds, IsEntry
    <3>4. QED BY <1>2, <2>1, <3>1, <3>2, <3>3
  <2>2. CASE v.assistant = <<>>
    <3>1. PICK u : u = EnsureProcessEntry(v, event)
      OBVIOUS
    <3>2. \E id, above :
            seen = HostView(u.entries, u.user, u.process,
                            <<Entry(id, above, "assistant", <<Text(<<>>)>>)>>)
      BY <1>1, <2>2, <3>1 DEF EnsureAssistantEntry
    <3>3. PICK a : /\ \E id, above : a = Entry(id, above, "assistant", <<Text(<<>>)>>)
                   /\ seen = HostView(u.entries, u.user, u.process, <<a>>)
      BY <3>2
    <3>4. /\ seen.entries = u.entries /\ seen.user = u.user /\ seen.process = u.process
          /\ seen.assistant = <<a>>
      BY <3>3 DEF HostView
    <3>5. e = a
      BY <1>2, <3>4
    <3>6. /\ u.entries = v.entries /\ u.user = v.user
          /\ v.process # <<>> => u.process = v.process
          /\ v.process = <<>> =>
               \E id, above : u.process = <<Entry(id, above, "process", <<>>)>>
      BY <3>1 DEF EnsureProcessEntry, HostView
    <3>7. u.process # <<>> /\ HoldsWork(u.process, t) /\ PartGrows(v.process, u.process)
      <4>1. CASE v.process # <<>>
        <5>1. HoldsWork(v.process, t)
          BY <4>1 DEF HostShape
        <5>2. QED BY <3>6, <4>1, <5>1, ContentIsKept DEF PartGrows, HoldsWork, Holds, IsEntry
      <4>2. CASE v.process = <<>>
        <5>1. PICK id, above : u.process = <<Entry(id, above, "process", <<>>)>>
          BY <3>6, <4>2
        <5>2. PICK p : p = Entry(id, above, "process", <<>>)
          OBVIOUS
        <5>3. IsEntry(p) /\ p.type = "process" /\ OfTurn(p.content, t)
          BY <5>2, EmptyFacts DEF Entry, IsEntry
        <5>4. u.process = <<p>> /\ u.process[1] = p /\ u.process # <<>>
          BY <5>1, <5>2
        <5>5. QED BY <4>2, <5>3, <5>4 DEF HoldsWork, Holds, PartGrows
      <4>3. QED BY <4>1, <4>2
    <3>8. QED BY <2>2, <3>3, <3>4, <3>5, <3>6, <3>7
  <2>3. QED BY <2>1, <2>2
<1>4. /\ e = Entry(e.id, e.parent, e.type, <<Text(text)>>) /\ e.type # "user"
      /\ IsSeq(text) /\ ToSet(text) \subseteq {t}
  <2>1. text = e.content[1][2]
    BY <1>2 DEF TextSoFar
  <2>2. CASE v.assistant # <<>>
    <3>1. HoldsReply(v.assistant, t)
      BY <2>2 DEF HostShape
    <3>2. PICK said : e.content = <<Text(said)>> /\ IsSeq(said) /\ ToSet(said) \subseteq {t}
      BY <1>3, <2>2, <3>1 DEF HoldsReply
    <3>3. said = text
      BY <2>1, <3>2 DEF Text
    <3>4. QED BY <1>3, <2>2, <3>1, <3>2, <3>3 DEF HoldsReply, HoldsWork, Holds, IsEntry
  <2>3. CASE v.assistant = <<>>
    <3>1. PICK id, above : e = Entry(id, above, "assistant", <<Text(<<>>)>>)
      BY <1>3, <2>3
    <3>2. e.content = <<Text(<<>>)>> /\ e.type = "assistant"
          /\ e = Entry(e.id, e.parent, e.type, e.content)
      BY <3>1 DEF Entry
    <3>3. text = <<>>
      BY <2>1, <3>2 DEF Text
    <3>4. QED BY <3>2, <3>3, EmptyFacts
  <2>4. QED BY <2>2, <2>3
<1>5. PICK later : later = text \o <<t>>
  OBVIOUS
<1>6. /\ IsSeq(later) /\ later # <<>> /\ ToSet(later) \subseteq {t}
      /\ OfTurn(<<Text(later)>>, t)
      /\ Extends(<<Text(text)>>, <<Text(later)>>)
  BY <1>4, <1>5, TextOfTurn
<1>7. PICK d : d = [e EXCEPT !.content = <<Text(later)>>]
  OBVIOUS
<1>8. d = Entry(e.id, e.parent, e.type, <<Text(later)>>)
  BY <1>4, <1>7 DEF Entry
<1>9. w = HostView(seen.entries, seen.user, seen.process, <<d>>)
  BY <1>1, <1>2, <1>5, <1>7 DEF ReadOutput, Rewritten
<1>10. w.entries = v.entries /\ w.user = v.user /\ w.process = seen.process /\ w.assistant = <<d>>
  BY <1>3, <1>9 DEF HostView
<1>11. /\ d.id = e.id /\ d.parent = e.parent /\ d.type = e.type
       /\ d.content = <<Text(later)>> /\ IsEntry(d)
       /\ e.content = <<Text(text)>>
  BY <1>4, <1>8, SingletonFacts DEF Entry, IsEntry
<1>12. HoldsReply(w.assistant, t) /\ w.assistant # <<>> /\ w.assistant[1] = d
  <2>1. w.assistant = <<d>> /\ w.assistant[1] = d /\ w.assistant # <<>>
    BY <1>10
  <2>2. HoldsWork(w.assistant, t)
    BY <1>4, <1>6, <1>11, <2>1 DEF HoldsWork, Holds
  <2>3. QED BY <1>6, <1>11, <2>1, <2>2 DEF HoldsReply
<1>13. HostShape(w, t)
  BY <1>3, <1>10, <1>12 DEF HostShape
<1>14. PartGrows(v.process, w.process)
  BY <1>3, <1>10
<1>15. PartGrows(v.assistant, w.assistant)
  BY <1>3, <1>6, <1>11, <1>12 DEF PartGrows
<1>16. QED BY <1>10, <1>13, <1>14, <1>15, TurnGrows

LEMMA ViewIsShown ==
  ASSUME NEW v, NEW t \in Nat, HostShape(v, t)
  PROVE  /\ IsTranscript(HostEntries(v)) /\ Ordered(HostEntries(v), t)
         /\ Grows(HostEntries(v), HostEntries(v))
<1>1. PICK x, y, z : x = v.entries \o v.user /\ y = x \o v.process /\ z = y \o v.assistant
  OBVIOUS
<1>2. z = HostEntries(v) /\ IsTranscript(z) /\ Ordered(z, t)
  BY <1>1, HostIsShown
<1>3. QED BY <1>2, GrowsStays

LEMMA TurnIsFlushed ==
  ASSUME NEW v, NEW t \in Nat, HostShape(v, t), NEW w, w = FlushCurrentTurn(v)
  PROVE  HostShape(w, t) /\ w.user = <<>> /\ Grows(HostEntries(v), HostEntries(w))
<1>1. PICK s : s = HostEntries(v)
  OBVIOUS
<1>2. IsTranscript(s) /\ Ordered(s, t)
  BY <1>1, ViewIsShown
<1>3. w.entries = s /\ w.user = <<>> /\ w.process = <<>> /\ w.assistant = <<>>
  BY <1>1 DEF HostEntries, FlushCurrentTurn, HostView
<1>4. HostShape(w, t)
  BY <1>2, <1>3 DEF HostShape
<1>5. PICK x, y, z : x = w.entries \o w.user /\ y = x \o w.process /\ z = y \o w.assistant
  OBVIOUS
<1>6. z = HostEntries(w) /\ Placed(x, s, <<>>) /\ Placed(y, x, <<>>) /\ Placed(z, y, <<>>)
  <2>1. z = HostEntries(w) /\ Placed(x, w.entries, w.user) /\ Placed(y, x, w.process)
        /\ Placed(z, y, w.assistant)
    BY <1>4, <1>5, HostIsShown
  <2>2. QED BY <1>3, <2>1
<1>7. z = s
  BY <1>6 DEF Placed
<1>8. QED BY <1>1, <1>2, <1>3, <1>4, <1>6, <1>7, GrowsStays

LEMMA QuestionIsRead ==
  ASSUME NEW v, NEW t \in Nat, HostShape(v, t), NEW u \in Nat, u = t + 1,
         NEW event, event.text = <<u>>, NEW w, w = ReadUserEntry(v, event)
  PROVE  HostShape(w, u) /\ w.user # <<>> /\ Grows(HostEntries(v), HostEntries(w))
<1>1. PICK s : s = HostEntries(v)
  OBVIOUS
<1>2. IsTranscript(s) /\ Ordered(s, t)
  BY <1>1, ViewIsShown
<1>3. PICK e : /\ w = HostView(s, <<e>>, <<>>, <<>>)
               /\ \E id, above : e = Entry(id, above, "user", <<Text(event.text)>>)
  <2>1. PICK seen, id, above :
          w = HostView(seen.entries, <<Entry(id, above, "user", <<Text(event.text)>>)>>, <<>>, <<>>)
          /\ seen = FlushCurrentTurn(v)
    BY DEF ReadUserEntry
  <2>2. seen.entries = s
    BY <1>1, <2>1 DEF HostEntries
  <2>3. QED BY <2>1, <2>2
<1>4. w.entries = s /\ w.user = <<e>> /\ w.process = <<>> /\ w.assistant = <<>> /\ w.user[1] = e
  BY <1>3 DEF HostView
<1>5. IsEntry(e) /\ e.type = "user" /\ e.content = <<Text(<<u>>)>>
  BY <1>3, SingletonFacts DEF Entry, IsEntry
<1>6. IsQuestion(e, u) /\ OfTurn(e.content, u)
  <2>1. PICK content : content = <<Text(<<u>>)>> /\ content[1] = Text(<<u>>)
                       /\ ToSet(content) = {Text(<<u>>)}
    BY SingletonFacts
  <2>2. Text(<<u>>)[2] = <<u>> /\ Text(<<u>>)[1] = "text"
    BY DEF Text
  <2>3. TurnsIn(Text(<<u>>)) = {u}
    BY <2>2, SingletonFacts DEF TurnsIn
  <2>4. QED BY <1>5, <2>1, <2>2, <2>3 DEF IsQuestion, OfTurn
<1>7. HoldsQuestion(w.user, u) /\ w.user # <<>>
  BY <1>4, <1>5, <1>6 DEF HoldsQuestion, Holds
<1>8. HostShape(w, u)
  <2>1. u - 1 = t
    OBVIOUS
  <2>2. QED BY <1>2, <1>4, <1>7, <2>1 DEF HostShape
<1>9. PICK x, y, z : x = w.entries \o w.user /\ y = x \o w.process /\ z = y \o w.assistant
  OBVIOUS
<1>10. z = HostEntries(w) /\ Placed(x, w.entries, w.user) /\ Placed(y, x, w.process)
       /\ Placed(z, y, w.assistant)
  BY <1>8, <1>9, HostIsShown
<1>11. z = x /\ IsAppended(x, s, e)
  BY <1>4, <1>7, <1>10 DEF Placed
<1>12. Grows(s, x)
  BY <1>2, <1>5, <1>11, EntryIsAppended
<1>13. QED BY <1>1, <1>7, <1>8, <1>10, <1>11, <1>12

-----------------------------------------------------------------------------
(* The host's copy over the steps of the runs.                               *)

\* An event of the adapter's that tells of the turn t.
IsEventOf(event, t) ==
  /\ event.type \in {"text_delta", "tool_start", "tool_end", "tool_error"}
  /\ event.type # "text_delta" => event.call[1] = t

\* What the adapter holds back are events of the run that goes on.
BufferInv ==
  /\ IsSeq(buffered)
  /\ \A event \in ToSet(buffered) : IsEventOf(event, turn)
  /\ pc # "running" \/ runtime.executor = "mock" => buffered = <<>>

HostInv ==
  /\ turn \in Nat
  /\ HostShape(host, turn)
  /\ runtime.executor # "sandbox" => host.user = <<>>
  /\ pc = "running" /\ runtime.executor = "sandbox" => host.user # <<>>
  /\ BufferInv

HostGoesOn == HostInv' /\ Grows(HostEntries(host), HostEntries(host'))

LEMMA EventIsCopied ==
  ASSUME HostInv, pc = "running", NEW event, IsEventOf(event, turn),
         NEW w, w = Copied(event)
  PROVE  /\ HostShape(w, turn)
         /\ Grows(HostEntries(host), HostEntries(w))
         /\ runtime.executor # "sandbox" => w = host
         /\ runtime.executor = "sandbox" => w.user # <<>>
<1>1. PICK v, t : v = host /\ t = turn
  OBVIOUS
<1>2. t \in Nat /\ HostShape(v, t)
  BY <1>1 DEF HostInv
<1>3. CASE runtime.executor # "sandbox"
  <2>1. w = host
    BY <1>3 DEF Copied
  <2>2. Grows(HostEntries(v), HostEntries(v))
    BY <1>2, ViewIsShown
  <2>3. QED BY <1>1, <1>2, <1>3, <2>1, <2>2
<1>4. CASE runtime.executor = "sandbox"
  <2>1. w = ReadHostEvent(host, HostEvent(event)) /\ v.user # <<>>
    BY <1>1, <1>4 DEF Copied, HostInv
  <2>2. CASE event.type = "text_delta"
    <3>1. PICK e : e = [type |-> "final.output.delta", id |-> FinalId, parent |-> ProcessId,
                        text |-> <<turn>>]
      OBVIOUS
    <3>2. HostEvent(event) = e
      BY <2>2, <3>1 DEF HostEvent
    <3>3. e.type = "final.output.delta" /\ e.text = <<t>>
      BY <1>1, <3>1
    <3>4. w = ReadOutput(v, e)
      BY <1>1, <2>1, <3>2, <3>3 DEF ReadHostEvent
    <3>5. HostShape(w, t) /\ w.user # <<>> /\ Grows(HostEntries(v), HostEntries(w))
      BY <1>2, <2>1, <3>3, <3>4, OutputIsRead
    <3>6. QED BY <1>1, <1>4, <3>5
  <2>3. CASE event.type # "text_delta"
    <3>1. PICK e : /\ HostEvent(event) = e
                   /\ e.type \in {"action.started", "action.completed", "action.failed"}
                   /\ e.call = event.call
      <4>1. PICK e : HostEvent(event) = e
        OBVIOUS
      <4>2. event.type \in {"tool_start", "tool_end", "tool_error"}
        BY <2>3 DEF IsEventOf
      <4>3. CASE event.type = "tool_start"
        BY <4>1, <4>3 DEF HostEvent
      <4>4. CASE event.type = "tool_end"
        BY <4>1, <4>4 DEF HostEvent
      <4>5. CASE event.type = "tool_error"
        BY <4>1, <4>5 DEF HostEvent
      <4>6. QED BY <4>2, <4>3, <4>4, <4>5
    <3>2. PICK item : item = ToolCall(e.call, StatusOf(e.type))
      OBVIOUS
    <3>3. w = ReadProcessItem(v, e, item)
      BY <1>1, <2>1, <3>1, <3>2 DEF ReadHostEvent
    <3>4. TurnsIn(item) \subseteq {t}
      BY <1>1, <2>3, <3>1, <3>2 DEF IsEventOf, TurnsIn, ToolCall
    <3>5. HostShape(w, t) /\ w.user # <<>> /\ Grows(HostEntries(v), HostEntries(w))
      BY <1>2, <2>1, <3>3, <3>4, ItemIsRead
    <3>6. QED BY <1>1, <1>4, <3>5
  <2>4. QED BY <2>2, <2>3
<1>5. QED BY <1>3, <1>4

LEMMA HostIsLeft ==
  ASSUME HostInv, UNCHANGED <<runtime, turn, host>>, pc' = "running" => pc = "running", BufferInv'
  PROVE  HostGoesOn
<1>1. Grows(HostEntries(host), HostEntries(host))
  BY ViewIsShown DEF HostInv
<1>2. HostInv'
  BY DEF HostInv
<1>3. QED BY <1>1, <1>2 DEF HostGoesOn

LEMMA HostCopies ==
  ASSUME HostInv, pc = "running", runtime' = runtime, turn' = turn,
         NEW event, IsEventOf(event, turn), host' = Copied(event), BufferInv'
  PROVE  HostGoesOn
<1>1. PICK w : w = Copied(event)
  OBVIOUS
<1>2. /\ HostShape(w, turn) /\ Grows(HostEntries(host), HostEntries(w))
      /\ runtime.executor # "sandbox" => w = host
      /\ runtime.executor = "sandbox" => w.user # <<>>
  BY <1>1, EventIsCopied
<1>3. host' = w
  BY <1>1
<1>4. HostInv'
  BY <1>2, <1>3 DEF HostInv
<1>5. QED BY <1>2, <1>3, <1>4 DEF HostGoesOn

LEMMA BufferIsLeft ==
  ASSUME HostInv, UNCHANGED <<runtime, turn, buffered>>, pc = "running" => pc' = "running"
  PROVE  BufferInv'
BY DEF HostInv, BufferInv

LEMMA BufferIsEmpty ==
  ASSUME buffered' = <<>>
  PROVE  BufferInv'
<1>1. IsSeq(buffered') /\ ToSet(buffered') = {}
  BY EmptyFacts
<1>2. QED BY <1>1 DEF BufferInv

LEMMA SubmissionIsCopied ==
  ASSUME HostInv, SubmitMessage
  PROVE  HostGoesOn
<1>1. /\ turn' = turn + 1 /\ runtime' = runtime /\ pc' = "running" /\ buffered' = <<>>
      /\ turn \in Nat /\ turn' \in Nat /\ HostShape(host, turn)
  BY DEF SubmitMessage, HostInv, BufferInv
<1>2. BufferInv'
  BY <1>1, BufferIsEmpty
<1>3. CASE runtime.executor = "sandbox"
  <2>1. PICK e : /\ e.type = "user_entry" /\ e.text = <<turn'>>
                 /\ host' = ReadHostEvent(host, e)
    <3>1. PICK e : e = [type |-> "user_entry", id |-> UserId', parent |-> parent', text |-> <<turn'>>]
      OBVIOUS
    <3>2. host' = ReadHostEvent(host, e)
      BY <1>3, <3>1 DEF SubmitMessage
    <3>3. e.type = "user_entry" /\ e.text = <<turn'>>
      BY <3>1
    <3>4. QED BY <3>2, <3>3
  <2>2. host' = ReadUserEntry(host, e)
    BY <2>1 DEF ReadHostEvent
  <2>3. PICK v, w, t, u : v = host /\ w = host' /\ t = turn /\ u = turn'
    OBVIOUS
  <2>4. t \in Nat /\ u \in Nat /\ HostShape(v, t) /\ u = t + 1 /\ e.text = <<u>> /\ w = ReadUserEntry(v, e)
    BY <1>1, <2>1, <2>2, <2>3
  <2>5. HostShape(w, u) /\ w.user # <<>> /\ Grows(HostEntries(v), HostEntries(w))
    BY <2>4, QuestionIsRead
  <2>6. HostInv'
    BY <1>1, <1>2, <1>3, <2>3, <2>5 DEF HostInv
  <2>7. QED BY <2>3, <2>5, <2>6 DEF HostGoesOn
<1>4. CASE runtime.executor # "sandbox"
  <2>1. host' = host /\ host.user = <<>>
    BY <1>4 DEF SubmitMessage, HostInv
  <2>2. HostShape(host, turn + 1)
    BY <1>1, <2>1, TurnsPass DEF HostShape
  <2>3. HostInv'
    BY <1>1, <1>2, <1>4, <2>1, <2>2 DEF HostInv
  <2>4. Grows(HostEntries(host), HostEntries(host'))
    BY <1>1, <2>1, ViewIsShown
  <2>5. QED BY <2>3, <2>4 DEF HostGoesOn
<1>5. QED BY <1>3, <1>4

LEMMA AgentEndIsCopied ==
  ASSUME HostInv, AgentEnds
  PROVE  HostGoesOn
<1>1. /\ runtime' = runtime /\ turn' = turn /\ pc' = "done" /\ buffered' = <<>>
      /\ turn \in Nat /\ HostShape(host, turn) /\ BufferInv'
  BY BufferIsEmpty DEF AgentEnds, HostInv
<1>2. CASE runtime.executor = "sandbox"
  <2>1. PICK d : d = HarnessEvent("agent_end", Null)
    OBVIOUS
  <2>2. HostEvent(d) = [type |-> "final.output.completed", id |-> FinalId]
    <3>1. d.type = "agent_end"
      BY <2>1 DEF HarnessEvent
    <3>2. QED BY <3>1 DEF HostEvent
  <2>3. host' = FlushCurrentTurn(host)
    <3>1. PICK e : e = HostEvent(d) /\ e.type = "final.output.completed"
      BY <2>2
    <3>2. host' = ReadHostEvent(host, e)
      BY <1>2, <2>1, <3>1 DEF AgentEnds, Copied
    <3>3. QED BY <3>1, <3>2 DEF ReadHostEvent
  <2>4. PICK v, w : v = host /\ w = host'
    OBVIOUS
  <2>5. HostShape(w, turn) /\ Grows(HostEntries(v), HostEntries(w))
    BY <1>1, <2>3, <2>4, TurnIsFlushed
  <2>6. HostInv'
    BY <1>1, <1>2, <2>4, <2>5 DEF HostInv
  <2>7. QED BY <2>4, <2>5, <2>6 DEF HostGoesOn
<1>3. CASE runtime.executor # "sandbox"
  <2>1. host' = host
    BY <1>3 DEF AgentEnds, Copied
  <2>2. QED BY <1>1, <2>1, HostIsLeft DEF HostInv
<1>4. QED BY <1>2, <1>3

\* What the adapter holds back when the harness of the turn w tells more.
LEMMA EventsAreBuffered ==
  ASSUME HarnessInv, HostInv, Adapter("pi"), runtime' = runtime, turn' = turn, pc' = pc,
         NEW w, NEW events, Buffers(w, events),
         IsSeq(events), \A event \in ToSet(events) : IsEventOf(event, w)
  PROVE  BufferInv'
<1>1. CASE w = turn /\ pc = "running"
  <2>1. PICK b, c : b = buffered /\ c = b \o events
    OBVIOUS
  <2>2. IsSeq(b) /\ \A event \in ToSet(b) : IsEventOf(event, turn)
    BY <2>1 DEF HostInv, BufferInv
  <2>3. IsSeq(c) /\ ToSet(c) = ToSet(b) \cup ToSet(events)
    BY <2>1, <2>2, ConcatFacts
  <2>4. buffered' = c
    BY <1>1, <2>1 DEF Buffers
  <2>5. runtime.executor # "mock"
    BY DEF HarnessInv, Runtimes, Adapter
  <2>6. QED BY <1>1, <2>2, <2>3, <2>4, <2>5 DEF BufferInv
<1>2. CASE ~(w = turn /\ pc = "running")
  <2>1. buffered' = buffered
    BY <1>2 DEF Buffers
  <2>2. QED BY <2>1, BufferIsLeft
<1>3. QED BY <1>1, <1>2

LEMMA OneEvent ==
  ASSUME NEW event, NEW w, IsEventOf(event, w), NEW events, events = <<event>>
  PROVE  IsSeq(events) /\ \A e \in ToSet(events) : IsEventOf(e, w)
BY SingletonFacts

LEMMA TextEvent ==
  ASSUME NEW w, NEW said, NEW some \in BOOLEAN,
         said = IF some THEN <<HarnessEvent("text_delta", Null)>> ELSE <<>>
  PROVE  IsSeq(said) /\ \A event \in ToSet(said) : IsEventOf(event, w)
<1>1. CASE some
  <2>1. PICK event : event = HarnessEvent("text_delta", Null)
    OBVIOUS
  <2>2. IsEventOf(event, w) /\ said = <<event>>
    BY <1>1, <2>1 DEF IsEventOf, HarnessEvent
  <2>3. QED BY <2>2, OneEvent
<1>2. CASE ~some
  BY <1>2, EmptyFacts
<1>3. QED BY <1>1, <1>2

LEMMA StartsAreBuffered ==
  ASSUME HarnessInv, HostInv, NEW w \in 1..MaxTurns, PiCallsTools(w)
  PROVE  BufferInv'
<1>1. PICK count \in 1..MaxCalls, preamble \in BOOLEAN :
        LET calls == [i \in 1..count |-> <<w, steps, i>>]
        IN Buffers(w, (IF preamble THEN <<HarnessEvent("text_delta", Null)>> ELSE <<>>)
                      \o [i \in 1..count |-> HarnessEvent("tool_start", calls[i])])
  BY DEF PiCallsTools
<1>2. PICK said : said = IF preamble THEN <<HarnessEvent("text_delta", Null)>> ELSE <<>>
  OBVIOUS
<1>3. IsSeq(said) /\ \A event \in ToSet(said) : IsEventOf(event, w)
  BY <1>2, TextEvent
<1>4. PICK starts : starts = [i \in 1..count |-> HarnessEvent("tool_start", <<w, steps, i>>)]
  OBVIOUS
<1>5. IsSeq(starts) /\ \A event \in ToSet(starts) : IsEventOf(event, w)
  <2>1. starts = [i \in 1..count |-> starts[i]]
    BY <1>4
  <2>2. IsSeq(starts) /\ Len(starts) = count
    BY <2>1, FunctionIsSeq
  <2>3. ToSet(starts) = {starts[i] : i \in 1..Len(starts)}
    BY <2>2, SeqFacts
  <2>4. ASSUME NEW i \in 1..count PROVE IsEventOf(starts[i], w)
    <3>1. starts[i] = HarnessEvent("tool_start", <<w, steps, i>>)
      BY <1>4
    <3>2. QED BY <3>1 DEF IsEventOf, HarnessEvent
  <2>5. QED BY <2>2, <2>3, <2>4
<1>6. PICK events : events = said \o starts
  OBVIOUS
<1>7. Buffers(w, events)
  <2>1. starts = [i \in 1..count |->
                    HarnessEvent("tool_start", [k \in 1..count |-> <<w, steps, k>>][i])]
    BY <1>4
  <2>2. QED BY <1>1, <1>2, <1>6, <2>1
<1>8. IsSeq(events) /\ \A event \in ToSet(events) : IsEventOf(event, w)
  <2>1. IsSeq(events) /\ ToSet(events) = ToSet(said) \cup ToSet(starts)
    BY <1>3, <1>5, <1>6, ConcatFacts
  <2>2. QED BY <1>3, <1>5, <2>1
<1>9. Adapter("pi") /\ runtime' = runtime /\ turn' = turn /\ pc' = pc
  BY DEF PiCallsTools, Pi, run
<1>10. QED BY <1>7, <1>8, <1>9, EventsAreBuffered

LEMMA EndIsBuffered ==
  ASSUME HarnessInv, HostInv, NEW w \in 1..MaxTurns, PiToolEnds(w)
  PROVE  BufferInv'
<1>1. PICK call \in harness[w].open :
        Buffers(w, <<HarnessEvent(IF IsError(call) THEN "tool_error" ELSE "tool_end", call)>>)
  BY DEF PiToolEnds
<1>2. PICK event : event = HarnessEvent(IF IsError(call) THEN "tool_error" ELSE "tool_end", call)
  OBVIOUS
<1>3. IsEventOf(event, w)
  <2>1. call[1] = w
    BY <1>1 DEF HarnessInv
  <2>2. QED BY <1>2, <2>1 DEF IsEventOf, HarnessEvent
<1>4. PICK events : events = <<event>>
  OBVIOUS
<1>5. Buffers(w, events) /\ IsSeq(events) /\ \A e \in ToSet(events) : IsEventOf(e, w)
  BY <1>1, <1>2, <1>3, <1>4, OneEvent
<1>6. Adapter("pi") /\ runtime' = runtime /\ turn' = turn /\ pc' = pc
  BY DEF PiToolEnds, Pi, run
<1>7. QED BY <1>5, <1>6, EventsAreBuffered

LEMMA ReplyIsBuffered ==
  ASSUME HarnessInv, HostInv, NEW w \in 1..MaxTurns, PiReplies(w)
  PROVE  BufferInv'
<1>1. PICK empty \in BOOLEAN :
        Buffers(w, IF empty THEN <<>> ELSE <<HarnessEvent("text_delta", Null)>>)
  BY DEF PiReplies
<1>2. PICK some, events : /\ some = ~empty
                          /\ events = IF some THEN <<HarnessEvent("text_delta", Null)>> ELSE <<>>
  OBVIOUS
<1>3. Buffers(w, events) /\ some \in BOOLEAN
  BY <1>1, <1>2
<1>4. IsSeq(events) /\ \A e \in ToSet(events) : IsEventOf(e, w)
  BY <1>2, <1>3, TextEvent
<1>5. Adapter("pi") /\ runtime' = runtime /\ turn' = turn /\ pc' = pc
  BY DEF PiReplies, Pi, run
<1>6. QED BY <1>3, <1>4, <1>5, EventsAreBuffered

LEMMA EventIsTaken ==
  ASSUME NEW b, IsSeq(b), b # <<>>
  PROVE  Head(b) \in ToSet(b) /\ IsSeq(Tail(b)) /\ ToSet(Tail(b)) \subseteq ToSet(b)
<1>1. b \in Seq(ToSet(b))
  BY DEF IsSeq
<1>2. Head(b) \in ToSet(b) /\ Tail(b) \in Seq(ToSet(b))
  BY <1>1
<1>3. IsSeq(Tail(b))
  BY <1>2, TypedIsSeq
<1>4. ToSet(Tail(b)) = {Tail(b)[i] : i \in 1..Len(Tail(b))}
  BY <1>3, SeqFacts
<1>5. QED BY <1>2, <1>3, <1>4

LEMMA PiKeepsTheHost ==
  ASSUME HarnessInv, HostInv, NEW w \in 1..MaxTurns,
         \/ PiOpensSession(w) \/ PiChangesSettings(w) \/ PiAcceptsPrompt(w)
         \/ PiCallsTools(w) \/ PiToolEnds(w) \/ PiReplies(w)
  PROVE  HostGoesOn
<1>1. UNCHANGED run
  BY DEF PiOpensSession, PiChangesSettings, PiAcceptsPrompt, PiCallsTools, PiToolEnds, PiReplies
<1>2. UNCHANGED <<runtime, turn, host, pc>>
  BY <1>1 DEF run
<1>3. SUFFICES BufferInv'
  BY <1>2, HostIsLeft
<1>4. CASE PiOpensSession(w)
  BY <1>2, <1>4, BufferIsLeft DEF PiOpensSession
<1>5. CASE PiChangesSettings(w)
  BY <1>2, <1>5, BufferIsLeft DEF PiChangesSettings
<1>6. CASE PiAcceptsPrompt(w)
  BY <1>2, <1>6, BufferIsLeft DEF PiAcceptsPrompt
<1>7. QED BY <1>4, <1>5, <1>6, StartsAreBuffered, EndIsBuffered, ReplyIsBuffered

LEMMA YieldKeepsTheHost ==
  ASSUME HostInv, PiAdapterYields
  PROVE  HostGoesOn
<1>1. /\ pc = "running" /\ buffered # <<>> /\ host' = Copied(Head(buffered))
      /\ buffered' = Tail(buffered) /\ UNCHANGED <<runtime, pc, turn>>
  BY DEF PiAdapterYields, At
<1>2. PICK b, event, later : b = buffered /\ event = Head(b) /\ later = Tail(b)
  OBVIOUS
<1>3. IsSeq(b) /\ b # <<>> /\ \A e \in ToSet(b) : IsEventOf(e, turn)
  BY <1>1, <1>2 DEF HostInv, BufferInv
<1>4. event \in ToSet(b) /\ IsSeq(later) /\ ToSet(later) \subseteq ToSet(b)
  BY <1>2, <1>3, EventIsTaken
<1>5. runtime.executor # "mock"
  BY <1>1 DEF HostInv, BufferInv
<1>6. BufferInv'
  BY <1>1, <1>2, <1>3, <1>4, <1>5 DEF BufferInv
<1>7. IsEventOf(event, turn) /\ host' = Copied(event)
  BY <1>1, <1>2, <1>3, <1>4
<1>8. QED BY <1>1, <1>6, <1>7, HostCopies

LEMMA ClaudeKeepsTheHost ==
  ASSUME HarnessInv, HostInv,
         ClaudeStarts \/ ClaudeWrites \/ ClaudeCallsTool \/ ClaudeToolEnds \/ ClaudeExits
  PROVE  HostGoesOn
<1>1. ASSUME NEW place, NEW next, NEW open, Claude(place, next, open)
      PROVE  pc = "running" /\ UNCHANGED <<runtime, turn, pc, buffered>> /\ BufferInv'
  <2>1. pc = "running" /\ UNCHANGED <<runtime, turn, pc, buffered>>
    BY <1>1 DEF Claude, At
  <2>2. QED BY <2>1, BufferIsLeft
<1>2. ASSUME NEW event, IsEventOf(event, turn), NEW open, ClaudeYields(event, open)
      PROVE  HostGoesOn
  <2>1. Claude("prompting", "prompting", open) /\ host' = Copied(event)
    BY <1>2 DEF ClaudeYields
  <2>2. QED BY <1>1, <1>2, <2>1, HostCopies
<1>3. ASSUME NEW place, NEW next, NEW open, Claude(place, next, open), host' = host
      PROVE  HostGoesOn
  BY <1>1, <1>3, HostIsLeft
<1>4. CASE ClaudeStarts
  BY <1>3, <1>4 DEF ClaudeStarts
<1>5. CASE ClaudeWrites
  <2>1. PICK event, open : /\ event = HarnessEvent("text_delta", Null)
                           /\ ClaudeYields(event, open)
    BY <1>5 DEF ClaudeWrites
  <2>2. IsEventOf(event, turn)
    BY <2>1 DEF IsEventOf, HarnessEvent
  <2>3. QED BY <1>2, <2>1, <2>2
<1>6. CASE ClaudeCallsTool
  <2>1. PICK event, open : /\ event = HarnessEvent("tool_start", <<turn, steps, 1>>)
                           /\ ClaudeYields(event, open)
    BY <1>6 DEF ClaudeCallsTool
  <2>2. IsEventOf(event, turn)
    BY <2>1 DEF IsEventOf, HarnessEvent
  <2>3. QED BY <1>2, <2>1, <2>2
<1>7. CASE ClaudeToolEnds
  <2>1. PICK call, type, event, open :
          /\ call \in harness[turn].open /\ type \in {"tool_end", "tool_error"}
          /\ event = HarnessEvent(type, call) /\ ClaudeYields(event, open)
    BY <1>7 DEF ClaudeToolEnds
  <2>2. call[1] = turn
    <3>1. turn \in 1..MaxTurns
      BY <1>7, BoundsAssumption DEF HarnessInv, ClaudeToolEnds
    <3>2. QED BY <2>1, <3>1 DEF HarnessInv
  <2>3. IsEventOf(event, turn)
    BY <2>1, <2>2 DEF IsEventOf, HarnessEvent
  <2>4. QED BY <1>2, <2>1, <2>3
<1>8. CASE ClaudeExits
  BY <1>3, <1>8 DEF ClaudeExits
<1>9. QED BY <1>4, <1>5, <1>6, <1>7, <1>8

LEMMA StepKeepsTheHost ==
  ASSUME HarnessInv, HostInv, [Next]_vars
  PROVE  HostGoesOn
<1>1. CASE UNCHANGED vars
  BY <1>1, BufferIsLeft, HostIsLeft DEF vars
<1>2. CASE SubmitMessage
  BY <1>2, SubmissionIsCopied
<1>3. CASE \E w \in 1..MaxTurns :
             \/ PiOpensSession(w) \/ PiChangesSettings(w) \/ PiAcceptsPrompt(w)
             \/ PiCallsTools(w) \/ PiToolEnds(w) \/ PiReplies(w)
  BY <1>3, PiKeepsTheHost
<1>4. CASE PiAdapterYields
  BY <1>4, YieldKeepsTheHost
<1>5. CASE ClaudeStarts \/ ClaudeWrites \/ ClaudeCallsTool \/ ClaudeToolEnds \/ ClaudeExits
  BY <1>5, ClaudeKeepsTheHost
<1>6. CASE WriteMockTranscript
  <2>1. /\ runtime.executor = "mock" /\ pc = "running" /\ pc' = "done"
        /\ UNCHANGED <<runtime, turn, host, buffered>>
    BY <1>6 DEF WriteMockTranscript, At
  <2>2. buffered' = <<>>
    BY <2>1 DEF HostInv, BufferInv
  <2>3. QED BY <2>1, <2>2, BufferIsEmpty, HostIsLeft
<1>7. CASE AgentEnds
  BY <1>7, AgentEndIsCopied
<1>8. CASE RunCompletes
  <2>1. UNCHANGED <<runtime, turn, host, buffered>> /\ pc = "done" /\ pc' = "idle"
    BY <1>8 DEF RunCompletes, files
  <2>2. QED BY <2>1, BufferIsLeft, HostIsLeft
<1>9. CASE RunStops
  <2>1. UNCHANGED <<runtime, turn, host>> /\ buffered' = <<>> /\ pc' = "idle"
    BY <1>9 DEF RunStops, files
  <2>2. QED BY <2>1, BufferIsEmpty, HostIsLeft
<1>10. QED
  BY <1>1, <1>2, <1>3, <1>4, <1>5, <1>6, <1>7, <1>8, <1>9 DEF Next

(* The host's copy and what the reader makes of it, in every reachable      *)
(* state.                                                                   *)
THEOREM HostInvariant == Spec => []HostInv
<1>1. Init => HostInv
  <2>1. SUFFICES ASSUME Init PROVE HostInv
    OBVIOUS
  <2>2. turn = 0 /\ pc = "idle" /\ buffered = <<>> /\ host = NoTurn
    BY <2>1 DEF Init
  <2>3. /\ host.entries = <<>> /\ host.user = <<>> /\ host.process = <<>> /\ host.assistant = <<>>
    BY <2>2 DEF NoTurn, HostView
  <2>4. IsTranscript(<<>>) /\ IsSeq(<<>>) /\ ToSet(<<>>) = {}
    <3>1. IsSeq(<<>>) /\ Len(<<>>) = 0 /\ ToSet(<<>>) = {}
      BY EmptyIsTree, EmptyFacts
    <3>2. QED BY <3>1 DEF IsTranscript
  <2>5. HostShape(host, turn)
    BY <2>3, <2>4, NothingIsOrdered DEF HostShape
  <2>6. QED BY <2>2, <2>3, <2>4, <2>5 DEF HostInv, BufferInv
<1>2. HarnessInv /\ HostInv /\ [Next]_vars => HostInv'
  BY StepKeepsTheHost DEF HostGoesOn
<1>3. QED BY <1>1, <1>2, HarnessInvariant, PTL DEF Spec

(* What was shown stays where it was, under its id and parent, and its      *)
(* content only gains items and text, over every step of every run.         *)
THEOREM ShownAlwaysGrows == Spec => ShownOnlyGrows
<1>1. HarnessInv /\ PiInv /\ HostInv /\ [Next]_vars
        => [Source = Source' =>
              \A entries \in {Shown}, later \in {Shown'} :
                Grows(entries, later)]_<<view, recorded, host>>
  <2>1. SUFFICES ASSUME HarnessInv, PiInv, HostInv, [Next]_vars, Source = Source'
                 PROVE  Grows(Shown, Shown')
    OBVIOUS
  <2>2. PiInv' /\ (recorded => Grows(view.entries, view'.entries))
    BY <2>1, StepKeepsTheFile DEF ViewGoesOn
  <2>3. Grows(HostEntries(host), HostEntries(host)')
    BY <2>1, StepKeepsTheHost DEF HostGoesOn
  <2>4. PiEntries(view) = view.entries
    BY <2>1, AllIsSelected DEF PiInv
  <2>5. PiEntries(view)' = view'.entries
    <3>1. PICK w : w = view'
      OBVIOUS
    <3>2. AllIsShown(w.entries)
      BY <2>2, <3>1 DEF PiInv
    <3>3. QED BY <3>1, <3>2, AllIsSelected
  <2>6. CASE FromSession # <<>>
    <3>1. recorded /\ FromSession = view.entries /\ Shown = view.entries
      BY <2>4, <2>6 DEF FromSession, Shown
    <3>2. FromSession' # <<>>
      BY <2>1, <2>6 DEF Source
    <3>3. FromSession' = view'.entries /\ Shown' = view'.entries
      BY <2>5, <3>2 DEF FromSession, Shown
    <3>4. QED BY <2>2, <3>1, <3>3
  <2>7. CASE FromSession = <<>>
    <3>1. Shown = HostEntries(host)
      BY <2>7 DEF Shown
    <3>2. FromSession' = <<>>
      BY <2>1, <2>7 DEF Source
    <3>3. Shown' = HostEntries(host)'
      BY <3>2 DEF Shown
    <3>4. QED BY <2>3, <3>1, <3>3
  <2>8. QED BY <2>6, <2>7
<1>2. QED BY <1>1, HarnessInvariant, FileInvariant, HostInvariant, PTL DEF Spec, ShownOnlyGrows

-----------------------------------------------------------------------------
(* The turns of what pi says.                                                *)

PiSays(content, t) ==
  /\ IsSeq(content)
  /\ \A item \in ToSet(content) :
       /\ item[1] \in {"thinking", "text"} => item[2] = t
       /\ item[1] = "toolCall" => item[2][1] = t

LEMMA PiecesOfTurn ==
  ASSUME NEW pieces, NEW t, \A piece \in ToSet(pieces) : piece = t
  PROVE  TurnsIn(Text(pieces)) \subseteq {t}
BY DEF TurnsIn, Text

LEMMA ThoughtsOfTurn ==
  ASSUME NEW content, NEW t, PiSays(content, t)
  PROVE  OfTurn(ToProcessContent(content), t)
<1> DEFINE thoughts == Only(content, {"thinking"})
           f == ToProcessContent(content)
<1>1. IsSeq(content)
  BY DEF PiSays
<1>2. /\ IsSeq(thoughts) /\ Len(thoughts) \in Nat
      /\ ToSet(thoughts) = {thoughts[i] : i \in 1..Len(thoughts)}
      /\ ToSet(thoughts) = {item \in ToSet(content) : item[1] \in {"thinking"}}
  BY <1>1, OnlyFacts, SeqFacts
<1>3. f = [i \in 1..Len(thoughts) |-> Text(<<thoughts[i][2]>>)]
  BY DEF ToProcessContent
<1> HIDE DEF thoughts, f
<1>4. IsSeq(f) /\ Len(f) = Len(thoughts)
  <2>1. f = [i \in 1..Len(thoughts) |-> f[i]]
    BY <1>3
  <2>2. QED BY <1>2, <2>1, FunctionIsSeq
<1>5. ToSet(f) = {f[i] : i \in 1..Len(f)}
  BY <1>4, SeqFacts
<1>6. ASSUME NEW i \in 1..Len(f) PROVE TurnsIn(f[i]) \subseteq {t}
  <2>1. f[i] = Text(<<thoughts[i][2]>>) /\ thoughts[i] \in ToSet(thoughts)
    BY <1>2, <1>3, <1>4
  <2>2. thoughts[i][2] = t
    BY <1>2, <2>1 DEF PiSays
  <2>3. PICK pieces : pieces = <<t>> /\ ToSet(pieces) = {t}
    BY SingletonFacts
  <2>4. f[i] = Text(pieces) /\ \A piece \in ToSet(pieces) : piece = t
    BY <2>1, <2>2, <2>3
  <2>5. QED BY <2>4, PiecesOfTurn
<1>7. QED BY <1>5, <1>6 DEF OfTurn, f

LEMMA CallsOfTurn ==
  ASSUME NEW content, NEW t, PiSays(content, t)
  PROVE  OfTurn(ToToolCallContent(content), t)
<1> DEFINE calls == Only(content, {"toolCall"})
           f == ToToolCallContent(content)
<1>1. IsSeq(content)
  BY DEF PiSays
<1>2. /\ IsSeq(calls) /\ Len(calls) \in Nat
      /\ ToSet(calls) = {calls[i] : i \in 1..Len(calls)}
      /\ ToSet(calls) = {item \in ToSet(content) : item[1] \in {"toolCall"}}
  BY <1>1, OnlyFacts, SeqFacts
<1>3. f = [i \in 1..Len(calls) |-> ToolCall(calls[i][2], "started")]
  BY DEF ToToolCallContent
<1> HIDE DEF calls, f
<1>4. IsSeq(f) /\ Len(f) = Len(calls)
  <2>1. f = [i \in 1..Len(calls) |-> f[i]]
    BY <1>3
  <2>2. QED BY <1>2, <2>1, FunctionIsSeq
<1>5. ToSet(f) = {f[i] : i \in 1..Len(f)}
  BY <1>4, SeqFacts
<1>6. ASSUME NEW i \in 1..Len(f) PROVE TurnsIn(f[i]) \subseteq {t}
  <2>1. f[i] = ToolCall(calls[i][2], "started") /\ calls[i] \in ToSet(calls)
    BY <1>2, <1>3, <1>4
  <2>2. calls[i][2][1] = t
    BY <1>2, <2>1 DEF PiSays
  <2>3. QED BY <2>1, <2>2 DEF TurnsIn, ToolCall
<1>7. QED BY <1>5, <1>6 DEF OfTurn, f

LEMMA TextsOfTurn ==
  ASSUME NEW content, NEW t, PiSays(content, t)
  PROVE  OfTurn(ToAssistantText(content), t) /\ OfTurn(ToAssistantPreamble(content), t)
<1>1. IsSeq(content)
  BY DEF PiSays
<1>2. OfTurn(ToAssistantText(content), t)
  <2>1. \A piece \in ToSet(TextOf(content)) : piece = t
    BY <1>1, TextFacts DEF PiSays
  <2>2. TurnsIn(Text(TextOf(content))) \subseteq {t}
    BY <2>1, PiecesOfTurn
  <2>3. PICK item : item = Text(TextOf(content))
    OBVIOUS
  <2>4. ToSet(<<item>>) = {item}
    BY SingletonFacts
  <2>5. QED BY <2>2, <2>3, <2>4 DEF OfTurn, ToAssistantText
<1>3. ASSUME NEW item \in ToSet(ToAssistantPreamble(content))
      PROVE  TurnsIn(item) \subseteq {t}
  <2>1. PICK pieces : /\ item = Text(pieces)
                      /\ \A piece \in ToSet(pieces) :
                           \E said \in ToSet(content) : said[1] = "text" /\ piece = said[2]
    BY <1>1, PreambleFacts
  <2>2. \A piece \in ToSet(pieces) : piece = t
    BY <2>1 DEF PiSays
  <2>3. QED BY <2>1, <2>2, PiecesOfTurn
<1>4. QED BY <1>2, <1>3 DEF OfTurn

LEMMA ContentsOfTurn ==
  ASSUME NEW a, IsSeq(a), NEW b, IsSeq(b), NEW t, OfTurn(a, t), OfTurn(b, t)
  PROVE  OfTurn(a \o b, t)
<1>1. ToSet(a \o b) = ToSet(a) \cup ToSet(b)
  BY ConcatFacts
<1>2. QED BY <1>1 DEF OfTurn

LEMMA OnlyOfAll ==
  ASSUME NEW content, IsSeq(content), NEW types,
         \A i \in 1..Len(content) : content[i][1] \in types
  PROVE  Only(content, types) = content
<1> DEFINE S == {item \in ToSet(content) : item[1] \in types}
<1>1. ToSet(content) = {content[i] : i \in 1..Len(content)}
  BY SeqFacts
<1>2. S = ToSet(content)
  BY <1>1
<1> HIDE DEF S
<1>3. content \in Seq(S)
  BY <1>2 DEF IsSeq
<1>4. Select(content, S) = content
  BY <1>3, SelectOfAll
<1>5. QED BY <1>4 DEF Only, S

\* The content of a prompt, as it is shown.
LEMMA PromptOfTurn ==
  ASSUME NEW t, NEW content, content = <<<<"text", t>>, <<"image", t>>>>
  PROVE  /\ IsSeq(content)
         /\ IsSeq(ToUserContent(content))
         /\ ToUserContent(content)[1][2] = <<t>>
         /\ OfTurn(ToUserContent(content), t)
<1> DEFINE shown == ToUserContent(content)
<1>1. IsSeq(content) /\ Len(content) = 2
  <2>1. content \in Seq({<<"text", t>>, <<"image", t>>}) /\ Len(content) = 2
    OBVIOUS
  <2>2. QED BY <2>1, TypedIsSeq
<1>2. /\ content[1][1] = "text" /\ content[2][1] = "image"
      /\ content[1][2] = t /\ content[2][2] = t
  OBVIOUS
<1>3. \A i \in 1..Len(content) : i = 1 \/ i = 2
  BY <1>1
<1>4. Only(content, {"text", "image"}) = content
  <2>1. \A i \in 1..Len(content) : content[i][1] \in {"text", "image"}
    BY <1>2, <1>3
  <2>2. QED BY <1>1, <2>1, OnlyOfAll
<1>5. shown = [i \in 1..2 |-> <<content[i][1], <<content[i][2]>>>>]
  BY <1>1, <1>4 DEF ToUserContent
<1>6. IsSeq(shown)
  BY <1>1, UserContentIsSeq
<1> HIDE DEF shown
<1>7. shown[1] = <<"text", <<t>>>> /\ shown[2] = <<"image", <<t>>>> /\ DOMAIN shown = 1..2
  BY <1>2, <1>5
<1>8. ASSUME NEW i \in 1..2 PROVE TurnsIn(shown[i]) \subseteq {t}
  <2>1. shown[i][1] # "tool_call" /\ shown[i][2] = <<t>>
    BY <1>7
  <2>2. ToSet(<<t>>) = {t}
    BY SingletonFacts
  <2>3. QED BY <2>1, <2>2 DEF TurnsIn
<1>9. ToSet(shown) = {shown[i] : i \in 1..2}
  BY <1>7 DEF ToSet
<1>10. OfTurn(shown, t)
  BY <1>8, <1>9 DEF OfTurn
<1>11. QED BY <1>1, <1>6, <1>7, <1>10 DEF shown

-----------------------------------------------------------------------------
(* The writers of pi's file: whose work an entry is, and what it hangs off.  *)

IsOwn(e) ==
  /\ OfTurn(e.content, WriterOf(e))
  /\ e.type # "user" => e.parent[2][3] = WriterOf(e)

AllAreOwn(s) == \A i \in 1..Len(s) : IsOwn(s[i])

LEMMA OwnIsAdded ==
  ASSUME NEW s, IsSeq(s), AllAreOwn(s), NEW e, IsOwn(e), NEW t, IsAppended(t, s, e)
  PROVE  AllAreOwn(t)
<1>1. /\ Len(s) \in Nat /\ Len(t) = Len(s) + 1 /\ t[Len(s) + 1] = e
      /\ \A i \in 1..Len(s) : t[i] = s[i]
  BY SeqFacts DEF IsAppended
<1>2. ASSUME NEW i \in 1..Len(t) PROVE IsOwn(t[i])
  <2>1. i \in 1..Len(s) \/ i = Len(s) + 1
    BY <1>1
  <2>2. QED BY <1>1, <2>1 DEF AllAreOwn
<1>3. QED BY <1>2 DEF AllAreOwn

\* The entry of a message of w's that is no question.
LEMMA WorkIsOwn ==
  ASSUME NEW kind, NEW k, NEW w, NEW id, id = <<kind, MessageId(k, w)>>,
         NEW above, above[2][3] = w, NEW type, NEW content, OfTurn(content, w),
         NEW e, e = Entry(id, above, type, content)
  PROVE  IsOwn(e) /\ id[2][3] = w
<1>1. e.id = id /\ e.parent = above /\ e.content = content
  BY DEF Entry
<1>2. id[2][3] = w
  BY DEF MessageId
<1>3. WriterOf(e) = w
  BY <1>1, <1>2 DEF WriterOf
<1>4. QED BY <1>1, <1>2, <1>3 DEF IsOwn

LEMMA QuestionIsOwn ==
  ASSUME NEW v, IsSeq(v.entries), AllAreOwn(v.entries), NEW k, NEW w,
         NEW m, m.id = MessageId(k, w), m.content = <<<<"text", w>>, <<"image", w>>>>,
         NEW u, u = ReadUser(v, m)
  PROVE  AllAreOwn(u.entries)
<1>1. PICK s, t, shown, id : /\ s = v.entries /\ t = u.entries
                             /\ shown = ToUserContent(m.content) /\ id = <<"pi_user", m.id>>
  OBVIOUS
<1>2. PICK e, above : e = Entry(id, above, "user", shown) /\ t = Append(s, e)
  BY <1>1 DEF ReadUser, PiView
<1>3. e.type = "user" /\ e.content = shown /\ e.id = id
  BY <1>2 DEF Entry
<1>4. OfTurn(shown, w)
  BY <1>1, PromptOfTurn
<1>5. id = <<"pi_user", MessageId(k, w)>>
  BY <1>1
<1>6. id[2][3] = w
  BY <1>5 DEF MessageId
<1>7. IsOwn(e)
  BY <1>3, <1>4, <1>6 DEF IsOwn, WriterOf
<1>8. IsSeq(s) /\ AllAreOwn(s) /\ IsAppended(t, s, e)
  BY <1>1, <1>2, AppendFacts
<1>9. AllAreOwn(t)
  BY <1>7, <1>8, OwnIsAdded
<1>10. QED BY <1>1, <1>9

\* What a message hangs off is the work of the one who wrote the message above it.
LEMMA AboveIsOwn ==
  ASSUME NEW v, NEW n, PiTree(v, n), NEW m,
         Known(v.platform, m.parent) \/ Known(v.process, m.parent)
  PROVE  ParentOfProcess(v, m)[2][3] = m.parent[3]
<1>1. MapsMessages(v.platform, v.entries, n) /\ MapsMessages(v.process, v.entries, n)
  BY DEF PiTree
<1>2. CASE Known(v.platform, m.parent)
  BY <1>1, <1>2, LookupIsEntry DEF ParentOfProcess
<1>3. CASE ~Known(v.platform, m.parent) /\ Known(v.process, m.parent)
  BY <1>1, <1>3, LookupIsEntry DEF ParentOfProcess
<1>4. QED BY <1>2, <1>3

LEMMA ToolUseIsOwn ==
  ASSUME NEW v, NEW n, PiTree(v, n), AllAreOwn(v.entries), NEW k, NEW w,
         NEW m, m.id = MessageId(k, w), m.parent[3] = w, PiSays(m.content, w),
         Known(v.platform, m.parent) \/ Known(v.process, m.parent),
         NEW u, u = ReadToolUse(v, m)
  PROVE  AllAreOwn(u.entries)
<1>1. PICK a, b, c : /\ a = ToProcessContent(m.content)
                     /\ b = ToAssistantPreamble(m.content)
                     /\ c = ToToolCallContent(m.content)
  OBVIOUS
<1>2. IsSeq(m.content)
  BY DEF PiSays
<1>3. IsSeq(a) /\ IsSeq(b) /\ IsSeq(c)
  BY <1>1, <1>2, ThoughtsAreSeq, PreambleFacts, CallsAreShown
<1>4. OfTurn(a, w) /\ OfTurn(b, w) /\ OfTurn(c, w)
  BY <1>1, ThoughtsOfTurn, TextsOfTurn, CallsOfTurn
<1>5. PICK d, content : d = a \o b /\ content = d \o c
  OBVIOUS
<1>6. IsSeq(d) /\ OfTurn(d, w)
  BY <1>3, <1>4, <1>5, ConcatFacts, ContentsOfTurn
<1>7. OfTurn(content, w)
  BY <1>3, <1>4, <1>5, <1>6, ContentsOfTurn
<1>8. PICK s, t, id, above : /\ s = v.entries /\ t = u.entries
                             /\ id = <<"pi_process", m.id>> /\ above = ParentOfProcess(v, m)
  OBVIOUS
<1>9. PICK e : e = Entry(id, above, "process", content) /\ t = Append(s, e)
  BY <1>1, <1>5, <1>8 DEF ReadToolUse, PiView
<1>10. id = <<"pi_process", MessageId(k, w)>> /\ above[2][3] = w
  BY <1>8, AboveIsOwn
<1>11. IsOwn(e)
  BY <1>7, <1>9, <1>10, WorkIsOwn
<1>12. IsSeq(s) /\ AllAreOwn(s)
  BY <1>8 DEF PiTree, IsTranscript
<1>13. IsAppended(t, s, e)
  BY <1>9, <1>12, AppendFacts
<1>14. AllAreOwn(t)
  BY <1>11, <1>12, <1>13, OwnIsAdded
<1>15. QED BY <1>8, <1>14

LEMMA ReplyIsOwn ==
  ASSUME NEW v, NEW n, PiTree(v, n), AllAreOwn(v.entries), NEW k, NEW w,
         NEW m, m.id = MessageId(k, w), m.parent[3] = w, PiSays(m.content, w),
         Known(v.platform, m.parent) \/ Known(v.process, m.parent),
         NEW u, u = ReadReply(v, m)
  PROVE  AllAreOwn(u.entries)
<1>1. PICK s, t, text, thoughts, id, process, above :
        /\ s = v.entries /\ t = u.entries
        /\ text = ToAssistantText(m.content) /\ thoughts = ToProcessContent(m.content)
        /\ id = <<"pi_assistant", m.id>> /\ process = <<"pi_process", m.id>>
        /\ above = ParentOfProcess(v, m)
  OBVIOUS
<1>2. OfTurn(text, w) /\ OfTurn(thoughts, w)
  BY <1>1, TextsOfTurn, ThoughtsOfTurn
<1>3. /\ id = <<"pi_assistant", MessageId(k, w)>> /\ process = <<"pi_process", MessageId(k, w)>>
      /\ above[2][3] = w
  BY <1>1, AboveIsOwn
<1>4. IsSeq(s) /\ AllAreOwn(s) /\ MapsMessages(v.process, s, n)
  BY <1>1 DEF PiTree, IsTranscript
<1>5. CASE Known(v.process, m.parent)
  <2>1. PICK e, up : e = Entry(id, up, "assistant", text) /\ up = v.process[m.parent] /\ t = Append(s, e)
    BY <1>1, <1>5 DEF ReadReply, PiView
  <2>2. up[2][3] = w
    BY <1>4, <1>5, <2>1, LookupIsEntry
  <2>3. IsOwn(e)
    BY <1>2, <1>3, <2>1, <2>2, WorkIsOwn
  <2>4. IsAppended(t, s, e)
    BY <1>4, <2>1, AppendFacts
  <2>5. AllAreOwn(t)
    BY <1>4, <2>3, <2>4, OwnIsAdded
  <2>6. QED BY <1>1, <2>5
<1>6. CASE ~Known(v.process, m.parent)
  <2>1. PICK d, e : /\ d = Entry(process, above, "process", thoughts)
                    /\ e = Entry(id, process, "assistant", text)
                    /\ t = Append(Append(s, d), e)
    BY <1>1, <1>6 DEF ReadReply, PiView
  <2>2. IsOwn(d) /\ process[2][3] = w
    BY <1>2, <1>3, <2>1, WorkIsOwn
  <2>3. IsOwn(e)
    BY <1>2, <1>3, <2>1, <2>2, WorkIsOwn
  <2>4. PICK x : x = Append(s, d)
    OBVIOUS
  <2>5. IsAppended(x, s, d)
    BY <1>4, <2>4, AppendFacts
  <2>6. IsSeq(x) /\ AllAreOwn(x)
    BY <1>4, <2>2, <2>5, OwnIsAdded DEF IsAppended
  <2>7. IsAppended(t, x, e)
    BY <2>1, <2>4, <2>6, AppendFacts
  <2>8. AllAreOwn(t)
    BY <2>3, <2>6, <2>7, OwnIsAdded
  <2>9. QED BY <1>1, <2>8
<1>7. QED BY <1>5, <1>6

LEMMA ResultIsOwn ==
  ASSUME NEW v, NEW n, PiTree(v, n), AllAreOwn(v.entries), NEW w,
         NEW m, Known(v.process, m.parent), m.parent[3] = w, m.call[1] = w,
         NEW u, u = ReadToolResult(v, m)
  PROVE  AllAreOwn(u.entries)
<1>1. PICK s, t, id, item :
        /\ s = v.entries /\ t = u.entries /\ id = v.process[m.parent]
        /\ item = ToolCall(m.call, IF m.isError THEN "error" ELSE "completed")
  OBVIOUS
<1>2. t = AddItem(s, id, item)
  BY <1>1 DEF ReadToolResult, PiView
<1>3. IsTranscript(s) /\ MapsMessages(v.process, s, n) /\ AllAreOwn(s)
  BY <1>1 DEF PiTree
<1>4. id \in Ids(s) /\ id[2][3] = w
  BY <1>1, <1>3, LookupIsEntry
<1>5. TurnsIn(item) \subseteq {w}
  BY <1>1 DEF TurnsIn, ToolCall
<1>6. SameShape(s, t)
  BY <1>2, <1>3, <1>4, ItemIsAdded
<1>7. PICK at \in 1..Len(s) : /\ s[at].id = id /\ IsAppended(t[at].content, s[at].content, item)
                              /\ \A i \in 1..Len(s) : i # at => t[i] = s[i]
  BY <1>2, <1>3, <1>4, ItemIsAdded
<1>8. IsOwn(t[at])
  <2>1. PICK a, b : a = s[at].content /\ b = t[at].content
    OBVIOUS
  <2>2. /\ t[at].id = id /\ t[at].parent = s[at].parent /\ t[at].type = s[at].type
        /\ WriterOf(t[at]) = w /\ WriterOf(s[at]) = w
    BY <1>4, <1>6, <1>7 DEF SameShape, WriterOf
  <2>3. OfTurn(a, w) /\ (s[at].type # "user" => s[at].parent[2][3] = w)
    BY <1>3, <2>1, <2>2 DEF AllAreOwn, IsOwn
  <2>4. IsSeq(a) /\ IsAppended(b, a, item)
    BY <1>3, <1>7, <2>1 DEF IsTranscript, IsEntry
  <2>5. OfTurn(b, w)
    BY <1>5, <2>3, <2>4, ItemOfTurn
  <2>6. QED BY <2>1, <2>2, <2>3, <2>5 DEF IsOwn
<1>9. Len(t) = Len(s)
  BY <1>6 DEF SameShape
<1>10. ASSUME NEW i \in 1..Len(t) PROVE IsOwn(t[i])
  <2>1. CASE i = at
    BY <1>8, <2>1
  <2>2. CASE i # at
    BY <1>3, <1>7, <1>9, <2>2 DEF AllAreOwn
  <2>3. QED BY <2>1, <2>2
<1>11. QED BY <1>1, <1>10 DEF AllAreOwn

-----------------------------------------------------------------------------
(* The writers over the steps of the runs.                                   *)

ViewIsOwn == Adapter("pi") => AllAreOwn(view.entries)

LEMMA PromptIsOwn ==
  ASSUME PiState, AllAreOwn(view.entries), NEW w, PiAcceptsPrompt(w)
  PROVE  AllAreOwn(view'.entries)
<1>1. PICK r : r = Message(w, "user", <<<<"text", w>>, <<"image", w>>>>)
  OBVIOUS
<1>2. view' = ReadPiRecord(view, r)
  BY <1>1 DEF PiAcceptsPrompt, Writes, Note
<1>3. /\ r.type = "message" /\ r.role = "user" /\ r.id = MessageId(Len(session) + 1, w)
      /\ r.content = <<<<"text", w>>, <<"image", w>>>>
  BY <1>1 DEF Message, NextId, MessageId
<1>4. PICK v, u, k : v = view /\ u = view' /\ k = Len(session) + 1
  OBVIOUS
<1>5. u = ReadUser(v, r) /\ IsSeq(v.entries) /\ AllAreOwn(v.entries) /\ r.id = MessageId(k, w)
  BY <1>2, <1>3, <1>4 DEF ReadPiRecord, PiState, PiTree, IsTranscript
<1>6. AllAreOwn(u.entries)
  BY <1>3, <1>5, QuestionIsOwn
<1>7. QED BY <1>4, <1>6

LEMMA SaysMore ==
  ASSUME NEW t, NEW a, PiSays(a, t), NEW b, PiSays(b, t), NEW c, PiSays(c, t)
  PROVE  PiSays((a \o b) \o c, t)
<1>1. PICK d, e : d = a \o b /\ e = d \o c
  OBVIOUS
<1>2. IsSeq(d) /\ ToSet(d) = ToSet(a) \cup ToSet(b)
  BY <1>1, ConcatFacts DEF PiSays
<1>3. IsSeq(e) /\ ToSet(e) = ToSet(d) \cup ToSet(c)
  BY <1>1, <1>2, ConcatFacts DEF PiSays
<1>4. PiSays(e, t)
  BY <1>2, <1>3 DEF PiSays
<1>5. QED BY <1>1, <1>4

LEMMA RoundSays ==
  ASSUME NEW w, NEW n \in Nat, NEW preamble \in BOOLEAN, NEW content,
         content = RoundOf(w, Preamble(w, preamble), n)
  PROVE  PiSays(content, w)
<1>1. PICK s, a, b : /\ s = Preamble(w, preamble) /\ a = <<<<"thinking", w>>>>
                     /\ b = [i \in 1..n |-> <<"toolCall", <<w, steps, i>>>>]
  OBVIOUS
<1>2. content = (a \o s) \o b
  BY <1>1 DEF RoundOf
<1>3. PiSays(a, w)
  <2>1. IsSeq(a) /\ ToSet(a) = {<<"thinking", w>>}
    BY <1>1, SingletonFacts
  <2>2. QED BY <2>1 DEF PiSays
<1>4. PiSays(s, w)
  <2>1. CASE preamble
    <3>1. s = <<<<"text", w>>>>
      BY <1>1, <2>1 DEF Preamble
    <3>2. IsSeq(s) /\ ToSet(s) = {<<"text", w>>}
      BY <3>1, SingletonFacts
    <3>3. QED BY <3>2 DEF PiSays
  <2>2. CASE ~preamble
    <3>1. s = <<>>
      BY <1>1, <2>2 DEF Preamble
    <3>2. IsSeq(s) /\ ToSet(s) = {}
      BY <3>1, EmptyFacts
    <3>3. QED BY <3>2 DEF PiSays
  <2>3. QED BY <2>1, <2>2
<1>5. PiSays(b, w)
  <2>1. b = [i \in 1..n |-> b[i]]
    BY <1>1
  <2>2. IsSeq(b) /\ Len(b) = n
    BY <2>1, FunctionIsSeq
  <2>3. ToSet(b) = {b[i] : i \in 1..Len(b)}
    BY <2>2, SeqFacts
  <2>4. \A i \in 1..n : b[i] = <<"toolCall", <<w, steps, i>>>>
    BY <1>1
  <2>5. \A i \in 1..n : b[i][1] = "toolCall" /\ b[i][2][1] = w
    BY <2>4
  <2>6. QED BY <2>2, <2>3, <2>5 DEF PiSays
<1>6. PICK d : d = (a \o s) \o b
  OBVIOUS
<1>7. PiSays(d, w)
  BY <1>3, <1>4, <1>5, <1>6, SaysMore
<1>8. QED BY <1>2, <1>6, <1>7

LEMMA AnswerSays ==
  ASSUME NEW w, NEW empty \in BOOLEAN, NEW content, content = AnswerOf(w, empty)
  PROVE  PiSays(content, w)
<1>1. CASE empty
  <2>1. content = <<>>
    BY <1>1 DEF AnswerOf
  <2>2. IsSeq(content) /\ ToSet(content) = {}
    BY <2>1, EmptyFacts
  <2>3. QED BY <2>2 DEF PiSays
<1>2. CASE ~empty
  <2>1. PICK a, b : a = <<"thinking", w>> /\ b = <<"text", w>> /\ content = <<a, b>>
    BY <1>2 DEF AnswerOf
  <2>2. content \in Seq({a, b}) /\ Len(content) = 2 /\ content[1] = a /\ content[2] = b
    BY <2>1
  <2>3. IsSeq(content)
    BY <2>2, TypedIsSeq
  <2>4. ToSet(content) = {content[k] : k \in 1..Len(content)}
    BY <2>3, SeqFacts
  <2>5. ASSUME NEW item \in ToSet(content) PROVE item = a \/ item = b
    BY <2>2, <2>4
  <2>6. a[1] = "thinking" /\ a[2] = w /\ b[1] = "text" /\ b[2] = w
    BY <2>1
  <2>7. QED BY <2>3, <2>5, <2>6 DEF PiSays
<1>3. QED BY <1>1, <1>2

LEMMA CallsAreOwn ==
  ASSUME PiState, AllAreOwn(view.entries), NEW w \in 1..MaxTurns, PiCallsTools(w)
  PROVE  AllAreOwn(view'.entries)
<1>1. PICK count, preamble, r :
        /\ count \in 1..MaxCalls /\ preamble \in BOOLEAN
        /\ CallsIn(w, count, RoundOf(w, Preamble(w, preamble), count), r)
  BY RoundIsSaid
<1>2. PICK v, u, n, k : v = view /\ u = view' /\ n = Len(session) /\ k = n + 1
  OBVIOUS
<1>3. /\ r.type = "message" /\ r.role = "assistant" /\ r.id = MessageId(k, w)
      /\ r.parent = harness[w].leaf /\ r.stopReason = "toolUse"
      /\ u = ReadPiRecord(v, r)
  BY <1>1, <1>2 DEF CallsIn, Writes, Note
<1>4. PiSays(r.content, w)
  <2>1. r.content = RoundOf(w, Preamble(w, preamble), count) /\ count \in Nat
    BY <1>1 DEF CallsIn
  <2>2. QED BY <1>1, <2>1, RoundSays
<1>5. u = ReadToolUse(v, r)
  BY <1>3 DEF ReadPiRecord
<1>6. /\ PiTree(v, n) /\ AllAreOwn(v.entries) /\ r.parent[3] = w
      /\ Known(v.platform, r.parent) \/ Known(v.process, r.parent)
  <2>1. harness[w].at = "prompting"
    BY DEF PiCallsTools, Pi
  <2>2. QED BY <1>2, <1>3, <2>1 DEF PiState, LeavesAreKnown
<1>7. AllAreOwn(u.entries)
  BY <1>3, <1>4, <1>5, <1>6, ToolUseIsOwn
<1>8. QED BY <1>2, <1>7

LEMMA EndIsOwn ==
  ASSUME HarnessInv, PiState, AllAreOwn(view.entries), NEW w \in 1..MaxTurns, PiToolEnds(w)
  PROVE  AllAreOwn(view'.entries)
<1>1. PICK call, r : call \in harness[w].open /\ ResultIn(w, call, r)
  BY ResultIsSaid
<1>2. PICK v, u, n : v = view /\ u = view' /\ n = Len(session)
  OBVIOUS
<1>3. /\ r.type = "message" /\ r.role = "toolResult" /\ r.parent = harness[w].leaf
      /\ r.call = call /\ u = ReadPiRecord(v, r)
  BY <1>1, <1>2 DEF ResultIn, Writes, Note
<1>4. u = ReadToolResult(v, r)
  BY <1>3 DEF ReadPiRecord
<1>5. call[1] = w
  BY <1>1 DEF HarnessInv
<1>6. PiTree(v, n) /\ AllAreOwn(v.entries) /\ r.parent[3] = w /\ Known(v.process, r.parent)
  <2>1. harness[w].at = "prompting"
    BY DEF PiToolEnds, Pi
  <2>2. QED BY <1>1, <1>2, <1>3, <2>1 DEF PiState, LeavesAreKnown, OpenCallsAreStarted
<1>7. AllAreOwn(u.entries)
  BY <1>3, <1>4, <1>5, <1>6, ResultIsOwn
<1>8. QED BY <1>2, <1>7

LEMMA AnswerIsOwn ==
  ASSUME PiState, AllAreOwn(view.entries), NEW w \in 1..MaxTurns, PiReplies(w)
  PROVE  AllAreOwn(view'.entries)
<1>1. PICK empty, r : empty \in BOOLEAN /\ AnswerIn(w, AnswerOf(w, empty), r)
  BY AnswerIsSaid
<1>2. PICK v, u, n, k : v = view /\ u = view' /\ n = Len(session) /\ k = n + 1
  OBVIOUS
<1>3. /\ r.type = "message" /\ r.role = "assistant" /\ r.id = MessageId(k, w)
      /\ r.parent = harness[w].leaf /\ r.stopReason = "stop"
      /\ u = ReadPiRecord(v, r)
  BY <1>1, <1>2 DEF AnswerIn, Writes, Note
<1>4. PiSays(r.content, w)
  <2>1. r.content = AnswerOf(w, empty)
    BY <1>1 DEF AnswerIn
  <2>2. QED BY <1>1, <2>1, AnswerSays
<1>5. u = ReadReply(v, r)
  BY <1>3 DEF ReadPiRecord
<1>6. /\ PiTree(v, n) /\ AllAreOwn(v.entries) /\ r.parent[3] = w
      /\ Known(v.platform, r.parent) \/ Known(v.process, r.parent)
  <2>1. harness[w].at = "prompting"
    BY DEF PiReplies, Pi
  <2>2. QED BY <1>2, <1>3, <2>1 DEF PiState, LeavesAreKnown
<1>7. AllAreOwn(u.entries)
  BY <1>3, <1>4, <1>5, <1>6, ReplyIsOwn
<1>8. QED BY <1>2, <1>7

LEMMA WriterKeepsOwn ==
  ASSUME HarnessInv, PiInv, ViewIsOwn, NEW w \in 1..MaxTurns,
         \/ PiOpensSession(w) \/ PiChangesSettings(w) \/ PiAcceptsPrompt(w)
         \/ PiCallsTools(w) \/ PiToolEnds(w) \/ PiReplies(w)
  PROVE  ViewIsOwn'
<1>1. Adapter("pi") /\ runtime' = runtime
  BY DEF PiOpensSession, PiChangesSettings, PiAcceptsPrompt, PiCallsTools, PiToolEnds, PiReplies,
         Pi, run
<1>2. PiState /\ AllAreOwn(view.entries)
  BY <1>1 DEF PiInv, ViewIsOwn
<1>3. SUFFICES AllAreOwn(view'.entries)
  BY <1>1 DEF ViewIsOwn
<1>4. CASE PiOpensSession(w)
  BY <1>2, <1>4 DEF PiOpensSession
<1>5. CASE PiChangesSettings(w)
  <2>1. PICK r : r.type = "model_change" /\ view' = ReadPiRecord(view, r)
    <3>1. PICK r : r = [type |-> "model_change", id |-> NextId(w)]
      OBVIOUS
    <3>2. view' = ReadPiRecord(view, r)
      BY <1>5, <3>1 DEF PiChangesSettings, Writes, Note
    <3>3. QED BY <3>1, <3>2
  <2>2. view' = view
    BY <2>1 DEF ReadPiRecord
  <2>3. QED BY <1>2, <2>2
<1>6. QED BY <1>2, <1>4, <1>5, PromptIsOwn, CallsAreOwn, EndIsOwn, AnswerIsOwn

LEMMA StepKeepsOwn ==
  ASSUME HarnessInv, PiInv, ViewIsOwn, [Next]_vars
  PROVE  ViewIsOwn'
<1>1. ASSUME UNCHANGED <<runtime, view>> PROVE ViewIsOwn'
  BY <1>1 DEF ViewIsOwn, Adapter
<1>2. CASE SubmitMessage
  <2>1. runtime' = runtime /\ view' = (IF recorded THEN view ELSE NothingRead)
    BY <1>2 DEF SubmitMessage
  <2>2. CASE recorded
    BY <1>1, <2>1, <2>2
  <2>3. CASE ~recorded
    <3>1. view'.entries = <<>>
      BY <2>1, <2>3, NothingIsShown
    <3>2. Len(view'.entries) = 0
      BY <3>1, EmptyIsTree
    <3>3. QED BY <3>2 DEF ViewIsOwn, AllAreOwn
  <2>4. QED BY <2>2, <2>3
<1>3. CASE \E w \in 1..MaxTurns :
             \/ PiOpensSession(w) \/ PiChangesSettings(w) \/ PiAcceptsPrompt(w)
             \/ PiCallsTools(w) \/ PiToolEnds(w) \/ PiReplies(w)
  BY <1>3, WriterKeepsOwn
<1>4. ASSUME NEW place, NEW next, NEW open, Claude(place, next, open) PROVE ViewIsOwn'
  BY <1>1, <1>4 DEF Claude
<1>5. CASE ClaudeStarts \/ ClaudeWrites \/ ClaudeCallsTool \/ ClaudeToolEnds \/ ClaudeExits
  BY <1>4, <1>5 DEF ClaudeStarts, ClaudeWrites, ClaudeCallsTool, ClaudeToolEnds, ClaudeExits,
                    ClaudeYields
<1>6. CASE WriteMockTranscript
  <2>1. runtime' = runtime /\ runtime.executor = "mock"
    BY <1>6 DEF WriteMockTranscript
  <2>2. runtime.adapter = "none"
    BY <2>1 DEF HarnessInv, Runtimes
  <2>3. QED BY <2>1, <2>2 DEF ViewIsOwn, Adapter
<1>7. CASE PiAdapterYields \/ AgentEnds \/ RunCompletes \/ RunStops \/ UNCHANGED vars
  BY <1>1, <1>7 DEF PiAdapterYields, AgentEnds, RunCompletes, RunStops, files, vars
<1>8. QED BY <1>2, <1>3, <1>5, <1>6, <1>7 DEF Next

(* However many harnesses write pi's file: an entry holds thoughts, tool    *)
(* calls and text of one turn, and unless it is a question it hangs off an  *)
(* earlier entry of that turn, so that the chain of parents leads from a    *)
(* reply to the question it answers.                                        *)
THEOREM RepliesAlwaysReachTheirQuestion == Spec => []RepliesReachTheirQuestion
<1>1. Init => ViewIsOwn
  <2>1. SUFFICES ASSUME Init PROVE ViewIsOwn
    OBVIOUS
  <2>2. view.entries = <<>>
    BY <2>1, NothingIsShown DEF Init
  <2>3. Len(view.entries) = 0
    BY <2>2, EmptyIsTree
  <2>4. QED BY <2>3 DEF ViewIsOwn, AllAreOwn
<1>2. HarnessInv /\ PiInv /\ ViewIsOwn /\ [Next]_vars => ViewIsOwn'
  BY StepKeepsOwn
<1>3. PiInv /\ ViewIsOwn => RepliesReachTheirQuestion
  <2>1. SUFFICES ASSUME PiInv, ViewIsOwn, Adapter("pi"),
                        NEW i \in 1..Len(PiEntries(view))
                 PROVE  LET s == PiEntries(view) IN
                        /\ \A k \in 1..Len(s[i].content) :
                             TurnsIn(s[i].content[k]) \subseteq {WriterOf(s[i])}
                        /\ s[i].type # "user" =>
                             \E j \in 1..(i - 1) : /\ s[j].id = s[i].parent
                                                   /\ WriterOf(s[j]) = WriterOf(s[i])
    BY DEF RepliesReachTheirQuestion
  <2>2. PICK s : s = view.entries
    OBVIOUS
  <2>3. PiEntries(view) = s
    BY <2>1, <2>2, AllIsSelected DEF PiInv
  <2>4. i \in 1..Len(s) /\ IsTranscript(s) /\ IsTree(s) /\ IsOwn(s[i])
    BY <2>1, <2>2, <2>3 DEF PiInv, PiState, PiTree, ViewIsOwn, AllAreOwn
  <2>5. ASSUME NEW k \in 1..Len(s[i].content)
        PROVE  TurnsIn(s[i].content[k]) \subseteq {WriterOf(s[i])}
    <3>1. PICK content : content = s[i].content
      OBVIOUS
    <3>2. IsSeq(content)
      BY <2>4, <3>1 DEF IsTranscript, IsEntry
    <3>3. ToSet(content) = {content[l] : l \in 1..Len(content)}
      BY <3>2, SeqFacts
    <3>4. QED BY <2>4, <2>5, <3>1, <3>3 DEF IsOwn, OfTurn
  <2>6. ASSUME s[i].type # "user"
        PROVE  \E j \in 1..(i - 1) : s[j].id = s[i].parent /\ WriterOf(s[j]) = WriterOf(s[i])
    <3>1. PICK j \in 1..(i - 1) : s[j].id = s[i].parent
      BY <2>4, <2>6 DEF IsTree
    <3>2. s[i].parent[2][3] = WriterOf(s[i])
      BY <2>4, <2>6 DEF IsOwn
    <3>3. QED BY <3>1, <3>2 DEF WriterOf
  <2>7. QED BY <2>3, <2>5, <2>6
<1>4. QED BY <1>1, <1>2, <1>3, HarnessInvariant, FileInvariant, PTL DEF Spec

-----------------------------------------------------------------------------
(* What the mock executor writes, over the runs.                             *)

\* The mock executor's entries: the prompt, then what it says it has done.
LEMMA ManagedEntryIsOfTurn ==
  ASSUME NEW v, IsSeq(v.entries), NEW t \in Nat, NEW id, NEW above, NEW type,
         type = "user" => Ordered(v.entries, t - 1),
         type # "user" => above # Null /\ Current(v.entries, t),
         NEW w, w = ReadPiRecord(v, [type |-> "managed_entry",
                                     entry |-> Entry(id, above, type, <<<<"text", <<t>>>>>>)])
  PROVE  Current(w.entries, t) /\ IsSeq(w.entries)
<1>1. PICK item, content : item = <<"text", <<t>>>> /\ content = <<item>>
  OBVIOUS
<1>2. IsSeq(content) /\ ToSet(content) = {item} /\ content[1] = item /\ Len(content) = 1
  BY <1>1, SingletonFacts
<1>3. item[1] = "text" /\ item[2] = <<t>>
  BY <1>1
<1>4. Only(content, {"text", "tool_call"}) = content
  <2>1. \A i \in 1..Len(content) : content[i][1] \in {"text", "tool_call"}
    BY <1>2, <1>3
  <2>2. QED BY <1>2, <2>1, OnlyOfAll
<1>5. OfTurn(content, t)
  <2>1. ToSet(<<t>>) = {t}
    BY SingletonFacts
  <2>2. TurnsIn(item) = {t}
    BY <1>3, <2>1 DEF TurnsIn
  <2>3. QED BY <1>2, <2>2 DEF OfTurn
<1>6. PICK s, u, e : s = v.entries /\ u = w.entries /\ e = Entry(id, above, type, content)
  OBVIOUS
<1>7. e.type = type /\ e.content = content /\ e.parent = above /\ e.id = id
  BY <1>6 DEF Entry
<1>8. w = ReadManagedEntry(v, e)
  BY <1>1, <1>6 DEF ReadPiRecord
<1>9. u = Append(s, e)
  BY <1>4, <1>6, <1>7, <1>8 DEF ReadManagedEntry, PiView
<1>10. IsAppended(u, s, e)
  BY <1>6, <1>9, AppendFacts
<1>11. Current(u, t)
  <2>1. CASE type = "user"
    <3>1. IsQuestion(e, t) /\ OfTurn(e.content, t)
      BY <1>2, <1>3, <1>5, <1>7, <2>1 DEF IsQuestion
    <3>2. IsSeq(s) /\ Ordered(s, t - 1)
      BY <1>6, <2>1
    <3>3. QED BY <1>10, <3>1, <3>2, QuestionIsAsked
  <2>2. CASE type # "user"
    <3>1. e.type # "user" /\ OfTurn(e.content, t)
      BY <1>5, <1>7, <2>2
    <3>2. IsSeq(s) /\ Current(s, t)
      BY <1>6, <2>2
    <3>3. QED BY <1>10, <3>1, <3>2, WorkIsDone
  <2>3. QED BY <2>1, <2>2
<1>12. QED BY <1>6, <1>10, <1>11 DEF IsAppended

LEMMA MockIsOfTurn ==
  ASSUME turn \in Nat, IsSeq(view.entries), Ordered(view.entries, turn - 1), WriteMockTranscript
  PROVE  Current(view'.entries, turn)
<1>1. PICK t, one, two, three, above : t = turn /\ one = UserId /\ two = ProcessId /\ three = FinalId
                                       /\ above = parent
  OBVIOUS
<1>2. one # Null /\ two # Null
  BY <1>1 DEF UserId, ProcessId, Null
<1>3. PICK v, a, b, c : /\ v = view
                        /\ a = ReadPiRecord(view, MockEntries[1])
                        /\ b = ReadPiRecord(a, MockEntries[2])
                        /\ c = ReadPiRecord(b, MockEntries[3])
  OBVIOUS
<1>4. view' = c
  BY <1>3 DEF WriteMockTranscript
<1>5. /\ a = ReadPiRecord(v, [type |-> "managed_entry",
                              entry |-> Entry(one, above, "user", <<<<"text", <<t>>>>>>)])
      /\ b = ReadPiRecord(a, [type |-> "managed_entry",
                              entry |-> Entry(two, one, "process", <<<<"text", <<t>>>>>>)])
      /\ c = ReadPiRecord(b, [type |-> "managed_entry",
                              entry |-> Entry(three, two, "assistant", <<<<"text", <<t>>>>>>)])
  BY <1>1, <1>3 DEF MockEntries, ManagedEntry
<1>6. t \in Nat /\ IsSeq(v.entries) /\ Ordered(v.entries, t - 1)
  BY <1>1, <1>3
<1>7. Current(a.entries, t) /\ IsSeq(a.entries)
  BY <1>5, <1>6, ManagedEntryIsOfTurn
<1>8. Current(b.entries, t) /\ IsSeq(b.entries)
  BY <1>2, <1>5, <1>6, <1>7, ManagedEntryIsOfTurn
<1>9. Current(c.entries, t)
  BY <1>2, <1>5, <1>6, <1>8, ManagedEntryIsOfTurn
<1>10. QED BY <1>1, <1>4, <1>9

MockTurns ==
  runtime.executor = "mock" =>
    /\ Ordered(view.entries, turn)
    /\ pc = "running" => Ordered(view.entries, turn - 1)

LEMMA SubmissionKeepsTurns ==
  ASSUME turn \in Nat, MockTurns, SubmitMessage
  PROVE  MockTurns'
<1>1. SUFFICES ASSUME runtime.executor = "mock"
               PROVE  Ordered(view'.entries, turn') /\ Ordered(view'.entries, turn' - 1)
  BY DEF MockTurns, SubmitMessage
<1>2. turn' = turn + 1 /\ view' = (IF recorded THEN view ELSE NothingRead)
  BY DEF SubmitMessage
<1>3. PICK s, late : s = view'.entries /\ late = turn + 1
  OBVIOUS
<1>4. Ordered(s, turn)
  <2>1. CASE recorded
    BY <1>1, <1>2, <1>3, <2>1 DEF MockTurns
  <2>2. CASE ~recorded
    BY <1>2, <1>3, <2>2, NothingIsShown, NothingIsOrdered
  <2>3. QED BY <2>1, <2>2
<1>5. Ordered(s, late)
  BY <1>3, <1>4, TurnsPass
<1>6. late - 1 = turn
  BY <1>3
<1>7. QED BY <1>2, <1>3, <1>4, <1>5, <1>6

LEMMA StepKeepsTurns ==
  ASSUME HarnessInv, PiInv, HostInv, MockTurns, [Next]_vars
  PROVE  MockTurns'
<1>1. turn \in Nat /\ IsSeq(view.entries)
  BY DEF HostInv, PiInv, AllIsShown, IsTranscript
<1>2. ASSUME UNCHANGED <<runtime, turn, view>>, pc' = "running" => pc = "running"
      PROVE  MockTurns'
  BY <1>2 DEF MockTurns
<1>3. ASSUME NEW adapter \in {"pi", "claude-code"}, Adapter(adapter), runtime' = runtime
      PROVE  MockTurns'
  <2>1. runtime.executor # "mock"
    BY <1>3 DEF HarnessInv, Runtimes, Adapter
  <2>2. QED BY <1>3, <2>1 DEF MockTurns
<1>4. CASE SubmitMessage
  BY <1>1, <1>4, SubmissionKeepsTurns
<1>5. CASE \E w \in 1..MaxTurns :
             \/ PiOpensSession(w) \/ PiChangesSettings(w) \/ PiAcceptsPrompt(w)
             \/ PiCallsTools(w) \/ PiToolEnds(w) \/ PiReplies(w)
  <2>1. Adapter("pi") /\ runtime' = runtime
    BY <1>5 DEF PiOpensSession, PiChangesSettings, PiAcceptsPrompt, PiCallsTools, PiToolEnds,
                PiReplies, Pi, run
  <2>2. QED BY <1>3, <2>1
<1>6. ASSUME NEW place, NEW next, NEW open, Claude(place, next, open) PROVE MockTurns'
  BY <1>3, <1>6 DEF Claude
<1>7. CASE ClaudeStarts \/ ClaudeWrites \/ ClaudeCallsTool \/ ClaudeToolEnds \/ ClaudeExits
  BY <1>6, <1>7 DEF ClaudeStarts, ClaudeWrites, ClaudeCallsTool, ClaudeToolEnds, ClaudeExits,
                    ClaudeYields
<1>8. CASE WriteMockTranscript
  <2>1. /\ UNCHANGED <<runtime, turn>> /\ pc = "running" /\ pc' = "done"
        /\ runtime.executor = "mock"
    BY <1>8 DEF WriteMockTranscript, At
  <2>2. PICK s : s = view'.entries
    OBVIOUS
  <2>3. Current(s, turn)
    BY <1>1, <1>8, <2>1, <2>2, MockIsOfTurn DEF MockTurns
  <2>4. Ordered(s, turn)
    BY <1>1, <2>3, TurnsPass
  <2>5. QED BY <2>1, <2>2, <2>4 DEF MockTurns
<1>9. CASE PiAdapterYields \/ AgentEnds \/ RunCompletes \/ RunStops \/ UNCHANGED vars
  BY <1>2, <1>9 DEF PiAdapterYields, AgentEnds, RunCompletes, RunStops, files, vars
<1>10. QED BY <1>4, <1>5, <1>7, <1>8, <1>9 DEF Next

(* In the host's copy and in what the mock executor writes, whatever        *)
(* stopped the runs and wherever: the questions come in the order they were *)
(* asked, and every thought, tool call and reply after a question belongs   *)
(* to it.                                                                   *)
THEOREM TurnOrderIsAlwaysKept == Spec => []TurnOrderIsKept
<1>1. Init => MockTurns
  <2>1. SUFFICES ASSUME Init PROVE MockTurns
    OBVIOUS
  <2>2. view.entries = <<>> /\ pc = "idle"
    BY <2>1, NothingIsShown DEF Init
  <2>3. QED BY <2>2, NothingIsOrdered DEF MockTurns
<1>2. HarnessInv /\ PiInv /\ HostInv /\ MockTurns /\ [Next]_vars => MockTurns'
  BY StepKeepsTurns
<1>3. PiInv /\ HostInv /\ MockTurns => TurnOrderIsKept
  <2>1. SUFFICES ASSUME PiInv, HostInv, MockTurns PROVE TurnOrderIsKept
    OBVIOUS
  <2>2. ASSUME runtime.executor = "mock" PROVE InTurnOrder(PiEntries(view))
    <3>1. PICK s : s = view.entries
      OBVIOUS
    <3>2. PiEntries(view) = s
      BY <2>1, <3>1, AllIsSelected DEF PiInv
    <3>3. IsTranscript(s) /\ Ordered(s, turn)
      BY <2>1, <2>2, <3>1 DEF PiInv, AllIsShown, MockTurns
    <3>4. QED BY <3>2, <3>3, OrderedIsInOrder
  <2>3. InTurnOrder(HostEntries(host))
    <3>1. PICK s : s = HostEntries(host)
      OBVIOUS
    <3>2. IsTranscript(s) /\ Ordered(s, turn)
      BY <2>1, <3>1, ViewIsShown DEF HostInv
    <3>3. QED BY <3>1, <3>2, OrderedIsInOrder
  <2>4. QED BY <2>2, <2>3 DEF TurnOrderIsKept
<1>4. QED BY <1>1, <1>2, <1>3, HarnessInvariant, FileInvariant, HostInvariant, PTL DEF Spec

=============================================================================
