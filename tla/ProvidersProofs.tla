--------------------------- MODULE ProvidersProofs ---------------------------
(***************************************************************************)
(* Proof that a call of either provider implements TextStream, for every   *)
(* number of pieces and of lines without meaning, wherever the provider    *)
(* hangs up, the connection breaks or the reader leaves; and that it is    *)
(* sent the whole conversation, for every conversation.                    *)
(*                                                                         *)
(* The invariant numbers the lines on the wire: before each of them the    *)
(* reader, with what is in hand, will have the pieces up to some number.   *)
(***************************************************************************)
EXTENDS Providers, WellFoundedInduction, TLAPS

LEMMA LeastOf ==
  ASSUME NEW S, S \subseteq Nat, S # {}
  PROVE  \E m \in S : \A k \in S : m <= k
<1>. DEFINE less == OpToRel(<, Nat)
<1>1. IsWellFoundedOn(less, Nat)
  BY NatLessThanWellFounded
<1>2. \A a, b \in Nat : a < b => <<a, b>> \in less
  BY DEF OpToRel
<1>. HIDE DEF less
<1>3. PICK m \in S : \A k \in S : ~(<<k, m>> \in less)
  BY <1>1, WFMin
<1>4. \A k \in S : k \in Nat /\ m \in Nat /\ ~(k < m)
  BY <1>2, <1>3
<1>. QED
  BY <1>4

(* A set of numbers that has 1, and with each number the next, has all the  *)
(* numbers from 1 on.                                                       *)
LEMMA Induction ==
  ASSUME NEW S, 1 \in S, \A n \in Nat \ {0} : n \in S => n + 1 \in S
  PROVE  Nat \ {0} \subseteq S
<1>. DEFINE missing == (Nat \ {0}) \ S
<1>. SUFFICES ASSUME missing # {} PROVE FALSE
  OBVIOUS
<1>1. PICK m \in missing : \A k \in missing : m <= k
  BY LeastOf
<1>2. m # 1 /\ m - 1 \in Nat \ {0}
  BY <1>1
<1>3. m - 1 \in S
  BY <1>1, <1>2
<1>. QED
  BY <1>1, <1>2, <1>3

-----------------------------------------------------------------------------
(* FlattenSeq *)

(* What FlattenSeq's recursion has after each of the first n sequences. *)
Flattens(g, n, q) ==
    g = [i \in 1..n |-> IF i = 1 THEN q[i] ELSE g[i - 1] \o q[i]]

LEMMA FlattensExists ==
  ASSUME NEW q, NEW n \in Nat \ {0}
  PROVE  \E g : Flattens(g, n, q)
<1>. DEFINE S == {k \in Nat \ {0} : \E g : Flattens(g, k, q)}
<1>1. 1 \in S
  <2>1. Flattens([i \in 1..1 |-> q[i]], 1, q)
    BY DEF Flattens
  <2>. QED
    BY <2>1
<1>2. ASSUME NEW k \in Nat \ {0}, k \in S PROVE k + 1 \in S
  <2>1. PICK h : Flattens(h, k, q)
    BY <1>2
  <2>. DEFINE g == [i \in 1..k + 1 |-> IF i = k + 1 THEN h[k] \o q[i] ELSE h[i]]
  <2>2. \A i \in 1..k : h[i] = IF i = 1 THEN q[i] ELSE h[i - 1] \o q[i]
    BY <2>1 DEF Flattens
  <2>3. \A i \in 1..k + 1 : g[i] = IF i = 1 THEN q[i] ELSE g[i - 1] \o q[i]
    BY <2>2
  <2>4. Flattens(g, k + 1, q)
    BY <2>3 DEF Flattens
  <2>. QED
    BY <2>4
<1>. HIDE DEF S
<1>3. Nat \ {0} \subseteq S
  BY <1>1, <1>2, Induction
<1>. QED
  BY <1>3 DEF S

(* It does not depend on what comes later, and is a sequence of numbers. *)
LEMMA FlattensAgree ==
  ASSUME NEW q \in Seq(Seq(Nat)), NEW r \in Seq(Seq(Nat)), NEW n \in Nat \ {0}, NEW m \in Nat \ {0},
         n <= m, n <= Len(q), \A i \in 1..n : q[i] = r[i],
         NEW g, Flattens(g, n, q), NEW h, Flattens(h, m, r)
  PROVE  g[n] = h[n] /\ g[n] \in Seq(Nat)
<1>. DEFINE S == {k \in Nat \ {0} : k <= n => g[k] = h[k] /\ g[k] \in Seq(Nat)}
<1>1. \A k \in 1..n : k \in 1..m /\ q[k] \in Seq(Nat) /\ q[k] = r[k]
  OBVIOUS
<1>2. \A k \in 1..n : g[k] = IF k = 1 THEN q[k] ELSE g[k - 1] \o q[k]
  BY DEF Flattens
<1>3. \A k \in 1..m : h[k] = IF k = 1 THEN r[k] ELSE h[k - 1] \o r[k]
  BY DEF Flattens
<1>4. 1 \in S
  <2>1. 1 \in 1..n /\ 1 \in 1..m
    OBVIOUS
  <2>2. g[1] = q[1] /\ h[1] = r[1]
    BY <2>1, <1>2, <1>3
  <2>. QED
    BY <2>1, <2>2, <1>1
<1>5. ASSUME NEW k \in Nat \ {0}, k \in S PROVE k + 1 \in S
  <2>. SUFFICES ASSUME k + 1 <= n
                PROVE  g[k + 1] = h[k + 1] /\ g[k + 1] \in Seq(Nat)
    OBVIOUS
  <2>1. k + 1 \in 1..n /\ k + 1 # 1 /\ (k + 1) - 1 = k
    OBVIOUS
  <2>2. g[k + 1] = g[k] \o q[k + 1] /\ h[k + 1] = h[k] \o r[k + 1]
    BY <2>1, <1>1, <1>2, <1>3
  <2>3. g[k] = h[k] /\ g[k] \in Seq(Nat) /\ q[k + 1] \in Seq(Nat) /\ q[k + 1] = r[k + 1]
    BY <2>1, <1>1, <1>5
  <2>. QED
    BY <2>2, <2>3
<1>. HIDE DEF S
<1>6. Nat \ {0} \subseteq S
  BY <1>4, <1>5, Induction
<1>. QED
  BY <1>6 DEF S

LEMMA FlattenIs ==
  ASSUME NEW q \in Seq(Seq(Nat)), q # <<>>
  PROVE  \E g : Flattens(g, Len(q), q) /\ FlattenSeq(q) = g[Len(q)]
<1>. DEFINE g == CHOOSE h : Flattens(h, Len(q), q)
<1>1. Len(q) \in Nat \ {0}
  OBVIOUS
<1>2. FlattenSeq(q) = g[Len(q)]
  BY <1>1 DEF FlattenSeq, Flattens
<1>3. Flattens(g, Len(q), q)
  BY <1>1, FlattensExists
<1>. QED
  BY <1>2, <1>3

LEMMA FlattenNothing == FlattenSeq(<<>>) = <<>>
BY DEF FlattenSeq

(* One more sequence is appended to what the others flatten to. *)
LEMMA FlattenAppend ==
  ASSUME NEW q \in Seq(Seq(Nat)), NEW t \in Seq(Nat)
  PROVE  /\ FlattenSeq(q) \in Seq(Nat)
         /\ FlattenSeq(Append(q, t)) = FlattenSeq(q) \o t
<1>. DEFINE r == Append(q, t)
            n == Len(q)
<1>1. /\ r \in Seq(Seq(Nat)) /\ Len(r) = n + 1 /\ r # <<>> /\ n \in Nat
      /\ r[n + 1] = t /\ \A i \in 1..n : r[i] = q[i]
  <2>1. n \in Nat /\ r \in Seq(Seq(Nat)) /\ Len(r) = n + 1
    OBVIOUS
  <2>2. r[n + 1] = t /\ \A i \in 1..n : r[i] = q[i]
    OBVIOUS
  <2>3. r # <<>>
    BY <2>1
  <2>. QED
    BY <2>1, <2>2, <2>3
<1>0. r = Append(q, t)
  OBVIOUS
<1>. HIDE DEF r
<1>2. PICK h : Flattens(h, n + 1, r) /\ FlattenSeq(r) = h[n + 1]
  BY <1>1, FlattenIs
<1>3. \A i \in 1..n + 1 : h[i] = IF i = 1 THEN r[i] ELSE h[i - 1] \o r[i]
  BY <1>2 DEF Flattens
<1>4. CASE q = <<>>
  <2>1. n = 0 /\ FlattenSeq(r) = t
    BY <1>1, <1>2, <1>3, <1>4
  <2>2. <<>> \o t = t
    OBVIOUS
  <2>3. FlattenSeq(q) = <<>>
    BY <1>4, FlattenNothing
  <2>4. <<>> \in Seq(Nat)
    OBVIOUS
  <2>5. FlattenSeq(Append(q, t)) = t
    BY <1>0, <2>1, Zenon
  <2>. QED
    BY <2>2, <2>3, <2>4, <2>5, Zenon
<1>5. CASE q # <<>>
  <2>1. n \in Nat \ {0} /\ n + 1 \in Nat \ {0}
    BY <1>5
  <2>2. PICK g : Flattens(g, n, q) /\ FlattenSeq(q) = g[n]
    BY <1>5, FlattenIs
  <2>6. n <= n + 1 /\ n <= Len(q) /\ \A i \in 1..n : q[i] = r[i]
    BY <1>1, <2>1
  <2>7. PICK m \in Nat \ {0} : m = n + 1
    BY <2>1
  <2>8. Flattens(h, m, r) /\ n <= m
    BY <1>2, <2>6, <2>7
  <2>3. g[n] = h[n] /\ g[n] \in Seq(Nat)
    BY <1>1, <2>1, <2>2, <2>6, <2>8, FlattensAgree
  <2>4. n + 1 \in 1..n + 1 /\ n + 1 # 1 /\ (n + 1) - 1 = n
    BY <2>1
  <2>5. h[n + 1] = h[n] \o t
    BY <1>1, <1>3, <2>4
  <2>. QED
    BY <1>0, <1>2, <2>2, <2>3, <2>5
<1>. QED
  BY <1>4, <1>5

-----------------------------------------------------------------------------
(* The invariant *)

Payloads(k) ==
    IF k = "openai"
      THEN [type : {"chunk"}, text : Seq(Nat), stop : BOOLEAN] \cup [type : {"done", "other"}]
      ELSE [type : {"delta"}, text : Seq(Nat)] \cup [type : {"message"}, usage : BOOLEAN]
             \cup [type : {"other"}]

Names == {"content_block_delta", "message_delta", "message_stop", "ping", "error"}

Lines(k) ==
    {Blank} \cup [tag : {"event"}, name : Names] \cup [tag : {"data"}, payload : Payloads(k)]

Chunks == [delta : Seq(Nat), finished : BOOLEAN, usage : BOOLEAN, error : BOOLEAN]

SentEvents == [text : Seq(Nat), mark : {"none", "final", "error", "done"}, usage : BOOLEAN]

TypeInv ==
    /\ kind \in {"openai", "anthropic"}
    /\ stage \in {"idle", "posted", "reading", "closing", "done", "failed", "gone"}
    /\ link \in {"none", "open", "closed", "broken"}
    /\ wire \in Seq(Lines(kind))
    /\ chunk = <<>> \/ (stage = "reading" /\ \E c \in Chunks : chunk = <<c>>)
    /\ sent \in Seq(SentEvents)
    /\ published \in Nat
    /\ said \in Seq(1..MaxTexts) /\ whole \in BOOLEAN

(* What a line carries of the text, and whether it ends the answer. *)
TextOf(ln) ==
    IF ln.tag = "data" /\ ln.payload.type \in {"chunk", "delta"} THEN ln.payload.text ELSE <<>>

Final(ln) ==
    /\ ln.tag = "data"
    /\ \/ ln.payload.type \in {"done", "message"}
       \/ ln.payload.type = "chunk" /\ ln.payload.stop

NumbersTo(n) == [i \in 1..n |-> i]

(* A text that takes its reader from a pieces to b. *)
Carries(text, a, b) ==
    \/ text = <<>> /\ b = a
    \/ text = <<b>> /\ b = a + 1

(* The lines take their reader from at[0] pieces to at[Len(lines)], and if  *)
(* one of them says that the answer ends, then it has ended there.          *)
Leads(lines, at, ended, total) ==
    /\ \A i \in 1..Len(lines) :
          /\ Carries(TextOf(lines[i]), at[i - 1], at[i])
          /\ Final(lines[i]) => ended /\ at[i] = total
    /\ \A i \in 0..Len(lines) : at[i] \in Nat /\ at[i] <= total

(* The chunk in hand comes before the lines on the wire. *)
Hands(n) ==
    IF chunk = <<>> THEN n = Len(Got)
    ELSE Carries(chunk[1].delta, Len(Got), n) /\ (chunk[1].finished => whole /\ n = Len(said))

(* The lines of a live connection lead up to all that has been said. *)
Numbered(at) ==
    /\ Leads(wire, at, whole, Len(said))
    /\ Hands(at[0])
    /\ link = "open" => at[Len(wire)] = Len(said)

TextInv ==
    /\ said = NumbersTo(Len(said)) /\ Got = NumbersTo(Len(Got))
    /\ \E at : Numbered(at)

(* Anthropic names each payload in the line before it, which is what its    *)
(* parser goes by.                                                          *)
Speaks(name, payload) ==
    CASE payload.type = "delta" -> name = "content_block_delta"
      [] payload.type = "message" -> name = "message_delta"
      [] OTHER -> name \notin {"content_block_delta", "message_delta"}

Follows(lines, before, i) ==
    IF i = 1 THEN Speaks(before, lines[1].payload)
             ELSE lines[i - 1].tag = "event" /\ Speaks(lines[i - 1].name, lines[i].payload)

EventsInv ==
    kind = "anthropic" =>
        \A i \in 1..Len(wire) : wire[i].tag = "data" => Follows(wire, event, i)

Unstarted == link = "none" /\ wire = <<>> /\ chunk = <<>> /\ sent = <<>> /\ said = <<>> /\ ~whole

StageInv ==
    /\ stage \in {"idle", "posted"} => Unstarted
    /\ stage = "reading" => Marks \subseteq {"none"}

Inv == TypeInv /\ TextInv /\ EventsInv /\ StageInv

-----------------------------------------------------------------------------
(* What groups of lines lead to *)

(* Lines that may follow any others of their provider, and take a reader    *)
(* who has a pieces to b.                                                   *)
Group(lines, a, b, ended) ==
    /\ lines \in Seq(Lines(kind))
    /\ \E at : Leads(lines, at, ended, b) /\ at[0] = a /\ at[Len(lines)] = b
    /\ kind = "anthropic" =>
          \A i \in 1..Len(lines) :
             lines[i].tag = "data" =>
                i > 1 /\ lines[i - 1].tag = "event" /\ Speaks(lines[i - 1].name, lines[i].payload)

LEMMA NothingGroups ==
  ASSUME NEW a \in Nat, NEW ended \in BOOLEAN
  PROVE  Group(<<>>, a, a, ended)
<1>1. Leads(<<>>, [i \in 0..0 |-> a], ended, a)
  BY DEF Leads
<1>. QED
  BY <1>1 DEF Group

LEMMA BlankGroups ==
  ASSUME NEW a \in Nat, NEW ended \in BOOLEAN
  PROVE  Group(<<Blank>>, a, a, ended)
<1>. DEFINE at == [i \in 0..1 |-> a]
<1>1. TextOf(Blank) = <<>> /\ ~Final(Blank) /\ Blank.tag = "blank" /\ Blank \in Lines(kind)
  BY DEF Blank, TextOf, Final, Lines
<1>2. Leads(<<Blank>>, at, ended, a)
  BY <1>1 DEF Leads, Carries
<1>3. at[0] = a /\ at[Len(<<Blank>>)] = a
  OBVIOUS
<1>. HIDE DEF at
<1>4. <<Blank>> \in Seq(Lines(kind)) /\ \A i \in 1..Len(<<Blank>>) : <<Blank>>[i].tag # "data"
  BY <1>1
<1>. QED
  BY <1>2, <1>3, <1>4 DEF Group

(* A payload, with the blank line after it. *)
LEMMA DataGroups ==
  ASSUME kind = "openai", NEW payload \in Payloads("openai"), NEW a \in Nat, NEW b \in Nat, a <= b,
         NEW ended \in BOOLEAN,
         Carries(TextOf(Data(payload)), a, b), Final(Data(payload)) => ended
  PROVE  /\ Group(<<Data(payload)>>, a, b, ended)
         /\ Group(<<Data(payload), Blank>>, a, b, ended)
<1>. DEFINE d == Data(payload)
            at == [i \in 0..2 |-> IF i = 0 THEN a ELSE b]
<1>1. TextOf(Blank) = <<>> /\ ~Final(Blank) /\ Blank \in Lines(kind)
  BY DEF Blank, TextOf, Final, Lines
<1>2. d \in Lines(kind)
  BY DEF Data, Lines, Names
<1>. HIDE DEF d
<1>3. Leads(<<d>>, at, ended, b) /\ Leads(<<d, Blank>>, at, ended, b)
  BY <1>1 DEF Leads, Carries, d
<1>4. at[0] = a /\ at[Len(<<d>>)] = b /\ at[Len(<<d, Blank>>)] = b
  OBVIOUS
<1>. HIDE DEF at
<1>5. <<d>> \in Seq(Lines(kind)) /\ <<d, Blank>> \in Seq(Lines(kind))
  BY <1>1, <1>2
<1>6. Group(<<d>>, a, b, ended) /\ Group(<<d, Blank>>, a, b, ended)
  BY <1>3, <1>4, <1>5 DEF Group
<1>. QED
  BY <1>6 DEF d

LEMMA NamedGroups ==
  ASSUME kind = "anthropic", NEW name \in Names, NEW payload \in Payloads("anthropic"),
         NEW a \in Nat, NEW b \in Nat, a <= b, NEW ended \in BOOLEAN, Speaks(name, payload),
         Carries(TextOf(Data(payload)), a, b), Final(Data(payload)) => ended
  PROVE  Group(Named(name, payload), a, b, ended)
<1>. DEFINE d == Data(payload)
            e == [tag |-> "event", name |-> name]
            at == [i \in 0..3 |-> IF i <= 1 THEN a ELSE b]
            lines == <<e, d, Blank>>
<1>1. TextOf(Blank) = <<>> /\ ~Final(Blank) /\ Blank \in Lines(kind) /\ Blank.tag = "blank"
  BY DEF Blank, TextOf, Final, Lines
<1>2. d \in Lines(kind) /\ d.tag = "data" /\ d.payload = payload
  BY DEF Data, Lines, Names
<1>3. TextOf(e) = <<>> /\ ~Final(e) /\ e \in Lines(kind) /\ e.tag = "event" /\ e.name = name
  BY DEF TextOf, Final, Lines, Names
<1>4. Carries(TextOf(d), a, b) /\ (Final(d) => ended)
  OBVIOUS
<1>. HIDE DEF d, e
<1>5. Leads(lines, at, ended, b)
  BY <1>1, <1>3, <1>4 DEF Leads, Carries
<1>6. at[0] = a /\ at[Len(lines)] = b
  OBVIOUS
<1>7. lines \in Seq(Lines(kind))
  BY <1>1, <1>2, <1>3
<1>8. \A i \in 1..Len(lines) :
         lines[i].tag = "data" =>
            i > 1 /\ lines[i - 1].tag = "event" /\ Speaks(lines[i - 1].name, lines[i].payload)
  BY <1>1, <1>2, <1>3
<1>. HIDE DEF at, lines
<1>9. Group(lines, a, b, ended)
  BY <1>5, <1>6, <1>7, <1>8 DEF Group
<1>. QED
  BY <1>9 DEF Named, lines, d, e

(* What the provider may say. *)
LEMMA PieceGroups ==
  ASSUME kind \in {"openai", "anthropic"}, NEW text \in Seq(Nat), NEW stop \in BOOLEAN,
         kind = "anthropic" => ~stop,
         NEW a \in Nat, NEW b \in Nat, a <= b, Carries(text, a, b),
         NEW ended \in BOOLEAN, stop => ended
  PROVE  Group(Piece(text, stop), a, b, ended)
<1>1. CASE kind = "openai"
  <2>. DEFINE payload == [type |-> "chunk", text |-> text, stop |-> stop]
  <2>1. payload \in Payloads("openai")
    BY DEF Payloads
  <2>2. TextOf(Data(payload)) = text /\ (Final(Data(payload)) <=> stop)
    BY DEF TextOf, Final, Data
  <2>. HIDE DEF payload
  <2>3. Group(<<Data(payload), Blank>>, a, b, ended)
    BY <1>1, <2>1, <2>2, DataGroups
  <2>. QED
    BY <1>1, <2>3 DEF Piece, payload
<1>2. CASE kind = "anthropic"
  <2>. DEFINE payload == [type |-> "delta", text |-> text]
  <2>1. payload \in Payloads("anthropic") /\ Speaks("content_block_delta", payload)
    BY DEF Payloads, Speaks
  <2>2. TextOf(Data(payload)) = text /\ ~Final(Data(payload))
    BY DEF TextOf, Final, Data
  <2>. HIDE DEF payload
  <2>3. Group(Named("content_block_delta", payload), a, b, ended)
    BY <1>2, <2>1, <2>2, NamedGroups DEF Names
  <2>. QED
    BY <1>2, <2>3 DEF Piece, payload
<1>. QED
  BY <1>1, <1>2

LEMMA FinalGroups ==
  ASSUME kind \in {"openai", "anthropic"}, NEW usage \in BOOLEAN, NEW a \in Nat,
         NEW ended \in BOOLEAN, ended
  PROVE  Group(FinalLines(usage), a, a, ended)
<1>. PICK b \in Nat : b = a
  OBVIOUS
<1>1. CASE kind = "openai"
  <2>1. PICK stop \in BOOLEAN : stop = TRUE
    OBVIOUS
  <2>2. Carries(<<>>, a, b) /\ a <= b /\ <<>> \in Seq(Nat)
    BY DEF Carries
  <2>3. Group(Piece(<<>>, stop), a, b, ended)
    BY <1>1, <2>2, PieceGroups
  <2>. QED
    BY <1>1, <2>1, <2>3 DEF FinalLines
<1>2. CASE kind = "anthropic"
  <2>. DEFINE payload == [type |-> "message", usage |-> usage]
  <2>1. payload \in Payloads("anthropic") /\ Speaks("message_delta", payload)
    BY DEF Payloads, Speaks
  <2>2. Carries(TextOf(Data(payload)), a, b)
    BY DEF TextOf, Data, Carries
  <2>3. "message_delta" \in Names /\ a <= b
    BY DEF Names
  <2>. HIDE DEF payload
  <2>4. Group(Named("message_delta", payload), a, b, ended)
    BY <1>2, <2>1, <2>2, <2>3, NamedGroups
  <2>. QED
    BY <1>2, <2>4 DEF FinalLines, payload
<1>. QED
  BY <1>1, <1>2

(* A payload of another type says nothing, and under another name. *)
LEMMA OtherGroups ==
  ASSUME kind \in {"openai", "anthropic"}, NEW a \in Nat, NEW ended \in BOOLEAN
  PROVE  /\ kind = "openai" => Group(<<Data([type |-> "other"])>>, a, a, ended)
         /\ kind = "anthropic" =>
               \A name \in {"ping", "error", "message_stop"} :
                  Group(Named(name, [type |-> "other"]), a, a, ended)
<1>. DEFINE payload == [type |-> "other"]
<1>. PICK b \in Nat : b = a
  OBVIOUS
<1>1. payload \in Payloads("openai") /\ payload \in Payloads("anthropic")
  BY DEF Payloads
<1>2. Carries(TextOf(Data(payload)), a, b) /\ ~Final(Data(payload)) /\ a <= b
  BY DEF TextOf, Final, Data, Carries
<1>3. \A name \in {"ping", "error", "message_stop"} : Speaks(name, payload)
  BY DEF Speaks
<1>. HIDE DEF payload
<1>4. CASE kind = "openai"
  <2>1. Group(<<Data(payload)>>, a, b, ended)
    BY <1>1, <1>2, <1>4, DataGroups
  <2>. QED
    BY <1>4, <2>1 DEF payload
<1>5. CASE kind = "anthropic"
  <2>. SUFFICES ASSUME NEW name \in {"ping", "error", "message_stop"}
                PROVE  Group(Named(name, payload), a, b, ended)
    BY <1>5 DEF payload
  <2>1. name \in Names /\ Speaks(name, payload)
    BY <1>3 DEF Names
  <2>. QED
    BY <1>1, <1>2, <1>5, <2>1, NamedGroups
<1>. QED
  BY <1>4, <1>5

LEMMA LastGroups ==
  ASSUME kind \in {"openai", "anthropic"}, NEW a \in Nat, NEW ended \in BOOLEAN, ended
  PROVE  Group(LastLines, a, a, ended)
<1>. PICK b \in Nat : b = a
  OBVIOUS
<1>1. CASE kind = "openai"
  <2>. DEFINE payload == [type |-> "done"]
  <2>1. payload \in Payloads("openai")
    BY DEF Payloads
  <2>2. Carries(TextOf(Data(payload)), a, b) /\ a <= b
    BY DEF TextOf, Data, Carries
  <2>. HIDE DEF payload
  <2>3. Group(<<Data(payload)>>, a, b, ended)
    BY <1>1, <2>1, <2>2, DataGroups
  <2>. QED
    BY <1>1, <2>3 DEF LastLines, payload
<1>2. CASE kind = "anthropic"
  BY <1>2, OtherGroups DEF LastLines
<1>. QED
  BY <1>1, <1>2

LEMMA NoiseGroups ==
  ASSUME kind \in {"openai", "anthropic"}, NEW lines \in NoiseLines, NEW a \in Nat,
         NEW ended \in BOOLEAN
  PROVE  Group(lines, a, a, ended)
<1>. PICK b \in Nat : b = a
  OBVIOUS
<1>1. PICK stop \in BOOLEAN : stop = FALSE
  OBVIOUS
<1>2. Carries(<<>>, a, b) /\ a <= b /\ <<>> \in Seq(Nat)
  BY DEF Carries
<1>3. Group(Piece(<<>>, stop), a, b, ended)
  BY <1>1, <1>2, PieceGroups
<1>4. Group(Piece(<<>>, FALSE), a, a, ended)
  BY <1>1, <1>3
<1>. QED
  BY <1>4, BlankGroups, OtherGroups DEF NoiseLines

-----------------------------------------------------------------------------
(* What the reader has *)

LEMMA GotTyped ==
  ASSUME sent \in Seq(SentEvents)
  PROVE  /\ [i \in DOMAIN sent |-> sent[i].text] \in Seq(Seq(Nat))
         /\ Got \in Seq(Nat)
<1>. DEFINE q == [i \in DOMAIN sent |-> sent[i].text]
<1>1. q \in Seq(Seq(Nat))
  <2>1. DOMAIN sent = 1..Len(sent) /\ Len(sent) \in Nat
    OBVIOUS
  <2>2. \A i \in 1..Len(sent) : sent[i] \in SentEvents
    OBVIOUS
  <2>3. \A e \in SentEvents : e.text \in Seq(Nat)
    BY DEF SentEvents
  <2>. QED
    BY <2>1, <2>2, <2>3
<1>. HIDE DEF q
<1>2. <<>> \in Seq(Nat)
  OBVIOUS
<1>3. FlattenSeq(q) \in Seq(Nat)
  BY <1>1, <1>2, FlattenAppend
<1>. QED
  BY <1>1, <1>3 DEF Got, q

LEMMA SentAppended ==
  ASSUME sent \in Seq(SentEvents), NEW e \in SentEvents, sent' = Append(sent, e)
  PROVE  /\ sent' \in Seq(SentEvents)
         /\ Got' = Got \o e.text
         /\ Marks' = Marks \cup {e.mark}
<1>. DEFINE q == [i \in DOMAIN sent |-> sent[i].text]
            r == [i \in DOMAIN sent' |-> sent'[i].text]
            n == Len(sent)
<1>1. /\ n \in Nat /\ DOMAIN sent = 1..n /\ DOMAIN sent' = 1..n + 1
      /\ sent'[n + 1] = e /\ \A i \in 1..n : sent'[i] = sent[i]
  <2>1. n \in Nat /\ DOMAIN sent = 1..n /\ sent' \in Seq(SentEvents) /\ Len(sent') = n + 1
    OBVIOUS
  <2>2. sent'[n + 1] = e /\ \A i \in 1..n : sent'[i] = sent[i]
    OBVIOUS
  <2>. QED
    BY <2>1, <2>2
<1>2. q \in Seq(Seq(Nat)) /\ e.text \in Seq(Nat)
  BY GotTyped DEF SentEvents
<1>3. r = Append(q, e.text)
  <2>1. Len(q) = n /\ DOMAIN q = 1..n
    BY <1>1, <1>2
  <2>. DEFINE u == Append(q, e.text)
  <2>2. DOMAIN u = 1..n + 1 /\ u[n + 1] = e.text /\ \A i \in 1..n : u[i] = q[i]
    BY <2>1, <1>2
  <2>3. u = [i \in 1..n + 1 |-> u[i]]
    BY <1>2, <2>2
  <2>4. \A i \in 1..n : u[i] = sent'[i].text
    BY <1>1, <2>2
  <2>. HIDE DEF u
  <2>5. \A i \in 1..n + 1 : u[i] = sent'[i].text
    BY <1>1, <2>2, <2>4
  <2>6. u = r
    BY <1>1, <2>3, <2>5
  <2>. QED
    BY <2>6 DEF u
<1>4. Got' = Got \o e.text
  <2>1. FlattenSeq(Append(q, e.text)) = FlattenSeq(q) \o e.text
    BY <1>2, FlattenAppend
  <2>2. Got' = FlattenSeq(r) /\ Got = FlattenSeq(q)
    BY DEF Got
  <2>. HIDE DEF q, r
  <2>. QED
    BY <2>1, <2>2, <1>3, Zenon
<1>5. Marks' = Marks \cup {e.mark}
  <2>1. \A i \in 1..n + 1 : i \in 1..n \/ i = n + 1
    BY <1>1
  <2>. QED
    BY <1>1, <2>1 DEF Marks
<1>. QED
  BY <1>4, <1>5

LEMMA SentStays ==
  ASSUME UNCHANGED sent
  PROVE  UNCHANGED <<Got, Marks>>
BY DEF Got, Marks

LEMMA GotBehind ==
  ASSUME TypeInv, TextInv
  PROVE  Len(Got) \in Nat /\ Len(said) \in Nat /\ Len(Got) <= Len(said)
<1>1. Len(Got) \in Nat /\ Len(said) \in Nat /\ Len(wire) \in Nat
  BY GotTyped DEF TypeInv
<1>2. PICK at : Numbered(at)
  BY DEF TextInv
<1>3. at[0] \in Nat /\ at[0] <= Len(said)
  BY <1>1, <1>2 DEF Numbered, Leads
<1>4. at[0] = Len(Got) \/ at[0] = Len(Got) + 1
  BY <1>2 DEF Numbered, Hands, Carries
<1>. QED
  BY <1>1, <1>3, <1>4

LEMMA NumbersAppend ==
  ASSUME NEW n \in Nat
  PROVE  /\ NumbersTo(n) \in Seq(Nat) /\ Len(NumbersTo(n)) = n
         /\ Append(NumbersTo(n), n + 1) = NumbersTo(n + 1)
         /\ NumbersTo(n) \o <<n + 1>> = NumbersTo(n + 1)
         /\ NumbersTo(n) \o <<>> = NumbersTo(n)
<1>1. NumbersTo(n) \in Seq(Nat) /\ Len(NumbersTo(n)) = n
  BY DEF NumbersTo
<1>2. NumbersTo(n + 1) \in Seq(Nat) /\ Len(NumbersTo(n + 1)) = n + 1
  BY DEF NumbersTo
<1>3. \A i \in 1..n : NumbersTo(n)[i] = i
  BY DEF NumbersTo
<1>4. \A i \in 1..n + 1 : NumbersTo(n + 1)[i] = i
  BY DEF NumbersTo
<1>5. Append(NumbersTo(n), n + 1) = NumbersTo(n + 1)
  BY <1>1, <1>2, <1>3, <1>4
<1>6. NumbersTo(n) \o <<n + 1>> = NumbersTo(n + 1)
  BY <1>1, <1>2, <1>3, <1>4
<1>7. NumbersTo(n) \o <<>> = NumbersTo(n)
  BY <1>1
<1>. QED
  BY <1>1, <1>5, <1>6, <1>7

(* What carries a reader of the first a numbers to b. *)
LEMMA CarriesOn ==
  ASSUME NEW a \in Nat, NEW b \in Nat, NEW text, Carries(text, a, b)
  PROVE  NumbersTo(a) \o text = NumbersTo(b)
BY NumbersAppend DEF Carries

LEMMA NumbersPrefix ==
  ASSUME NEW a \in Nat, NEW b \in Nat, a <= b
  PROVE  IsPrefix(NumbersTo(a), NumbersTo(b))
<1>1. /\ NumbersTo(a) \in Seq(Nat) /\ Len(NumbersTo(a)) = a
      /\ NumbersTo(b) \in Seq(Nat) /\ Len(NumbersTo(b)) = b
  BY NumbersAppend
<1>2. (\A i \in 1..a : NumbersTo(a)[i] = i) /\ \A i \in 1..b : NumbersTo(b)[i] = i
  BY DEF NumbersTo
<1>3. SubSeq(NumbersTo(a), 1, a) = SubSeq(NumbersTo(b), 1, a)
  BY <1>1, <1>2
<1>. QED
  BY <1>1, <1>3 DEF IsPrefix

-----------------------------------------------------------------------------
(* The steps of the provider and the connection *)

(* Lines that go on where others end. *)
GoOn(v, w, at, bt, e, f, t, u) ==
    /\ Leads(v, at, e, t) /\ Leads(w, bt, f, u)
    /\ at[Len(v)] = bt[0] /\ t <= u /\ (e => f /\ t = u)

Spans(lines, at, a, b) == at[0] = a /\ at[Len(lines)] = b

LEMMA LeadsJoin ==
  ASSUME NEW S, NEW v \in Seq(S), NEW w \in Seq(S), NEW at, NEW bt,
         NEW e \in BOOLEAN, NEW f \in BOOLEAN, NEW t \in Nat, NEW u \in Nat,
         GoOn(v, w, at, bt, e, f, t, u)
  PROVE  \E ct : Leads(v \o w, ct, f, u) /\ Spans(v \o w, ct, at[0], bt[Len(w)])
<1>. DEFINE n == Len(v)
            k == Len(w)
            l == v \o w
            ct == [i \in 0..n + k |-> IF i <= n THEN at[i] ELSE bt[i - n]]
<1>. USE DEF GoOn
<1>1. n \in Nat /\ k \in Nat /\ Len(l) = n + k
  OBVIOUS
<1>2. \A i \in 1..n : l[i] = v[i]
  OBVIOUS
<1>3. \A i \in 1..n + k : i \notin 1..n => i - n \in 1..k /\ l[i] = w[i - n]
  BY <1>1
<1>. HIDE DEF l
<1>4. ASSUME NEW i \in 0..n + k PROVE ct[i] \in Nat /\ ct[i] <= u
  <2>1. CASE i <= n
    BY <1>1, <2>1 DEF Leads
  <2>2. CASE ~(i <= n)
    <3>1. i - n \in 0..k /\ ct[i] = bt[i - n]
      BY <1>1, <2>2
    <3>. QED
      BY <3>1 DEF Leads
  <2>. QED
    BY <2>1, <2>2
<1>5. ASSUME NEW i \in 1..n + k
      PROVE  Carries(TextOf(l[i]), ct[i - 1], ct[i]) /\ (Final(l[i]) => f /\ ct[i] = u)
  <2>1. CASE i <= n
    <3>1. i \in 1..n /\ ct[i] = at[i] /\ ct[i - 1] = at[i - 1] /\ l[i] = v[i]
      BY <1>1, <1>2, <2>1
    <3>. HIDE DEF ct
    <3>. QED
      BY <3>1 DEF Leads
  <2>2. CASE ~(i <= n)
    <3>1. i - n \in 1..k /\ l[i] = w[i - n] /\ ct[i] = bt[i - n]
      BY <1>1, <1>3, <2>2
    <3>2. ct[i - 1] = bt[(i - n) - 1]
      <4>1. CASE i = n + 1
        BY <1>1, <4>1
      <4>2. CASE i # n + 1
        BY <1>1, <2>2, <4>2
      <4>. QED
        BY <4>1, <4>2
    <3>. HIDE DEF ct
    <3>. QED
      BY <3>1, <3>2 DEF Leads
  <2>. QED
    BY <2>1, <2>2
<1>6. ct[0] = at[0] /\ ct[n + k] = bt[k]
  BY <1>1
<1>. HIDE DEF ct
<1>7. Leads(l, ct, f, u)
  BY <1>1, <1>4, <1>5 DEF Leads
<1>8. ct[Len(l)] = bt[k]
  BY <1>1, <1>6
<1>9. Spans(l, ct, at[0], bt[Len(w)])
  BY <1>6, <1>8 DEF Spans
<1>. QED
  BY <1>7, <1>9 DEF l
(* Lines said on a live connection, with what they add to the answer. *)
LEMMA SaysKeeps ==
  ASSUME Inv, NEW lines, Says(lines), Group(lines, Len(said), Len(said'), whole'),
         link' \in {"open", "closed"},
         said' \in Seq(1..MaxTexts), said' = NumbersTo(Len(said')), Len(said) <= Len(said'),
         whole' \in BOOLEAN, whole => whole' /\ said' = said
  PROVE  Inv'
<1>. USE DEF Inv
<1>1. /\ link = "open" /\ wire' = wire \o lines /\ UNCHANGED <<kind, stage, event, chunk, sent, published>>
      /\ UNCHANGED <<Got, Marks>>
  BY SentStays DEF Says, generator
<1>2. wire \in Seq(Lines(kind)) /\ lines \in Seq(Lines(kind)) /\ wire' \in Seq(Lines(kind))
  BY <1>1 DEF TypeInv, Group
<1>3. Len(said) \in Nat /\ Len(said') \in Nat /\ whole \in BOOLEAN
  BY DEF TypeInv
<1>4. TypeInv'
  BY <1>1, <1>2 DEF TypeInv
<1>5. TextInv'
  <2>1. PICK at : Numbered(at)
    BY DEF TextInv
  <2>2. Leads(wire, at, whole, Len(said)) /\ at[Len(wire)] = Len(said)
    BY <1>1, <2>1 DEF Numbered
  <2>3. PICK bt : /\ Leads(lines, bt, whole', Len(said'))
                  /\ bt[0] = Len(said) /\ bt[Len(lines)] = Len(said')
    BY DEF Group
  <2>4. PICK e \in BOOLEAN, f \in BOOLEAN, t \in Nat, u \in Nat :
           e = whole /\ f = whole' /\ t = Len(said) /\ u = Len(said')
    BY <1>3
  <2>8. GoOn(wire, lines, at, bt, e, f, t, u)
    BY <2>2, <2>3, <2>4 DEF GoOn
  <2>10. PICK ct : Leads(wire \o lines, ct, f, u) /\ Spans(wire \o lines, ct, at[0], bt[Len(lines)])
    BY <1>2, <2>8, LeadsJoin
  <2>9. /\ Leads(wire \o lines, ct, f, Len(said'))
        /\ ct[0] = at[0] /\ ct[Len(wire \o lines)] = bt[Len(lines)]
    BY <2>4, <2>10 DEF Spans
  <2>5. /\ Leads(wire \o lines, ct, whole', Len(said'))
        /\ ct[0] = at[0] /\ ct[Len(wire \o lines)] = bt[Len(lines)]
    BY <2>4, <2>9
  <2>6. Hands(at[0]) => Hands(ct[0])'
    BY <1>1, <2>5 DEF Hands
  <2>7. Numbered(ct)'
    BY <1>1, <2>1, <2>3, <2>5, <2>6 DEF Numbered
  <2>. QED
    BY <1>1, <2>7 DEF TextInv
<1>6. EventsInv'
  <2>. SUFFICES ASSUME kind = "anthropic", NEW i \in 1..Len(wire'), wire'[i].tag = "data"
                PROVE  Follows(wire', event, i)
    BY <1>1 DEF EventsInv
  <2>. DEFINE n == Len(wire)
  <2>1. n \in Nat /\ Len(lines) \in Nat /\ Len(wire') = n + Len(lines)
    BY <1>1, <1>2
  <2>2. \A j \in 1..n : wire'[j] = wire[j]
    BY <1>1, <1>2
  <2>3. \A j \in 1..Len(lines) : wire'[n + j] = lines[j]
    BY <1>1, <1>2
  <2>4. CASE i <= n
    <3>1. i \in 1..n /\ wire'[i] = wire[i] /\ (i # 1 => wire'[i - 1] = wire[i - 1])
      BY <2>1, <2>2, <2>4
    <3>2. Follows(wire, event, i)
      BY <3>1 DEF EventsInv
    <3>. QED
      BY <3>1, <3>2 DEF Follows
  <2>5. CASE ~(i <= n)
    <3>6. i - n \in 1..Len(lines) /\ i = n + (i - n)
      BY <2>1, <2>5
    <3>1. PICK j \in 1..Len(lines) : i = n + j
      BY <3>6
    <3>2. wire'[i] = lines[j]
      BY <2>3, <3>1
    <3>3. j > 1 /\ lines[j - 1].tag = "event" /\ Speaks(lines[j - 1].name, lines[j].payload)
      BY <3>2 DEF Group
    <3>4. j - 1 \in 1..Len(lines) /\ n + (j - 1) = i - 1 /\ i # 1
      <4>1. PICK l \in Nat : l = Len(lines)
        BY <2>1
      <4>2. j \in 2..l /\ n \in Nat /\ i = n + j
        BY <2>1, <3>1, <3>3, <4>1
      <4>. HIDE DEF n
      <4>3. j - 1 \in 1..l /\ n + (j - 1) = i - 1 /\ i # 1
        BY <4>2
      <4>. QED
        BY <4>1, <4>3
    <3>5. wire'[i - 1] = lines[j - 1]
      BY <2>3, <3>4
    <3>. QED
      BY <3>2, <3>3, <3>4, <3>5 DEF Follows
  <2>. QED
    BY <2>4, <2>5
<1>7. StageInv'
  BY <1>1 DEF StageInv, Unstarted
<1>. QED
  BY <1>4, <1>5, <1>6, <1>7

LEMMA SayPieceKeeps ==
  ASSUME Inv, SayPiece
  PROVE  Inv'
<1>1. /\ Len(said) \in Nat /\ said = NumbersTo(Len(said)) /\ said \in Seq(1..MaxTexts)
      /\ kind \in {"openai", "anthropic"} /\ MaxTexts \in Nat
  BY ProviderBoundsAreNat DEF Inv, TypeInv, TextInv
<1>2. ~whole /\ Len(said) < MaxTexts /\ said' = Append(said, Len(said) + 1) /\ link' = link
  BY DEF SayPiece
<1>3. PICK stop \in BOOLEAN :
         (kind = "anthropic" => ~stop) /\ Says(Piece(<<Len(said')>>, stop)) /\ whole' = stop
  BY <1>1 DEF SayPiece
<1>4. Len(said) + 1 \in 1..MaxTexts
  BY <1>1, <1>2
<1>5. Len(said') = Len(said) + 1 /\ said' \in Seq(1..MaxTexts)
  BY <1>1, <1>2, <1>4
<1>6. said' = NumbersTo(Len(said'))
  BY <1>1, <1>2, <1>5, NumbersAppend
<1>7. PICK b \in Nat : b = Len(said')
  BY <1>1, <1>5
<1>8. Carries(<<b>>, Len(said), b) /\ <<b>> \in Seq(Nat) /\ Len(said) <= b /\ whole' \in BOOLEAN /\ (stop => whole')
  BY <1>1, <1>3, <1>5, <1>7 DEF Carries
<1>9. Group(Piece(<<b>>, stop), Len(said), b, whole')
  BY <1>1, <1>3, <1>8, PieceGroups
<1>10. link' \in {"open", "closed"}
  BY <1>2, <1>3 DEF Says
<1>. QED
  BY <1>2, <1>3, <1>6, <1>5, <1>7, <1>8, <1>9, <1>10, SaysKeeps

(* Lines that add nothing to the text. *)
LEMMA SaysMoreKeeps ==
  ASSUME Inv, SayFinal \/ SayLast \/ SayNothing \/ HangUp
  PROVE  Inv'
<1>1. /\ Len(said) \in Nat /\ said = NumbersTo(Len(said)) /\ said \in Seq(1..MaxTexts)
      /\ kind \in {"openai", "anthropic"} /\ whole \in BOOLEAN
  BY DEF Inv, TypeInv, TextInv
<1>2. said' = said /\ whole' \in BOOLEAN /\ (whole => whole')
  BY <1>1 DEF SayFinal, SayLast, SayNothing, HangUp, external
<1>3. PICK lines : Says(lines) /\ Group(lines, Len(said), Len(said), whole')
  <2>1. CASE SayFinal
    <3>1. PICK usage \in BOOLEAN : Says(FinalLines(usage))
      BY <2>1 DEF SayFinal
    <3>2. Group(FinalLines(usage), Len(said), Len(said), whole')
      BY <1>1, <1>2, <2>1, FinalGroups DEF SayFinal
    <3>. QED
      BY <3>1, <3>2
  <2>2. CASE SayLast
    <3>1. Group(LastLines, Len(said), Len(said), whole')
      BY <1>1, <1>2, <2>2, LastGroups DEF SayLast
    <3>. QED
      BY <2>2, <3>1 DEF SayLast
  <2>3. CASE SayNothing
    <3>1. PICK lines \in NoiseLines : Says(lines)
      BY <2>3 DEF SayNothing
    <3>2. Group(lines, Len(said), Len(said), whole')
      BY <1>1, <1>2, NoiseGroups
    <3>. QED
      BY <3>1, <3>2
  <2>4. CASE HangUp
    <3>1. Group(<<>>, Len(said), Len(said), whole')
      BY <1>1, <1>2, NothingGroups
    <3>. QED
      BY <2>4, <3>1 DEF HangUp
  <2>. QED
    BY <2>1, <2>2, <2>3, <2>4
<1>4. link' \in {"open", "closed"}
  BY <1>3 DEF Says, SayFinal, SayLast, SayNothing, HangUp
<1>5. Group(lines, Len(said), Len(said'), whole') /\ Len(said) <= Len(said') /\ said' = NumbersTo(Len(said'))
  BY <1>1, <1>2, <1>3
<1>. QED
  BY <1>1, <1>2, <1>3, <1>4, <1>5, SaysKeeps

(* What is left of the wire when the connection breaks. *)
LEMMA BreakKeeps ==
  ASSUME Inv, Break
  PROVE  Inv'
<1>. USE DEF Inv
<1>1. /\ link = "open" /\ link' = "broken"
      /\ UNCHANGED <<kind, stage, event, chunk, sent, published, said, whole>>
      /\ UNCHANGED <<Got, Marks>>
  BY SentStays DEF Break, generator, external
<1>2. PICK n \in 0..Len(wire) : wire' = SubSeq(wire, 1, n)
  BY DEF Break
<1>3. /\ wire \in Seq(Lines(kind)) /\ wire' \in Seq(Lines(kind)) /\ Len(wire) \in Nat /\ Len(wire') = n
      /\ \A i \in 1..n : i \in 1..Len(wire) /\ wire'[i] = wire[i]
  <2>1. wire \in Seq(Lines(kind)) /\ Len(wire) \in Nat /\ n \in Nat /\ n <= Len(wire)
    BY DEF TypeInv
  <2>2. wire' \in Seq(Lines(kind)) /\ Len(wire') = n
    BY <1>2, <2>1
  <2>3. \A i \in 1..n : i \in 1..Len(wire) /\ wire'[i] = wire[i]
    BY <1>2, <2>1
  <2>. QED
    BY <2>1, <2>2, <2>3
<1>4. TypeInv'
  BY <1>1, <1>3 DEF TypeInv
<1>5. TextInv'
  <2>1. PICK at : Numbered(at)
    BY DEF TextInv
  <2>2. Leads(wire', at, whole, Len(said))
    <3>1. \A i \in 0..n : i \in 0..Len(wire)
      BY <1>3
    <3>. QED
      BY <1>3, <2>1, <3>1 DEF Numbered, Leads
  <2>3. Numbered(at)'
    BY <1>1, <2>1, <2>2 DEF Numbered, Hands
  <2>. QED
    BY <1>1, <2>3 DEF TextInv
<1>6. EventsInv'
  <2>1. \A i \in 1..n : i # 1 => wire'[i - 1] = wire[i - 1]
    BY <1>3
  <2>. QED
    BY <1>1, <1>3, <2>1 DEF EventsInv, Follows
<1>7. StageInv'
  BY <1>1 DEF StageInv, Unstarted
<1>. QED
  BY <1>4, <1>5, <1>6, <1>7

-----------------------------------------------------------------------------
(* The steps of the generator *)

LineYields(ln) == IF kind = "openai" THEN OpenAiYields(ln) ELSE AnthropicYields(ln, event)

(* A line yields a chunk with what it says, or says nothing. *)
LEMMA YieldsWhatIsSaid ==
  ASSUME Inv, wire # <<>>
  PROVE  \/ LineYields(wire[1]) = <<>> /\ TextOf(wire[1]) = <<>>
         \/ /\ ~(kind = "anthropic" /\ wire[1].tag = "data" /\ event = "message_stop")
            /\ TextOf(wire[1]) \in Seq(Nat)
            /\ Final(wire[1]) \in BOOLEAN
            /\ \E usage \in BOOLEAN :
                  LineYields(wire[1]) = <<Chunk(TextOf(wire[1]), Final(wire[1]), usage)>>
<1>. DEFINE ln == wire[1]
<1>1. ln \in Lines(kind) /\ 1 \in 1..Len(wire)
  BY DEF Inv, TypeInv
<1>2. kind = "anthropic" /\ ln.tag = "data" => Speaks(event, ln.payload)
  BY <1>1 DEF Inv, EventsInv, Follows
<1>3. kind \in {"openai", "anthropic"}
  BY DEF Inv, TypeInv
<1>. HIDE DEF ln
<1>4. CASE ln.tag # "data"
  BY <1>4 DEF LineYields, OpenAiYields, AnthropicYields, TextOf, ln
<1>5. CASE kind = "openai" /\ ln.tag = "data"
  <2>1. ln.payload \in Payloads("openai")
    BY <1>1, <1>5 DEF Lines, Blank
  <2>2. CASE ln.payload.type = "chunk"
    <3>1. ln.payload.text \in Seq(Nat) /\ ln.payload.stop \in BOOLEAN
      BY <2>1, <2>2 DEF Payloads
    <3>2. TextOf(ln) = ln.payload.text /\ Final(ln) = ln.payload.stop
      BY <1>5, <2>2, <3>1 DEF TextOf, Final
    <3>3. LineYields(ln) = <<Chunk(ln.payload.text, ln.payload.stop, FALSE)>>
      BY <1>5, <2>2 DEF LineYields, OpenAiYields
    <3>. QED
      BY <1>5, <3>1, <3>2, <3>3 DEF ln
  <2>3. CASE ln.payload.type = "done"
    <3>. PICK ends \in BOOLEAN : ends = TRUE
      OBVIOUS
    <3>1. TextOf(ln) = <<>> /\ Final(ln) = ends
      BY <1>5, <2>3 DEF TextOf, Final
    <3>2. LineYields(ln) = <<Chunk(<<>>, ends, FALSE)>>
      BY <1>5, <2>3 DEF LineYields, OpenAiYields
    <3>3. TextOf(ln) \in Seq(Nat)
      BY <3>1
    <3>4. Final(ln) \in BOOLEAN
      BY <3>1
    <3>5. LineYields(ln) = <<Chunk(TextOf(ln), Final(ln), FALSE)>>
      BY <3>1, <3>2
    <3>. QED
      BY <1>5, <3>3, <3>4, <3>5 DEF ln
  <2>4. CASE ln.payload.type = "other"
    BY <1>5, <2>4 DEF LineYields, OpenAiYields, TextOf, ln
  <2>5. ln.payload.type \in {"chunk", "done", "other"}
    BY <2>1 DEF Payloads
  <2>. QED
    BY <2>2, <2>3, <2>4, <2>5
<1>6. CASE kind = "anthropic" /\ ln.tag = "data"
  <2>1. ln.payload \in Payloads("anthropic")
    BY <1>1, <1>6 DEF Lines, Blank
  <2>2. CASE ln.payload.type = "delta"
    <3>1. ln.payload.text \in Seq(Nat) /\ event = "content_block_delta"
      BY <1>2, <1>6, <2>1, <2>2 DEF Payloads, Speaks
    <3>2. TextOf(ln) = ln.payload.text /\ Final(ln) = FALSE
      BY <1>6, <2>2 DEF TextOf, Final
    <3>3. LineYields(ln) = <<Chunk(ln.payload.text, FALSE, FALSE)>>
      BY <1>6, <3>1 DEF LineYields, AnthropicYields
    <3>. QED
      BY <3>1, <3>2, <3>3 DEF ln
  <2>3. CASE ln.payload.type = "message"
    <3>1. ln.payload.usage \in BOOLEAN /\ event = "message_delta"
      BY <1>2, <1>6, <2>1, <2>3 DEF Payloads, Speaks
    <3>. PICK ends \in BOOLEAN : ends = TRUE
      OBVIOUS
    <3>2. TextOf(ln) = <<>> /\ Final(ln) = ends
      BY <1>6, <2>3 DEF TextOf, Final
    <3>3. LineYields(ln) = <<Chunk(<<>>, ends, ln.payload.usage)>>
      BY <1>6, <3>1 DEF LineYields, AnthropicYields
    <3>4. TextOf(ln) \in Seq(Nat)
      BY <3>2
    <3>5. Final(ln) \in BOOLEAN
      BY <3>2
    <3>6. LineYields(ln) = <<Chunk(TextOf(ln), Final(ln), ln.payload.usage)>>
      BY <3>2, <3>3
    <3>. QED
      BY <3>1, <3>4, <3>5, <3>6 DEF ln
  <2>4. CASE ln.payload.type = "other"
    <3>1. event \notin {"content_block_delta", "message_delta"}
      BY <1>2, <1>6, <2>4 DEF Speaks
    <3>. QED
      BY <1>6, <2>4, <3>1 DEF LineYields, AnthropicYields, TextOf, ln
  <2>5. ln.payload.type \in {"delta", "message", "other"}
    BY <2>1 DEF Payloads
  <2>. QED
    BY <2>2, <2>3, <2>4, <2>5
<1>. QED
  BY <1>3, <1>4, <1>5, <1>6
LEMMA ReadLineKeeps ==
  ASSUME Inv, ReadLine
  PROVE  Inv'
<1>. USE DEF Inv
<1>. DEFINE ln == wire[1]
            n == Len(wire)
<1>1. /\ stage = "reading" /\ chunk = <<>> /\ wire # <<>> /\ wire' = Tail(wire)
      /\ chunk' = LineYields(ln) /\ event' = EventAfter(ln, event)
      /\ stage' = IF kind = "anthropic" /\ ln.tag = "data" /\ event = "message_stop" THEN "closing" ELSE stage
      /\ UNCHANGED <<kind, link, sent, published, said, whole>> /\ UNCHANGED <<Got, Marks>>
  BY SentStays DEF ReadLine, LineYields, external
<1>2. /\ wire \in Seq(Lines(kind)) /\ wire' \in Seq(Lines(kind)) /\ n \in Nat /\ n >= 1 /\ Len(wire') = n - 1
      /\ \A i \in 1..n - 1 : i + 1 \in 1..n /\ wire'[i] = wire[i + 1]
  <2>1. wire \in Seq(Lines(kind)) /\ n \in Nat /\ n >= 1
    BY <1>1 DEF TypeInv
  <2>2. wire' \in Seq(Lines(kind)) /\ Len(wire') = n - 1
    BY <1>1, <2>1
  <2>3. \A i \in 1..n - 1 : i + 1 \in 1..n /\ wire'[i] = wire[i + 1]
    BY <1>1, <2>1
  <2>. QED
    BY <2>1, <2>2, <2>3
<1>3. \/ chunk' = <<>> /\ TextOf(ln) = <<>>
      \/ /\ stage' = "reading" /\ chunk' # <<>>
         /\ \E c \in Chunks : chunk' = <<c>> /\ c.delta = TextOf(ln) /\ c.finished = Final(ln)
  <2>1. CASE LineYields(ln) = <<>> /\ TextOf(ln) = <<>>
    BY <1>1, <2>1
  <2>2. CASE ~(LineYields(ln) = <<>> /\ TextOf(ln) = <<>>)
    <3>1. /\ ~(kind = "anthropic" /\ ln.tag = "data" /\ event = "message_stop")
          /\ TextOf(ln) \in Seq(Nat) /\ Final(ln) \in BOOLEAN
          /\ \E usage \in BOOLEAN : LineYields(ln) = <<Chunk(TextOf(ln), Final(ln), usage)>>
      BY <1>1, <2>2, YieldsWhatIsSaid
    <3>2. PICK usage \in BOOLEAN : LineYields(ln) = <<Chunk(TextOf(ln), Final(ln), usage)>>
      BY <3>1
    <3>. DEFINE c == Chunk(TextOf(ln), Final(ln), usage)
    <3>3. c \in Chunks /\ c.delta = TextOf(ln) /\ c.finished = Final(ln)
      BY <3>1 DEF Chunk, Chunks
    <3>. HIDE DEF c
    <3>4. chunk' = <<c>> /\ chunk' # <<>>
      BY <1>1, <3>2 DEF c
    <3>. QED
      BY <1>1, <3>1, <3>3, <3>4
  <2>. QED
    BY <2>1, <2>2
<1>. HIDE DEF ln
<1>4. TypeInv'
  BY <1>1, <1>2, <1>3 DEF TypeInv
<1>5. TextInv'
  <2>1. PICK at : Numbered(at)
    BY DEF TextInv
  <2>0. PICK bt : bt = [i \in 0..n - 1 |-> at[i + 1]]
    OBVIOUS
  <2>2. /\ \A i \in 1..n : Carries(TextOf(wire[i]), at[i - 1], at[i])
        /\ \A i \in 1..n : Final(wire[i]) => whole /\ at[i] = Len(said)
        /\ \A i \in 0..n : at[i] \in Nat /\ at[i] <= Len(said)
    BY <2>1 DEF Numbered, Leads
  <2>3. \A i \in 0..n - 1 : i + 1 \in 0..n /\ bt[i] = at[i + 1]
    BY <1>2, <2>0
  <2>4. \A i \in 1..n - 1 : bt[i - 1] = at[(i + 1) - 1]
    BY <1>2, <2>0
  <2>5. 0 \in 0..n - 1 /\ 1 \in 1..n /\ bt[0] = at[1] /\ bt[n - 1] = at[n]
    BY <1>2, <2>0
  <2>6. Leads(wire', bt, whole, Len(said))
    <3>1. ASSUME NEW i \in 1..n - 1
          PROVE  Carries(TextOf(wire'[i]), bt[i - 1], bt[i]) /\ (Final(wire'[i]) => whole /\ bt[i] = Len(said))
      <4>1. i + 1 \in 1..n /\ wire'[i] = wire[i + 1] /\ bt[i] = at[i + 1] /\ bt[i - 1] = at[(i + 1) - 1]
        BY <1>2, <2>3, <2>4
      <4>. QED
        BY <2>2, <4>1
    <3>2. \A i \in 0..n - 1 : bt[i] \in Nat /\ bt[i] <= Len(said)
      BY <2>2, <2>3
    <3>. QED
      BY <1>2, <3>1, <3>2 DEF Leads
  <2>7. Carries(TextOf(ln), Len(Got), bt[0]) /\ (Final(ln) => whole /\ bt[0] = Len(said))
    <3>1. at[0] = Len(Got)
      BY <1>1, <2>1 DEF Numbered, Hands
    <3>2. Carries(TextOf(wire[1]), at[0], at[1]) /\ (Final(wire[1]) => whole /\ at[1] = Len(said))
      BY <2>2, <2>5
    <3>. QED
      BY <2>5, <3>1, <3>2 DEF ln
  <2>8. IF chunk' = <<>> THEN bt[0] = Len(Got)
        ELSE Carries(chunk'[1].delta, Len(Got), bt[0]) /\ (chunk'[1].finished => whole /\ bt[0] = Len(said))
    <3>1. CASE chunk' = <<>> /\ TextOf(ln) = <<>>
      BY <2>7, <3>1 DEF Carries
    <3>2. CASE /\ chunk' # <<>>
               /\ \E c \in Chunks : chunk' = <<c>> /\ c.delta = TextOf(ln) /\ c.finished = Final(ln)
      BY <2>7, <3>2
    <3>. QED
      BY <1>3, <3>1, <3>2
  <2>9. Numbered(bt)'
    <3>1. link' = "open" => bt[Len(wire')] = Len(said)
      BY <1>1, <1>2, <2>1, <2>5 DEF Numbered
    <3>2. Hands(bt[0])'
      BY <1>1, <2>8 DEF Hands
    <3>3. Leads(wire, bt, whole, Len(said))'
      BY <1>1, <2>6
    <3>. QED
      BY <1>1, <3>1, <3>2, <3>3 DEF Numbered
  <2>. QED
    BY <1>1, <2>9 DEF TextInv
<1>6. EventsInv'
  <2>. SUFFICES ASSUME kind = "anthropic", NEW i \in 1..n - 1, wire'[i].tag = "data"
                PROVE  Follows(wire', event', i)
    BY <1>1, <1>2 DEF EventsInv
  <2>1. i + 1 \in 1..n /\ i + 1 # 1 /\ (i + 1) - 1 = i /\ wire'[i] = wire[i + 1]
    BY <1>2
  <2>2. Follows(wire, event, i + 1)
    BY <2>1 DEF EventsInv
  <2>3. wire[i].tag = "event" /\ Speaks(wire[i].name, wire'[i].payload)
    BY <2>1, <2>2 DEF Follows
  <2>4. CASE i = 1
    <3>1. event' = wire[1].name
      BY <1>1, <2>3, <2>4 DEF EventAfter, ln
    <3>. QED
      BY <2>3, <2>4, <3>1 DEF Follows
  <2>5. CASE i # 1
    <3>1. i - 1 \in 1..n - 1 /\ (i - 1) + 1 = i
      BY <1>2, <2>5
    <3>2. wire'[i - 1] = wire[i]
      BY <1>2, <3>1
    <3>. QED
      BY <2>3, <2>5, <3>2 DEF Follows
  <2>. QED
    BY <2>4, <2>5
<1>7. StageInv'
  BY <1>1 DEF StageInv
<1>. QED
  BY <1>4, <1>5, <1>6, <1>7

(* A broken connection makes a chunk that carries nothing. *)
LEMMA ReadErrorKeeps ==
  ASSUME Inv, ReadError
  PROVE  Inv'
<1>. USE DEF Inv
<1>. DEFINE c == [Chunk(<<>>, FALSE, FALSE) EXCEPT !.error = TRUE]
<1>1. /\ stage = "reading" /\ chunk = <<>> /\ link = "broken" /\ chunk' = <<c>>
      /\ UNCHANGED <<kind, stage, wire, link, event, sent, published, said, whole>>
      /\ UNCHANGED <<Got, Marks>>
  BY SentStays DEF ReadError, external
<1>2. c \in Chunks /\ c.delta = <<>> /\ c.finished = FALSE
  <2>1. PICK k : k = Chunk(<<>>, FALSE, FALSE)
    OBVIOUS
  <2>2. k \in Chunks /\ k.delta = <<>> /\ k.finished = FALSE
    BY <2>1 DEF Chunk, Chunks
  <2>. DEFINE d == [k EXCEPT !.error = TRUE]
  <2>3. d \in Chunks /\ d.delta = <<>> /\ d.finished = FALSE
    BY <2>2 DEF Chunks
  <2>. QED
    BY <2>1, <2>3
<1>. HIDE DEF c
<1>3. TypeInv'
  BY <1>1, <1>2 DEF TypeInv
<1>4. TextInv'
  <2>1. PICK at : Numbered(at)
    BY DEF TextInv
  <2>2. chunk' # <<>> /\ chunk'[1] = c /\ Carries(<<>>, Len(Got), at[0])
    BY <1>1, <2>1 DEF Numbered, Hands, Carries
  <2>3. Numbered(at)'
    BY <1>1, <1>2, <2>1, <2>2 DEF Numbered, Hands
  <2>. QED
    BY <1>1, <2>3 DEF TextInv
<1>5. EventsInv' /\ StageInv'
  BY <1>1 DEF EventsInv, StageInv
<1>. QED
  BY <1>3, <1>4, <1>5

LEMMA ReadEndKeeps ==
  ASSUME Inv, ReadEnd
  PROVE  Inv'
<1>. USE DEF Inv
<1>1. /\ chunk = <<>> /\ stage' = "closing"
      /\ UNCHANGED <<kind, wire, link, event, chunk, sent, published, said, whole>>
      /\ UNCHANGED <<Got, Marks>>
  BY SentStays DEF ReadEnd, external, generator
<1>2. TypeInv'
  BY <1>1 DEF TypeInv
<1>3. TextInv'
  BY <1>1 DEF TextInv, Numbered, Hands
<1>4. EventsInv' /\ StageInv'
  BY <1>1 DEF EventsInv, StageInv
<1>. QED
  BY <1>2, <1>3, <1>4

-----------------------------------------------------------------------------
(* The steps of the relay *)

MarkOf(c) == IF c.error THEN "error" ELSE IF c.finished THEN "final" ELSE "none"

(* What Relay sends: the text in hand, and that it is the end only with all *)
(* of the text.                                                             *)
LEMMA RelaySends ==
  ASSUME Inv, Relay
  PROVE  \E c \in Chunks :
            /\ chunk = <<c>> /\ stage = "reading"
            /\ Got' = Got \o c.delta /\ Marks' = Marks \cup {MarkOf(c)}
            /\ stage' = IF MarkOf(c) = "none" THEN stage ELSE "closing"
            /\ sent' \in Seq(SentEvents) /\ published' \in Nat
<1>. USE DEF Inv
<1>1. chunk # <<>>
  BY DEF Relay
<1>2. PICK c \in Chunks : chunk = <<c>> /\ stage = "reading"
  BY <1>1 DEF TypeInv
<1>3. Head(chunk) = c
  BY <1>2
<1>. DEFINE e == [text |-> c.delta, mark |-> MarkOf(c), usage |-> c.usage]
<1>4. /\ sent' = Append(sent, e)
      /\ stage' = IF MarkOf(c) = "none" THEN stage ELSE "closing"
      /\ published' = published + (IF c.finished /\ c.usage THEN 1 ELSE 0)
  BY <1>3 DEF Relay, MarkOf
<1>5. MarkOf(c) \in {"none", "final", "error", "done"}
  BY DEF MarkOf
<1>6. e \in SentEvents /\ e.text = c.delta /\ e.mark = MarkOf(c)
  BY <1>5 DEF SentEvents, Chunks
<1>7. published' \in Nat
  BY <1>4 DEF TypeInv
<1>. HIDE DEF e
<1>8. sent' \in Seq(SentEvents) /\ Got' = Got \o e.text /\ Marks' = Marks \cup {e.mark}
  BY <1>4, <1>6, SentAppended DEF TypeInv
<1>. QED
  BY <1>2, <1>4, <1>6, <1>7, <1>8

LEMMA RelayKeeps ==
  ASSUME Inv, Relay
  PROVE  Inv'
<1>. USE DEF Inv
<1>1. PICK c \in Chunks :
         /\ chunk = <<c>> /\ stage = "reading"
         /\ Got' = Got \o c.delta /\ Marks' = Marks \cup {MarkOf(c)}
         /\ stage' = IF MarkOf(c) = "none" THEN stage ELSE "closing"
         /\ sent' \in Seq(SentEvents) /\ published' \in Nat
  BY RelaySends
<1>2. chunk' = <<>> /\ UNCHANGED <<kind, wire, link, event, said, whole>>
  BY DEF Relay, external
<1>3. TypeInv'
  BY <1>1, <1>2 DEF TypeInv
<1>4. TextInv'
  <2>1. PICK at : Numbered(at)
    BY DEF TextInv
  <2>2. chunk # <<>> /\ chunk[1] = c
    BY <1>1
  <2>3. Carries(c.delta, Len(Got), at[0]) /\ Len(Got) \in Nat /\ at[0] \in Nat
    BY <2>1, <2>2, GotTyped DEF Numbered, Hands, Leads, TypeInv
  <2>6. PICK a \in Nat, b \in Nat : a = Len(Got) /\ b = at[0]
    BY <2>3
  <2>7. NumbersTo(a) \o c.delta = NumbersTo(b) /\ Got = NumbersTo(a)
    BY <2>3, <2>6, CarriesOn DEF TextInv
  <2>8. Got' = NumbersTo(b) /\ Len(NumbersTo(b)) = b
    BY <1>1, <2>7, NumbersAppend
  <2>4. Got' = NumbersTo(at[0]) /\ Len(Got') = at[0]
    BY <2>6, <2>8
  <2>5. Numbered(at)'
    BY <1>2, <2>1, <2>4 DEF Numbered, Hands
  <2>. QED
    BY <1>2, <2>4, <2>5 DEF TextInv
<1>5. EventsInv'
  BY <1>2 DEF EventsInv
<1>6. StageInv'
  BY <1>1 DEF StageInv
<1>. QED
  BY <1>3, <1>4, <1>5, <1>6

LEMMA SendDoneSends ==
  ASSUME Inv, SendDone
  PROVE  /\ UNCHANGED Got /\ Marks' = Marks \cup {"done"} /\ sent' \in Seq(SentEvents)
         /\ stage = "closing" /\ stage' = "done" /\ chunk = <<>>
         /\ UNCHANGED <<kind, wire, link, event, chunk, published, said, whole>>
<1>1. Mark("done") \in SentEvents /\ Mark("done").text = <<>> /\ Mark("done").mark = "done"
  BY DEF Mark, SentEvents
<1>2. sent' \in Seq(SentEvents) /\ Got' = Got \o <<>> /\ Marks' = Marks \cup {"done"}
  BY <1>1, SentAppended DEF SendDone, Inv, TypeInv
<1>3. Got \in Seq(Nat)
  BY GotTyped DEF Inv, TypeInv
<1>4. Got \o <<>> = Got
  BY <1>3
<1>. QED
  BY <1>2, <1>4 DEF SendDone, generator, external

LEMMA SendDoneKeeps ==
  ASSUME Inv, SendDone
  PROVE  Inv'
<1>. USE DEF Inv
<1>1. /\ UNCHANGED Got /\ Marks' = Marks \cup {"done"} /\ sent' \in Seq(SentEvents)
      /\ stage = "closing" /\ stage' = "done" /\ chunk = <<>>
      /\ UNCHANGED <<kind, wire, link, event, chunk, published, said, whole>>
  BY SendDoneSends
<1>2. TypeInv'
  BY <1>1 DEF TypeInv
<1>3. TextInv'
  BY <1>1 DEF TextInv, Numbered, Hands
<1>4. EventsInv' /\ StageInv'
  BY <1>1 DEF EventsInv, StageInv
<1>. QED
  BY <1>2, <1>3, <1>4

-----------------------------------------------------------------------------
(* The steps of the call *)

(* With nothing on the way, what the reader has need only be a part. *)
LEMMA NothingOnTheWay ==
  ASSUME wire' = <<>>, chunk' = <<>>, Len(Got') \in Nat, Len(said') \in Nat, Len(Got') <= Len(said'),
         said' = NumbersTo(Len(said')), Got' = NumbersTo(Len(Got')),
         link' = "open" => Len(Got') = Len(said')
  PROVE  TextInv' /\ EventsInv'
<1>. PICK n \in Nat : n = Len(Got')
  OBVIOUS
<1>. DEFINE at == [i \in 0..0 |-> n]
<1>1. Len(wire') = 0 /\ at[0] = n /\ at[Len(wire')] = n
  OBVIOUS
<1>. HIDE DEF at
<1>2. Leads(wire', at, whole', Len(said'))
  BY <1>1 DEF Leads
<1>3. Numbered(at)'
  BY <1>1, <1>2 DEF Numbered, Hands
<1>4. TextInv'
  BY <1>3 DEF TextInv
<1>. QED
  BY <1>1, <1>4 DEF EventsInv

LEMMA StartKeeps ==
  ASSUME Inv, Post \/ Refuse \/ Open
  PROVE  Inv'
<1>. USE DEF Inv
<1>1. /\ stage' \in {"posted", "failed", "reading"} /\ link' \in {link, "open"}
      /\ stage' = "posted" => link' = link
      /\ UNCHANGED <<kind, wire, event, chunk, sent, published, said, whole>>
      /\ UNCHANGED <<Got, Marks>> /\ stage \in {"idle", "posted"}
  BY SentStays DEF Post, Refuse, Open, generator, external
<1>2. Unstarted
  BY <1>1 DEF StageInv
<1>3. TypeInv'
  BY <1>1, <1>2 DEF TypeInv, Unstarted
<1>4. Got = <<>> /\ Marks = {}
  BY <1>2, FlattenNothing DEF Unstarted, Got, Marks
<1>5. TextInv' /\ EventsInv'
  <2>1. NumbersTo(0) = <<>>
    BY DEF NumbersTo
  <2>2. said' = <<>> /\ wire' = <<>> /\ chunk' = <<>> /\ Got' = <<>>
    BY <1>1, <1>2, <1>4 DEF Unstarted
  <2>3. Len(said') = 0 /\ Len(Got') = 0
    BY <2>2
  <2>. QED
    BY <2>1, <2>2, <2>3, NothingOnTheWay
<1>6. StageInv'
  BY <1>1, <1>2, <1>4 DEF StageInv, Unstarted
<1>. QED
  BY <1>3, <1>5, <1>6

(* The reply of complete is one answer, with all of its text. *)
LEMMA ReplySends ==
  ASSUME Inv, Reply
  PROVE  /\ Unstarted /\ Got = <<>> /\ Marks = {}
         /\ Got' = said' /\ Marks' = {"final"} /\ whole' = TRUE /\ stage' = "done"
         /\ said' \in Seq(1..MaxTexts) /\ said' = NumbersTo(Len(said')) /\ Len(said') \in Nat
         /\ sent' \in Seq(SentEvents) /\ UNCHANGED <<kind, link, wire, event, chunk, published>>
<1>1. Unstarted /\ sent = <<>> /\ stage' = "done" /\ whole' = TRUE
      /\ UNCHANGED <<kind, link, wire, event, chunk, published>>
  BY DEF Inv, StageInv, Unstarted, Reply, generator
<1>2. Got = <<>> /\ Marks = {}
  BY <1>1, FlattenNothing DEF Got, Marks
<1>3. PICK n \in 0..MaxTexts : said' = [i \in 1..n |-> i]
  BY DEF Reply
<1>4. n \in Nat /\ 1..n \subseteq 1..MaxTexts /\ said' = NumbersTo(n)
  BY <1>3, ProviderBoundsAreNat DEF NumbersTo
<1>5. said' \in Seq(Nat) /\ Len(said') = n
  BY <1>4, NumbersAppend
<1>6. said' \in Seq(1..MaxTexts)
  BY <1>3, <1>4
<1>. DEFINE e == [text |-> said', mark |-> "final", usage |-> TRUE]
<1>7. e \in SentEvents /\ e.text = said' /\ e.mark = "final"
  BY <1>5 DEF SentEvents
<1>8. sent' = <<e>>
  BY DEF Reply
<1>. HIDE DEF e
<1>9. sent' = Append(sent, e) /\ sent \in Seq(SentEvents)
  BY <1>1, <1>8
<1>10. sent' \in Seq(SentEvents) /\ Got' = Got \o e.text /\ Marks' = Marks \cup {e.mark}
  BY <1>7, <1>9, SentAppended
<1>11. <<>> \o said' = said'
  BY <1>5
<1>. QED
  BY <1>1, <1>2, <1>4, <1>5, <1>6, <1>7, <1>10, <1>11

LEMMA ReplyKeeps ==
  ASSUME Inv, Reply
  PROVE  Inv'
<1>. USE DEF Inv
<1>1. /\ Unstarted /\ Got' = said' /\ Marks' = {"final"} /\ whole' = TRUE /\ stage' = "done"
      /\ said' \in Seq(1..MaxTexts) /\ said' = NumbersTo(Len(said')) /\ Len(said') \in Nat
      /\ sent' \in Seq(SentEvents) /\ UNCHANGED <<kind, link, wire, event, chunk, published>>
  BY ReplySends
<1>2. TypeInv'
  BY <1>1 DEF TypeInv, Unstarted
<1>3. wire' = <<>> /\ chunk' = <<>>
  BY <1>1 DEF Unstarted
<1>4. TextInv' /\ EventsInv'
  BY <1>1, <1>3, NothingOnTheWay
<1>5. StageInv'
  BY <1>1 DEF StageInv
<1>. QED
  BY <1>2, <1>4, <1>5

LEMMA AbandonKeeps ==
  ASSUME Inv, Abandon
  PROVE  Inv'
<1>. USE DEF Inv
<1>1. /\ stage' = "gone" /\ link' = "closed" /\ wire' = <<>> /\ chunk' = <<>>
      /\ UNCHANGED <<kind, sent, published, said, whole>> /\ UNCHANGED <<Got, Marks>>
  BY SentStays DEF Abandon, external
<1>2. TypeInv'
  <2>1. <<>> \in Seq(Lines(kind))
    OBVIOUS
  <2>. QED
    BY <1>1, <2>1 DEF TypeInv
<1>3. TextInv' /\ EventsInv'
  BY <1>1, GotBehind, NothingOnTheWay DEF TextInv
<1>4. StageInv'
  BY <1>1 DEF StageInv
<1>. QED
  BY <1>2, <1>3, <1>4
-----------------------------------------------------------------------------

LEMMA InitInv == Init => Inv
<1>. SUFFICES ASSUME Init PROVE Inv
  OBVIOUS
<1>1. Unstarted /\ published = 0 /\ stage = "idle" /\ kind \in {"openai", "anthropic"} /\ whole = FALSE
  BY DEF Init, Unstarted
<1>2. Got = <<>> /\ Marks = {}
  BY <1>1, FlattenNothing DEF Unstarted, Got, Marks
<1>3. TypeInv
  <2>1. <<>> \in Seq(Lines(kind)) /\ <<>> \in Seq(SentEvents) /\ <<>> \in Seq(1..MaxTexts)
    OBVIOUS
  <2>2. whole \in BOOLEAN /\ published \in Nat
    BY <1>1
  <2>. QED
    BY <1>1, <2>1, <2>2 DEF TypeInv, Unstarted
<1>4. TextInv
  <2>. DEFINE at == [i \in 0..0 |-> 0]
  <2>1. Len(wire) = 0 /\ Len(said) = 0 /\ Len(Got) = 0 /\ NumbersTo(0) = <<>> /\ at[0] = 0
    BY <1>1, <1>2 DEF Unstarted, NumbersTo
  <2>. HIDE DEF at
  <2>2. Numbered(at)
    BY <1>1, <2>1 DEF Numbered, Leads, Hands, Unstarted
  <2>. QED
    BY <1>1, <1>2, <2>1, <2>2 DEF TextInv, Unstarted
<1>5. EventsInv /\ StageInv
  BY <1>1 DEF EventsInv, StageInv, Unstarted
<1>. QED
  BY <1>3, <1>4, <1>5 DEF Inv

LEMMA StepInv == Inv /\ [Next]_vars => Inv'
<1>. SUFFICES ASSUME Inv, [Next]_vars PROVE Inv'
  OBVIOUS
<1>1. CASE Post \/ Refuse \/ Open
  BY <1>1, StartKeeps
<1>2. CASE Reply
  BY <1>2, ReplyKeeps
<1>3. CASE SayPiece
  BY <1>3, SayPieceKeeps
<1>4. CASE SayFinal \/ SayLast \/ SayNothing \/ HangUp
  BY <1>4, SaysMoreKeeps
<1>5. CASE Break
  BY <1>5, BreakKeeps
<1>6. CASE Run
  BY <1>6, ReadLineKeeps, ReadEndKeeps, ReadErrorKeeps, RelayKeeps, SendDoneKeeps DEF Run
<1>7. CASE Abandon
  BY <1>7, AbandonKeeps
<1>8. CASE UNCHANGED vars
  <2>1. UNCHANGED <<Got, Marks>>
    BY <1>8, SentStays DEF vars
  <2>. QED
    BY <1>8, <2>1 DEF vars, external, generator, Inv, TypeInv, TextInv, Numbered, Hands,
                      EventsInv, StageInv, Unstarted
<1>. QED
  BY <1>1, <1>2, <1>3, <1>4, <1>5, <1>6, <1>7, <1>8 DEF Next

LEMMA Invariant == Spec => []Inv
BY InitInv, StepInv, PTL DEF Spec

(* The call, the connection and the reader's events keep their types, and a *)
(* chunk is in hand only while the stream is read (complete_stream).        *)
THEOREM TypeCorrect == Spec => []TypeOK
<1>1. Inv => TypeOK
  <2>. SUFFICES ASSUME Inv PROVE TypeOK
    OBVIOUS
  <2>1. Marks \subseteq {"none", "final", "error", "done"}
    <3>1. \A i \in DOMAIN sent : sent[i] \in SentEvents
      BY DEF Inv, TypeInv
    <3>. QED
      BY <3>1 DEF Marks, SentEvents
  <2>2. chunk # <<>> => stage = "reading" /\ Len(chunk) = 1
    BY DEF Inv, TypeInv
  <2>. QED
    BY <2>1, <2>2 DEF Inv, TypeInv, TypeOK
<1>. QED
  BY <1>1, Invariant, PTL

-----------------------------------------------------------------------------
(* The refinement *)

(* As long as the stream is read, nothing tells of an end. *)
LEMMA OpenWhileReading ==
  ASSUME Inv
  PROVE  /\ stage \in {"idle", "posted", "reading"} => Told = "open"
         /\ stage = "closing" => Told \in {"open", "whole", "error"}
<1>1. stage \in {"idle", "posted", "reading"} => "final" \notin Marks /\ "error" \notin Marks
  BY DEF Inv, StageInv, Unstarted, Marks
<1>. QED
  BY <1>1 DEF Told

LEMMA GotIsPrefix ==
  ASSUME Inv
  PROVE  IsPrefix(Got, said) /\ IsPrefix(Got, Got)
<1>1. Len(Got) \in Nat /\ Len(said) \in Nat /\ Len(Got) <= Len(said)
  BY GotBehind DEF Inv
<1>2. PICK a \in Nat, b \in Nat : a = Len(Got) /\ b = Len(said)
  BY <1>1
<1>3. Got = NumbersTo(a) /\ said = NumbersTo(b) /\ a <= b /\ a <= a
  BY <1>1, <1>2 DEF Inv, TextInv
<1>. QED
  BY <1>3, NumbersPrefix

LEMMA SaySimulated ==
  ASSUME Inv, SayPiece \/ SayFinal \/ (SayLast /\ ~whole)
  PROVE  Reader!Say
<1>1. ~whole /\ whole' \in BOOLEAN /\ UNCHANGED <<stage, sent>>
  BY DEF SayPiece, SayFinal, SayLast, Says
<1>2. UNCHANGED <<Got, Told>>
  BY <1>1, SentStays DEF Told
<1>3. IsPrefix(said, said')
  <2>1. PICK n \in Nat : n = Len(said)
    BY DEF Inv, TypeInv
  <2>2. said = NumbersTo(n) /\ n <= n /\ n <= n + 1
    BY <2>1 DEF Inv, TextInv
  <2>3. said' = NumbersTo(n) \/ said' = NumbersTo(n + 1)
    BY <2>1, <2>2, NumbersAppend DEF SayPiece, SayFinal, SayLast
  <2>. QED
    BY <2>2, <2>3, NumbersPrefix
<1>. QED
  BY <1>1, <1>2, <1>3 DEF Reader!Say, Reader!IsPrefix, IsPrefix

LEMMA ReplySimulated ==
  ASSUME Inv, Reply
  PROVE  Reader!Deliver /\ said = <<>> /\ ~whole /\ whole'
<1>1. /\ Unstarted /\ Got = <<>> /\ Marks = {}
      /\ Got' = said' /\ Marks' = {"final"} /\ whole' = TRUE
      /\ said' = NumbersTo(Len(said')) /\ Len(said') \in Nat
  BY ReplySends
<1>2. stage = "posted" /\ Told = "open" /\ Told' = "whole"
  BY <1>1, OpenWhileReading DEF Reply, Told
<1>3. PICK n \in Nat : n = Len(said')
  BY <1>1
<1>4. NumbersTo(0) = <<>> /\ 0 <= n /\ n <= n /\ said' = NumbersTo(n)
  BY <1>1, <1>3 DEF NumbersTo
<1>5. IsPrefix(NumbersTo(0), NumbersTo(n)) /\ IsPrefix(NumbersTo(n), NumbersTo(n))
  BY <1>4, NumbersPrefix
<1>. QED
  BY <1>1, <1>2, <1>4, <1>5 DEF Reader!Deliver, Reader!IsPrefix, IsPrefix, Unstarted

LEMMA RelaySimulated ==
  ASSUME Inv, Inv', Relay
  PROVE  Reader!Deliver /\ UNCHANGED <<said, whole>>
<1>1. PICK c \in Chunks :
         /\ chunk = <<c>> /\ stage = "reading"
         /\ Got' = Got \o c.delta /\ Marks' = Marks \cup {MarkOf(c)}
         /\ stage' = IF MarkOf(c) = "none" THEN stage ELSE "closing"
  BY RelaySends
<1>2. UNCHANGED <<said, whole>>
  BY DEF Relay, external
<1>3. Told = "open" /\ Marks \subseteq {"none"}
  BY <1>1, OpenWhileReading DEF Inv, StageInv
<1>4. PICK at : Numbered(at)
  BY DEF Inv, TextInv
<1>5. /\ Carries(c.delta, Len(Got), at[0]) /\ Len(Got) \in Nat /\ at[0] \in Nat
      /\ Len(said) \in Nat /\ at[0] <= Len(said)
      /\ c.finished => whole /\ at[0] = Len(said)
  <2>1. chunk # <<>> /\ chunk[1] = c
    BY <1>1
  <2>. QED
    BY <1>4, <2>1, GotBehind DEF Numbered, Hands, Leads, Inv, TypeInv
<1>6. PICK a \in Nat, b \in Nat, n \in Nat : a = Len(Got) /\ b = at[0] /\ n = Len(said)
  BY <1>5
<1>7. Got = NumbersTo(a) /\ Got' = NumbersTo(b) /\ said = NumbersTo(n)
  <2>1. Got = NumbersTo(a) /\ said = NumbersTo(n)
    BY <1>6 DEF Inv, TextInv
  <2>2. NumbersTo(a) \o c.delta = NumbersTo(b)
    BY <1>5, <1>6, CarriesOn
  <2>. QED
    BY <1>1, <2>1, <2>2
<1>8. a <= b /\ b <= n
  BY <1>5, <1>6 DEF Carries
<1>9. IsPrefix(Got, Got') /\ IsPrefix(Got', said')
  BY <1>2, <1>7, <1>8, NumbersPrefix
<1>10. \/ Told' = Told
       \/ Told' = "whole" /\ whole' /\ Got' = said'
       \/ Told' \in {"cut", "error", "failed", "gone"}
  <2>1. CASE MarkOf(c) = "none"
    BY <1>1, <1>3, <2>1 DEF Told
  <2>2. CASE MarkOf(c) = "final"
    <3>1. c.finished
      BY <2>2 DEF MarkOf
    <3>2. whole' /\ Got' = said'
      BY <1>2, <1>5, <1>6, <1>7, <3>1
    <3>3. Told' = "whole"
      BY <1>1, <2>2 DEF Told
    <3>. QED
      BY <3>2, <3>3
  <2>3. CASE MarkOf(c) = "error"
    BY <1>1, <1>3, <2>3 DEF Told
  <2>. QED
    BY <2>1, <2>2, <2>3 DEF MarkOf
<1>. QED
  BY <1>2, <1>3, <1>9, <1>10 DEF Reader!Deliver, Reader!IsPrefix, IsPrefix

(* The end of a stream and its end by the reader or the provider tell only  *)
(* what was not told before.                                                *)
LEMMA EndSimulated ==
  ASSUME Inv, SendDone \/ Abandon \/ Refuse
  PROVE  /\ UNCHANGED <<said, whole, Got>>
         /\ Reader!Deliver \/ UNCHANGED Told
<1>1. UNCHANGED <<said, whole, Got>>
  BY SendDoneSends, SentStays DEF Abandon, Refuse, external
<1>2. Told # "open" => Told' = Told
  <2>1. CASE SendDone
    BY <2>1, SendDoneSends, OpenWhileReading DEF Told
  <2>2. CASE Abandon
    BY <2>2, SentStays, OpenWhileReading DEF Abandon, Told
  <2>3. CASE Refuse
    BY <2>3, OpenWhileReading DEF Refuse
  <2>. QED
    BY <2>1, <2>2, <2>3
<1>3. Told = "open" => Told' \in {"cut", "failed", "gone"}
  <2>1. "open" = Told => "final" \notin Marks /\ "error" \notin Marks
    BY DEF Told
  <2>2. CASE SendDone
    BY <2>1, <2>2, SendDoneSends DEF Told
  <2>3. CASE Abandon \/ Refuse
    BY <2>1, <2>3, SentStays DEF Abandon, Refuse, Told
  <2>. QED
    BY <2>2, <2>3
<1>4. IsPrefix(Got, Got') /\ IsPrefix(Got', said')
  BY <1>1, GotIsPrefix
<1>. QED
  BY <1>1, <1>2, <1>3, <1>4 DEF Reader!Deliver, Reader!IsPrefix, IsPrefix

(* All else is hidden from the reader. *)
LEMMA OthersHidden ==
  ASSUME Inv, \/ Post \/ Open \/ (SayLast /\ whole) \/ SayNothing \/ HangUp \/ Break
              \/ ReadLine \/ ReadEnd \/ ReadError
  PROVE  UNCHANGED <<said, whole, Got, Told>>
<1>1. UNCHANGED <<said, whole, sent>>
  BY DEF Post, Open, SayLast, SayNothing, HangUp, Break, ReadLine, ReadEnd, ReadError, Says, external
<1>2. UNCHANGED stage \/ (stage \in {"idle", "posted", "reading"} /\ stage' \in {"posted", "reading", "closing"})
  BY DEF Post, Open, SayLast, SayNothing, HangUp, Break, ReadLine, ReadEnd, ReadError, Says
<1>3. UNCHANGED <<Got, Marks>>
  BY <1>1, SentStays
<1>4. UNCHANGED Told
  BY <1>2, <1>3, OpenWhileReading DEF Told
<1>. QED
  BY <1>1, <1>3, <1>4

(* Whichever provider answers and however the connection fares, the reader  *)
(* of a call gets the text in order and without a gap, is told once how it  *)
(* ended, and that it is whole only when it is (complete, complete_stream,  *)
(* handle_stream).                                                          *)
THEOREM ProvidersImplementTextStream == Spec => ImplementsTextStream
<1>1. Init => Reader!Init
  <2>. SUFFICES ASSUME Init PROVE Reader!Init
    OBVIOUS
  <2>1. Told = "open"
    BY InitInv, OpenWhileReading DEF Init
  <2>2. sent = <<>> /\ said = <<>> /\ whole = FALSE
    BY DEF Init
  <2>3. Got = <<>>
    BY <2>2, FlattenNothing DEF Got
  <2>. QED
    BY <2>1, <2>2, <2>3 DEF Reader!Init
<1>2. ASSUME Inv, Inv', [Next]_vars PROVE [Reader!Next]_(Reader!vars)
  <2>1. CASE SayPiece \/ SayFinal \/ (SayLast /\ ~whole)
    BY <1>2, <2>1, SaySimulated DEF Reader!Next
  <2>2. CASE Reply
    BY <1>2, <2>2, ReplySimulated DEF Reader!Next
  <2>3. CASE Relay
    BY <1>2, <2>3, RelaySimulated DEF Reader!Next
  <2>4. CASE SendDone \/ Abandon \/ Refuse
    BY <1>2, <2>4, EndSimulated DEF Reader!Next, Reader!vars
  <2>5. CASE \/ Post \/ Open \/ (SayLast /\ whole) \/ SayNothing \/ HangUp \/ Break
             \/ ReadLine \/ ReadEnd \/ ReadError
    BY <1>2, <2>5, OthersHidden DEF Reader!vars
  <2>6. CASE UNCHANGED vars
    <3>1. UNCHANGED <<said, whole, sent, stage>>
      BY <2>6 DEF vars, external
    <3>2. UNCHANGED <<Got, Told>>
      BY <3>1, SentStays DEF Told
    <3>. QED
      BY <3>1, <3>2 DEF Reader!vars
  <2>. QED
    BY <1>2, <2>1, <2>2, <2>3, <2>4, <2>5, <2>6 DEF Next, Run
<1>. QED
  BY <1>1, <1>2, Invariant, PTL DEF Spec, ImplementsTextStream, Reader!Spec
-----------------------------------------------------------------------------
(* What is sent to the provider *)

LEMMA FromNothing ==
  ASSUME NEW S, 0 \in S, \A n \in Nat : n \in S => n + 1 \in S
  PROVE  Nat \subseteq S
<1>1. 1 \in S
  <2>1. 0 \in Nat /\ 0 + 1 = 1
    OBVIOUS
  <2>. QED
    BY <2>1
<1>2. \A n \in Nat \ {0} : n \in S => n + 1 \in S
  OBVIOUS
<1>3. Nat \ {0} \subseteq S
  BY <1>1, <1>2, Induction
<1>. QED
  BY <1>3

(* What Said's recursion has after each of the first n messages, of which   *)
(* it keeps those at the places I.                                          *)
Picks(u, n, s, I) ==
    u = [k \in 0..n |-> IF k = 0 THEN <<>>
                        ELSE IF k \in I THEN Append(u[k - 1], s[k]) ELSE u[k - 1]]

LEMMA PicksExist ==
  ASSUME NEW s, NEW I
  PROVE  \A n \in Nat : \E u : Picks(u, n, s, I)
<1>. DEFINE S == {n \in Nat : \E u : Picks(u, n, s, I)}
<1>1. 0 \in S
  <2>1. Picks([k \in 0..0 |-> <<>>], 0, s, I)
    BY DEF Picks
  <2>. QED
    BY <2>1
<1>2. ASSUME NEW n \in Nat, n \in S PROVE n + 1 \in S
  <2>1. PICK h : Picks(h, n, s, I)
    BY <1>2
  <2>. DEFINE last == IF n + 1 \in I THEN Append(h[n], s[n + 1]) ELSE h[n]
              u == [k \in 0..n + 1 |-> IF k = n + 1 THEN last ELSE h[k]]
  <2>2. \A k \in 0..n : h[k] = IF k = 0 THEN <<>>
                               ELSE IF k \in I THEN Append(h[k - 1], s[k]) ELSE h[k - 1]
    BY <2>1 DEF Picks
  <2>3. \A k \in 0..n + 1 : u[k] = IF k = 0 THEN <<>>
                               ELSE IF k \in I THEN Append(u[k - 1], s[k]) ELSE u[k - 1]
    BY <2>2
  <2>4. Picks(u, n + 1, s, I)
    BY <2>3 DEF Picks
  <2>. QED
    BY <2>4
<1>. HIDE DEF S
<1>3. Nat \subseteq S
  BY <1>1, <1>2, FromNothing
<1>. QED
  BY <1>3 DEF S

Kept(s, R) == {n \in DOMAIN s : s[n].role \in R}

LEMMA SaidIs ==
  ASSUME NEW S, NEW s \in Seq(S), NEW R
  PROVE  \E u : Picks(u, Len(s), s, Kept(s, R)) /\ Said(s, R) = u[Len(s)]
<1>. DEFINE u == CHOOSE h : Picks(h, Len(s), s, Kept(s, R))
<1>1. Len(s) \in Nat
  OBVIOUS
<1>2. Said(s, R) = u[Len(s)]
  BY DEF Said, Picks, Kept
<1>3. Picks(u, Len(s), s, Kept(s, R))
  BY <1>1, PicksExist
<1>. QED
  BY <1>2, <1>3

(* All that is picked comes from one of the places. *)
ComesFrom(t, S, s, I) == t \in Seq(S) /\ \A a \in DOMAIN t : \E k \in I : t[a] = s[k]

LEMMA PicksComeFrom ==
  ASSUME NEW S, NEW s \in Seq(S), NEW I, I \subseteq DOMAIN s, NEW u, Picks(u, Len(s), s, I)
  PROVE  ComesFrom(u[Len(s)], S, s, I)
<1>1. \A k \in 0..Len(s) : u[k] = IF k = 0 THEN <<>>
                                  ELSE IF k \in I THEN Append(u[k - 1], s[k]) ELSE u[k - 1]
  BY DEF Picks
<1>. DEFINE T == {k \in Nat : k <= Len(s) => ComesFrom(u[k], S, s, I)}
<1>2. 0 \in T
  <2>1. u[0] = <<>>
    BY <1>1
  <2>2. ComesFrom(<<>>, S, s, I)
    BY DEF ComesFrom
  <2>. QED
    BY <2>1, <2>2
<1>3. ASSUME NEW k \in Nat, k \in T PROVE k + 1 \in T
  <2>. SUFFICES ASSUME k + 1 <= Len(s) PROVE ComesFrom(u[k + 1], S, s, I)
    OBVIOUS
  <2>1. PICK t : t = u[k]
    OBVIOUS
  <2>2. ComesFrom(t, S, s, I)
    BY <1>3, <2>1
  <2>3. u[k + 1] = IF k + 1 \in I THEN Append(t, s[k + 1]) ELSE t
    BY <1>1, <2>1
  <2>4. PICK m \in S : m = s[k + 1]
    OBVIOUS
  <2>5. k + 1 \in I => ComesFrom(Append(t, m), S, s, I)
    BY <2>2, <2>4 DEF ComesFrom
  <2>. QED
    BY <2>2, <2>3, <2>4, <2>5
<1>. HIDE DEF T
<1>4. Len(s) \in Nat /\ Nat \subseteq T
  BY <1>2, <1>3, FromNothing
<1>. QED
  BY <1>4 DEF T

(* Where every place is picked, all is. *)
Begins(t, S, s, k) == t \in Seq(S) /\ Len(t) = k /\ \A a \in 1..k : t[a] = s[a]

LEMMA AllPicked ==
  ASSUME NEW S, NEW s \in Seq(S), NEW u, Picks(u, Len(s), s, DOMAIN s)
  PROVE  u[Len(s)] = s
<1>1. \A k \in 0..Len(s) : u[k] = IF k = 0 THEN <<>>
                                  ELSE IF k \in DOMAIN s THEN Append(u[k - 1], s[k]) ELSE u[k - 1]
  BY DEF Picks
<1>. DEFINE T == {k \in Nat : k <= Len(s) => Begins(u[k], S, s, k)}
<1>2. 0 \in T
  <2>1. u[0] = <<>>
    BY <1>1
  <2>2. Begins(<<>>, S, s, 0)
    BY DEF Begins
  <2>. QED
    BY <2>1, <2>2
<1>3. ASSUME NEW k \in Nat, k \in T PROVE k + 1 \in T
  <2>. SUFFICES ASSUME k + 1 <= Len(s) PROVE Begins(u[k + 1], S, s, k + 1)
    OBVIOUS
  <2>1. PICK t : t = u[k]
    OBVIOUS
  <2>2. Begins(t, S, s, k)
    BY <1>3, <2>1
  <2>3. u[k + 1] = Append(t, s[k + 1])
    <3>1. k + 1 \in 0..Len(s) /\ k + 1 # 0 /\ k + 1 \in DOMAIN s /\ (k + 1) - 1 = k
      OBVIOUS
    <3>. QED
      BY <1>1, <2>1, <3>1
  <2>4. PICK m \in S : m = s[k + 1]
    OBVIOUS
  <2>5. Begins(Append(t, m), S, s, k + 1)
    BY <2>2, <2>4 DEF Begins
  <2>. QED
    BY <2>3, <2>4, <2>5
<1>. HIDE DEF T
<1>4. Len(s) \in Nat /\ Nat \subseteq T
  BY <1>2, <1>3, FromNothing
<1>5. PICK t : t = u[Len(s)] /\ Begins(t, S, s, Len(s))
  BY <1>4 DEF T
<1>. QED
  BY <1>5 DEF Begins

LEMMA SaidComesFrom ==
  ASSUME NEW S, NEW s \in Seq(S), NEW R
  PROVE  ComesFrom(Said(s, R), S, s, Kept(s, R))
<1>1. PICK u : Picks(u, Len(s), s, Kept(s, R)) /\ Said(s, R) = u[Len(s)]
  BY SaidIs
<1>2. Kept(s, R) \subseteq DOMAIN s
  BY DEF Kept
<1>. QED
  BY <1>1, <1>2, PicksComeFrom

(* What is picked is not picked from again. *)
LEMMA SaidTwice ==
  ASSUME NEW S, NEW s \in Seq(S), NEW R
  PROVE  Said(Said(s, R), R) = Said(s, R)
<1>1. PICK t : t = Said(s, R)
  OBVIOUS
<1>2. t \in Seq(S) /\ \A a \in DOMAIN t : \E k \in Kept(s, R) : t[a] = s[k]
  BY <1>1, SaidComesFrom DEF ComesFrom
<1>3. \A k \in Kept(s, R) : s[k].role \in R
  BY DEF Kept
<1>4. \A a \in DOMAIN t : t[a].role \in R
  BY <1>2, <1>3
<1>5. Kept(t, R) = DOMAIN t
  BY <1>4 DEF Kept
<1>6. PICK u : Picks(u, Len(t), t, DOMAIN t) /\ Said(t, R) = u[Len(t)]
  BY <1>2, <1>5, SaidIs
<1>7. u[Len(t)] = t
  BY <1>2, <1>6, AllPicked
<1>. QED
  BY <1>1, <1>6, <1>7

(* Once posted, the body is what build_request_body made of the request. *)
BodyInv ==
    /\ kind \in {"openai", "anthropic"}
    /\ request \in Requests
    /\ stage # "idle" =>
          /\ body.messages = IF kind = "openai" THEN request.messages ELSE Unless("system", request)
          /\ kind = "anthropic" => body.system = SystemText(request)

LEMMA BodyInvStep == Inv /\ BodyInv /\ [Next]_vars => BodyInv'
<1>. SUFFICES ASSUME Inv, BodyInv, [Next]_vars PROVE BodyInv'
  OBVIOUS
<1>1. CASE Post
  <2>. DEFINE b == IF kind = "openai" THEN OpenAiBody(request) ELSE AnthropicBody(request)
  <2>1. /\ b.messages = IF kind = "openai" THEN request.messages ELSE Unless("system", request)
        /\ kind = "anthropic" => b.system = SystemText(request)
    BY DEF BodyInv, OpenAiBody, AnthropicBody
  <2>2. b \in [messages : {b.messages}, system : {b.system}, stream : {b.stream}]
    BY DEF OpenAiBody, AnthropicBody
  <2>3. body' = (IF call = "stream" THEN [b EXCEPT !.stream = TRUE] ELSE b) /\ UNCHANGED <<kind, request>>
    BY <1>1 DEF Post
  <2>. HIDE DEF b
  <2>4. body'.messages = b.messages /\ body'.system = b.system
    BY <2>2, <2>3
  <2>5. /\ body'.messages = IF kind = "openai" THEN request.messages ELSE Unless("system", request)
        /\ kind = "anthropic" => body'.system = SystemText(request)
    BY <2>1, <2>4
  <2>. QED
    BY <2>3, <2>5 DEF BodyInv, Unless, SystemText
<1>2. CASE ~Post
  <2>1. UNCHANGED <<kind, request, body>>
    BY <1>2 DEF Next, vars, external, generator, Run, Reply, Refuse, Open, SayPiece, SayFinal, SayLast,
                SayNothing, HangUp, Says, Break, ReadLine, ReadEnd, ReadError, Relay, SendDone, Abandon
  <2>2. stage = "idle" => stage' = "idle"
    <3>1. stage = "idle" => chunk = <<>>
      BY DEF Inv, TypeInv
    <3>2. ~Relay \/ stage # "idle"
      BY <3>1 DEF Relay
    <3>. QED
      BY <1>2, <3>2 DEF Next, vars, external, generator, Run, Reply, Refuse, Open, SayPiece, SayFinal, SayLast,
                SayNothing, HangUp, Says, Break, ReadLine, ReadEnd, ReadError, SendDone, Abandon
  <2>. QED
    BY <2>1, <2>2 DEF BodyInv, Unless, SystemText
<1>. QED
  BY <1>1, <1>2

(* Whatever the conversation and wherever the system's texts stand in it,   *)
(* either provider is sent all of it, in order (build_request_body).        *)
THEOREM ConversationsAreKept == Spec => []ConversationKept
<1>1. Init => BodyInv
  BY DEF Init, BodyInv
<1>2. BodyInv => ConversationKept
  <2>. SUFFICES ASSUME BodyInv, stage = "posted" PROVE ConversationKept
    BY DEF ConversationKept
  <2>1. request.messages \in Seq(Range(request.messages))
    BY RequestsHaveMessages DEF BodyInv
  <2>2. CASE kind = "openai"
    <3>1. body.messages = request.messages
      BY <2>2 DEF BodyInv
    <3>. QED
      BY <2>2, <3>1 DEF ConversationKept, Unless, SystemText
  <2>3. CASE kind = "anthropic"
    <3>1. body.messages = Said(request.messages, Roles \ {"system"}) /\ body.system = SystemText(request)
      BY <2>3 DEF BodyInv, Unless
    <3>2. Said(body.messages, Roles \ {"system"}) = body.messages
      BY <2>1, <3>1, SaidTwice
    <3>. QED
      BY <2>3, <3>1, <3>2 DEF ConversationKept, Unless
  <2>. QED
    BY <2>2, <2>3 DEF BodyInv
<1>. QED
  BY <1>1, <1>2, BodyInvStep, Invariant, PTL DEF Spec
=============================================================================
