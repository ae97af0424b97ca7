---------------------------- MODULE Input_proofs ----------------------------
(***************************************************************************)
(* Proofs about what the port adds to the engine's events.  TextEntry, for *)
(* any sizes of buffers and events that leave room for one replacement:    *)
(* the field becomes what the keyboard returned, no key is left down, and  *)
(* a press is not missed.                                                  *)
(*                                                                         *)
(* What the induction needs is how far a replacement has come (Shape): so  *)
(* many keys are left, or so many events of text have been handed over;    *)
(* and how long the field can be by then (Replacing).                      *)
(*                                                                         *)
(* Cursor, for any keys that leave room for the touches of the frames they *)
(* are handed over in: touches arrive in their order.  There it is how the *)
(* touches are behind the keys (Behind), and that the queue shrinks by a   *)
(* key for every two touches a swap may add (Room).                        *)
(***************************************************************************)
EXTENDS MC_Input, SequenceTheorems, TLAPS

-----------------------------------------------------------------------------
(* The software keyboard. *)

Chars(n, s) == [i \in 1 .. n |-> s]

(* The events n characters take, and the characters the first c of them    *)
(* hold.                                                                   *)
EventsOf(n) == (n + CHUNK - 1) \div CHUNK
Sent(n, c) == Min({c * CHUNK, n})

Events == [type : {"KEYDOWN", "KEYUP", "TEXTINPUT"}, text : Seq(Int)]

TextTypeOK ==
  /\ queue \in Seq(Events)
  /\ keySent \in BOOLEAN /\ recent \in BOOLEAN /\ overlay \in BOOLEAN
  /\ tracked \in 0 .. MAX_TEXT - 1
  /\ fieldKnown \in BOOLEAN
  /\ pc \in {"drain", "look", "logic", "applet"}
  /\ field \in Seq(Int) /\ Len(field) <= FieldMax
  /\ looked \in BOOLEAN
  /\ sessions \in Nat

(* Of a replacement by n characters, m keys are left, or none and c events *)
(* of text have been handed over.                                          *)
Shape(m, n, c) ==
  /\ m = 0 \/ c = 0
  /\ c <= EventsOf(n)
  /\ Len(queue) = m + (EventsOf(n) - c)
  /\ \A i \in 1 .. m : queue[i] = IF (m - i) % 2 = 0 THEN Up ELSE Down
  /\ \A i \in 1 .. EventsOf(n) - c :
       queue[m + i] = Text(Chars(Sent(n, c + i) - Sent(n, c + i - 1), sessions))
  /\ overlay <=> m % 2 = 1

(* The keys left are enough for the field, and for what is tracked of it;  *)
(* what has been handed over is in the field, and tracked.  After the      *)
(* first replacement the field is never longer than what is tracked.       *)
Replacing(m, n, c) ==
  /\ want \notin {Unknown, Lost} =>
       /\ want = Chars(Min({n, FieldMax}), sessions)
       /\ c = 0 => Len(field) <= m \div 2
       /\ m = 0 => field = Chars(Min({Sent(n, c), FieldMax}), sessions)
  /\ want # Lost =>
       /\ queue # <<>> => tracked <= m \div 2 + Sent(n, c)
       /\ fieldKnown => Len(field) <= tracked \/ Len(field) <= m \div 2

(* A press the game has not seen belongs to the drain that goes on.        *)
SeenInv ==
  /\ pc = "drain" /\ ~looked => keySent
  /\ pc \in {"logic", "applet"} => looked

TextInv ==
  /\ TextTypeOK
  /\ pc = "applet" => queue = <<>>
  /\ \E m \in Nat, n \in 0 .. MAX_TEXT - 1, c \in Nat : Shape(m, n, c) /\ Replacing(m, n, c)

(* The queue has room for one replacement, and one is delivered before the *)
(* next one is queued.                                                     *)
OneFits ==
  /\ ~Reopens
  /\ \A n \in 0 .. MAX_TEXT - 1 : 2 * MAX_TEXT + EventsOf(n) <= RVE_QUEUE

-----------------------------------------------------------------------------
(* Numbers and sequences. *)

LEMMA MinOfTwo ==
  ASSUME NEW i \in Int, NEW j \in Int
  PROVE  Min({i, j}) = IF i <= j THEN i ELSE j
<1>1. CASE i <= j
  <2>1. \A x \in {i, j} : (x \in {i, j} /\ \A y \in {i, j} : x <= y) <=> x = i
    BY <1>1
  <2> QED BY <2>1, <1>1 DEF Min
<1>2. CASE ~(i <= j)
  <2>1. \A x \in {i, j} : (x \in {i, j} /\ \A y \in {i, j} : x <= y) <=> x = j
    BY <1>2
  <2> QED BY <2>1, <1>2 DEF Min
<1> QED BY <1>1, <1>2

LEMMA EventsEnough ==
  ASSUME NEW n \in Nat
  PROVE  /\ EventsOf(n) \in Nat
         /\ n <= EventsOf(n) * CHUNK
         /\ \A c \in 0 .. EventsOf(n) - 1 : c * CHUNK < n
         /\ n = 0 => EventsOf(n) = 0
<1>1. CHUNK \in Nat /\ CHUNK > 0
  BY TextAssumption
<1> DEFINE e == EventsOf(n)
<1>2. e \in Int /\ e * CHUNK <= n + CHUNK - 1 /\ n + CHUNK - 1 < e * CHUNK + CHUNK
  BY <1>1, Z3 DEF EventsOf
<1>3. e \in Nat
  BY <1>1 DEF EventsOf
<1>4. n <= e * CHUNK
  BY <1>1, <1>2
<1>5. \A c \in 0 .. e - 1 : c * CHUNK < n
  <2> SUFFICES ASSUME NEW c \in 0 .. e - 1 PROVE c * CHUNK < n
    OBVIOUS
  <2> HIDE DEF e
  <2>1. \E d \in Nat : e = c + 1 + d
    <3>1. e - c - 1 \in Nat
      BY <1>3
    <3> QED BY <3>1, <1>3
  <2>2. PICK d \in Nat : e = c + 1 + d
    BY <2>1
  <2>3. e * CHUNK = c * CHUNK + CHUNK + d * CHUNK
    BY <2>2, <1>1
  <2>4. d * CHUNK >= 0 /\ d * CHUNK \in Int /\ c * CHUNK \in Int /\ e * CHUNK \in Int
    BY <1>1, <1>3
  <2> QED BY <2>3, <2>4, <1>1, <1>2
<1>6. n = 0 => e = 0
  BY <1>1 DEF EventsOf
<1> QED BY <1>3, <1>4, <1>5, <1>6

LEMMA SentGrows ==
  ASSUME NEW n \in Nat, NEW c \in Nat, c <= EventsOf(n)
  PROVE  /\ Sent(n, c) \in 0 .. n
         /\ Sent(n, 0) = 0
         /\ Sent(n, EventsOf(n)) = n
         /\ c < EventsOf(n) => /\ Sent(n, c) = c * CHUNK
                               /\ Sent(n, c + 1) \in Sent(n, c) + 1 .. n
<1>1. CHUNK \in Nat /\ CHUNK > 0
  BY TextAssumption
<1>2. EventsOf(n) \in Nat /\ n <= EventsOf(n) * CHUNK
  BY EventsEnough
<1>3. \A d \in Nat : d * CHUNK \in Nat /\ Sent(n, d) = IF d * CHUNK <= n THEN d * CHUNK ELSE n
  BY <1>1, MinOfTwo DEF Sent
<1>4. Sent(n, c) \in 0 .. n
  BY <1>3
<1>5. Sent(n, 0) = 0
  BY <1>1, <1>3
<1>6. Sent(n, EventsOf(n)) = n
  BY <1>2, <1>3
<1>7. ASSUME c < EventsOf(n)
      PROVE  Sent(n, c) = c * CHUNK /\ Sent(n, c + 1) \in Sent(n, c) + 1 .. n
  <2>1. c * CHUNK < n
    BY <1>7, <1>2, EventsEnough
  <2>2. (c + 1) * CHUNK = c * CHUNK + CHUNK
    BY <1>1
  <2>3. c * CHUNK \in Nat /\ (c + 1) * CHUNK \in Nat
    BY <1>1
  <2> QED BY <1>1, <1>3, <2>1, <2>2, <2>3
<1> QED BY <1>4, <1>5, <1>6, <1>7

(* What rv_events_queue_text queues: events that together hold the text.   *)
LEMMA ChunksHold ==
  ASSUME NEW n \in Nat, NEW s \in Int
  PROVE  /\ Chunks(Chars(n, s)) \in Seq(Events)
         /\ Len(Chunks(Chars(n, s))) = EventsOf(n)
         /\ \A i \in 1 .. EventsOf(n) :
              Chunks(Chars(n, s))[i] = Text(Chars(Sent(n, i) - Sent(n, i - 1), s))
<1>1. Chars(n, s) \in Seq({s}) /\ Len(Chars(n, s)) = n
  BY DEF Chars
<1>2. EventsOf(n) \in Nat
  BY EventsEnough
<1>3. Chunks(Chars(n, s)) =
        [i \in 1 .. EventsOf(n) |->
           Text(SubSeq(Chars(n, s), (i - 1) * CHUNK + 1, Min({i * CHUNK, n})))]
  BY <1>1 DEF Chunks, EventsOf
<1>4. ASSUME NEW i \in 1 .. EventsOf(n)
      PROVE  SubSeq(Chars(n, s), (i - 1) * CHUNK + 1, Min({i * CHUNK, n}))
               = Chars(Sent(n, i) - Sent(n, i - 1), s)
  <2> DEFINE lo == Sent(n, i - 1)
             hi == Sent(n, i)
  <2>1. lo = (i - 1) * CHUNK /\ hi \in lo + 1 .. n /\ lo \in 0 .. n
    <3>1. PICK d \in Nat : d = i - 1 /\ i = d + 1 /\ d < EventsOf(n)
      BY <1>2
    <3>2. Sent(n, d) \in 0 .. n /\ Sent(n, d) = d * CHUNK /\ Sent(n, d + 1) \in Sent(n, d) + 1 .. n
      BY <1>2, <3>1, SentGrows
    <3> QED BY <3>1, <3>2
  <2>2. hi = Min({i * CHUNK, n})
    BY DEF Sent
  <2> HIDE DEF lo, hi
  <2>3. /\ SubSeq(Chars(n, s), lo + 1, hi) \in Seq({s})
        /\ Len(SubSeq(Chars(n, s), lo + 1, hi)) = hi - lo
    BY <1>1, <2>1
  <2>4. \A j \in 1 .. hi - lo : SubSeq(Chars(n, s), lo + 1, hi)[j] = s
    BY <2>3
  <2>5. SubSeq(Chars(n, s), lo + 1, hi) = Chars(hi - lo, s)
    BY <2>1, <2>3, <2>4 DEF Chars
  <2> QED BY <2>1, <2>2, <2>5 DEF lo, hi
<1>5. \A i \in 1 .. EventsOf(n) :
        Chunks(Chars(n, s))[i] = Text(Chars(Sent(n, i) - Sent(n, i - 1), s))
  BY <1>3, <1>4
<1>7. Len(Chunks(Chars(n, s))) = EventsOf(n)
  BY <1>2, <1>3
<1>8. \A i \in 1 .. EventsOf(n) : Text(Chars(Sent(n, i) - Sent(n, i - 1), s)) \in Events
  <2> TAKE i \in 1 .. EventsOf(n)
  <2>1. PICK d \in Nat : d = i - 1 /\ i = d + 1 /\ d < EventsOf(n)
    BY <1>2
  <2>2. Sent(n, i) - Sent(n, i - 1) \in Nat
    <3>1. Sent(n, d) \in 0 .. n /\ Sent(n, d + 1) \in Sent(n, d) + 1 .. n
      BY <1>2, <2>1, SentGrows
    <3> QED BY <2>1, <3>1
  <2>3. Chars(Sent(n, i) - Sent(n, i - 1), s) \in Seq(Int)
    <3>1. \A k \in Nat : Chars(k, s) \in Seq(Int)
      BY DEF Chars
    <3> QED BY <2>2, <3>1
  <2> QED BY <2>3 DEF Text, Events
<1>9. Chunks(Chars(n, s)) \in Seq(Events)
  <2>1. Chunks(Chars(n, s)) = [i \in 1 .. EventsOf(n) |-> Text(Chars(Sent(n, i) - Sent(n, i - 1), s))]
    BY <1>3, <1>4
  <2>2. [i \in 1 .. EventsOf(n) |-> Text(Chars(Sent(n, i) - Sent(n, i - 1), s))] \in Seq(Events)
    BY <1>2, <1>8
  <2> QED BY <2>1, <2>2
<1> QED BY <1>5, <1>7, <1>9

LEMMA FirstOf ==
  ASSUME NEW S, NEW seq \in Seq(S), NEW k \in 0 .. Len(seq)
  PROVE  /\ SubSeq(seq, 1, k) \in Seq(S) /\ Len(SubSeq(seq, 1, k)) = k
         /\ \A i \in 1 .. k : SubSeq(seq, 1, k)[i] = seq[i]
<1>1. Len(seq) \in Nat /\ \A i \in 1 .. k : seq[i] \in S
  BY ElementOfSeq, LenProperties
<1> QED BY <1>1, SubSeqProperties

LEMMA CharsAre ==
  ASSUME NEW n \in Nat, NEW s \in Int
  PROVE  /\ Chars(n, s) \in Seq(Int) /\ Len(Chars(n, s)) = n
         /\ n = 0 => Chars(n, s) = <<>>
         /\ \A k \in 0 .. n : SubSeq(Chars(n, s), 1, k) = Chars(k, s)
         /\ \A k \in Nat : Chars(n, s) \o Chars(k, s) = Chars(n + k, s)
<1>1. \A k \in Nat : Chars(k, s) \in Seq(Int) /\ Len(Chars(k, s)) = k /\ \A i \in 1 .. k : Chars(k, s)[i] = s
  BY DEF Chars
<1>2. n = 0 => Chars(n, s) = <<>>
  BY <1>1
<1>3. ASSUME NEW k \in 0 .. n PROVE SubSeq(Chars(n, s), 1, k) = Chars(k, s)
  <2> DEFINE u == SubSeq(Chars(n, s), 1, k)
  <2>1. u \in Seq(Int) /\ Len(u) = k /\ \A i \in 1 .. k : u[i] = s
    BY <1>1
  <2> HIDE DEF u
  <2>2. u = Chars(k, s)
    BY <2>1 DEF Chars
  <2> QED BY <2>2 DEF u
<1>4. ASSUME NEW k \in Nat PROVE Chars(n, s) \o Chars(k, s) = Chars(n + k, s)
  <2> DEFINE u == Chars(n, s) \o Chars(k, s)
  <2> DEFINE v == Chars(n, s)
             w == Chars(k, s)
  <2>0. /\ v \in Seq(Int) /\ Len(v) = n /\ \A i \in 1 .. n : v[i] = s
        /\ w \in Seq(Int) /\ Len(w) = k /\ \A i \in 1 .. k : w[i] = s
    BY <1>1
  <2> HIDE DEF v, w
  <2>1. v \o w \in Seq(Int) /\ Len(v \o w) = n + k /\ \A i \in 1 .. n + k : (v \o w)[i] = s
    <3>1. /\ v \o w \in Seq(Int) /\ Len(v \o w) = Len(v) + Len(w)
          /\ \A i \in 1 .. Len(v) + Len(w) : (v \o w)[i] = IF i <= Len(v) THEN v[i] ELSE w[i - Len(v)]
      BY <2>0, ConcatProperties
    <3> HIDE DEF u
    <3> QED BY <2>0, <3>1
  <2>3. u \in Seq(Int) /\ Len(u) = n + k /\ \A i \in 1 .. n + k : u[i] = s
    BY <2>1 DEF v, w
  <2> HIDE DEF u
  <2>2. u = Chars(n + k, s)
    BY <2>3 DEF Chars
  <2> QED BY <2>2 DEF u
<1> QED BY <1>1, <1>2, <1>3, <1>4

LEMMA BackspacesAre ==
  ASSUME NEW n \in Nat
  PROVE  /\ Backspaces(n) \in Seq(Events) /\ Len(Backspaces(n)) = 2 * n
         /\ \A i \in 1 .. 2 * n : Backspaces(n)[i] = IF (2 * n - i) % 2 = 0 THEN Up ELSE Down
<1>1. Down \in Events /\ Up \in Events
  BY DEF Down, Up, Events
<1>2. \A i \in 1 .. 2 * n : i % 2 = 1 <=> (2 * n - i) % 2 # 0
  OBVIOUS
<1>3. \A i \in 1 .. 2 * n : Backspaces(n)[i] = IF (2 * n - i) % 2 = 0 THEN Up ELSE Down
  BY <1>2 DEF Backspaces
<1>4. Backspaces(n) \in Seq(Events) /\ Len(Backspaces(n)) = 2 * n
  BY <1>1 DEF Backspaces
<1> QED BY <1>3, <1>4

(* What an event does to the game's field, and to what is tracked of it.   *)
LEMMA EditedIs ==
  ASSUME field \in Seq(Int), Len(field) <= FieldMax, NEW e \in Events
  PROVE  /\ Edited(e) \in Seq(Int) /\ Len(Edited(e)) <= FieldMax
         /\ e.type = "TEXTINPUT" =>
              Len(Edited(e)) = IF Len(field) + Len(e.text) <= FieldMax
                               THEN Len(field) + Len(e.text) ELSE FieldMax
         /\ e.type = "KEYDOWN" => Len(Edited(e)) = IF field = <<>> THEN 0 ELSE Len(field) - 1
         /\ e.type = "KEYUP" => Edited(e) = field
<1>1. FieldMax \in Nat /\ e.text \in Seq(Int)
  BY GameAssumption, TextAssumption DEF Events
<1>2. CASE e.type = "TEXTINPUT"
  <2> DEFINE longer == field \o e.text
             k == Min({Len(longer), FieldMax})
  <2>1. longer \in Seq(Int) /\ Len(longer) = Len(field) + Len(e.text) /\ Len(longer) \in Nat
    BY <1>1, ConcatProperties
  <2>2. k = IF Len(longer) <= FieldMax THEN Len(longer) ELSE FieldMax
    <3>1. \A x \in Nat : Min({x, FieldMax}) = IF x <= FieldMax THEN x ELSE FieldMax
      BY <1>1, MinOfTwo
    <3> HIDE DEF longer
    <3> QED BY <2>1, <3>1 DEF k
  <2>3. Edited(e) = SubSeq(longer, 1, k)
    BY <1>2 DEF Edited
  <2> HIDE DEF longer, k
  <2>4. SubSeq(longer, 1, k) \in Seq(Int) /\ Len(SubSeq(longer, 1, k)) = k
    <3>1. k \in 0 .. Len(longer)
      BY <1>1, <2>1, <2>2
    <3> QED BY <2>1, <3>1, FirstOf
  <2> QED BY <1>1, <1>2, <2>1, <2>2, <2>3, <2>4
<1>3. CASE e.type = "KEYDOWN"
  <2>1. CASE field = <<>>
    BY <1>1, <1>3, <2>1 DEF Edited
  <2>2. CASE field # <<>>
    <3>1. Edited(e) = SubSeq(field, 1, Len(field) - 1)
      BY <1>3, <2>2 DEF Edited, Front
    <3>2. Len(field) \in Nat \ {0} /\ Len(field) - 1 \in 0 .. Len(field)
      BY <2>2
    <3>3. SubSeq(field, 1, Len(field) - 1) \in Seq(Int) /\ Len(SubSeq(field, 1, Len(field) - 1)) = Len(field) - 1
      BY <3>2, FirstOf
    <3> QED BY <1>1, <1>3, <2>2, <3>1, <3>2, <3>3
  <2> QED BY <2>1, <2>2
<1>4. CASE e.type = "KEYUP"
  BY <1>1, <1>4 DEF Edited
<1> QED BY <1>2, <1>3, <1>4 DEF Events

LEMMA ObserveIs ==
  ASSUME tracked \in 0 .. MAX_TEXT - 1, NEW e \in Events
  PROVE  /\ Observe(e) \in 0 .. MAX_TEXT - 1
         /\ e.type = "TEXTINPUT" =>
              Observe(e) = IF tracked + Len(e.text) <= MAX_TEXT - 1
                           THEN tracked + Len(e.text) ELSE tracked
         /\ e.type = "KEYDOWN" => Observe(e) = IF tracked = 0 THEN 0 ELSE tracked - 1
         /\ e.type = "KEYUP" => Observe(e) = tracked
<1>1. e.text \in Seq(Int) /\ Len(e.text) \in Nat /\ MAX_TEXT \in Nat
  BY TextAssumption DEF Events
<1>2. e.type \in {"KEYDOWN", "KEYUP", "TEXTINPUT"}
  BY DEF Events
<1> QED BY <1>1, <1>2 DEF Observe

-----------------------------------------------------------------------------
(* One step of TextEntry. *)

LEMMA SizesAre ==
  /\ MAX_TEXT \in Nat \ {0} /\ MARGIN \in Nat /\ FieldMax \in 0 .. MAX_TEXT - 1 /\ RVE_QUEUE \in Nat
  BY TextAssumption, GameAssumption, QueueAssumption

(* The key or the text at the head of the queue is handed over. *)
LEMMA HandOver ==
  ASSUME TextInv, PollSynthetic
  PROVE  TextInv'
<1> DEFINE e == Head(queue)
<1>1. TextTypeOK /\ queue \in Seq(Events) /\ queue # <<>>
  BY DEF TextInv, TextTypeOK, PollSynthetic, Deliverable
<1>2. /\ Len(queue) \in Nat \ {0} /\ e \in Events /\ e = queue[1]
      /\ Tail(queue) \in Seq(Events) /\ Len(Tail(queue)) = Len(queue) - 1
      /\ \A i \in 1 .. Len(queue) - 1 : Tail(queue)[i] = queue[i + 1]
  BY <1>1, HeadTailProperties, ElementOfSeq
<1>3. /\ queue' = Tail(queue) /\ tracked' = Observe(e) /\ field' = Edited(e)
      /\ overlay' = (IF IsKey(e) THEN e = Down ELSE overlay)
      /\ fieldKnown' = fieldKnown /\ pc' = pc /\ pc = "drain"
      /\ sessions' = sessions /\ want' = want
  BY DEF PollSynthetic, history
<1>4. TextTypeOK'
  <2>1. field' \in Seq(Int) /\ Len(field') <= FieldMax /\ tracked' \in 0 .. MAX_TEXT - 1
    BY <1>1, <1>2, <1>3, EditedIs, ObserveIs DEF TextTypeOK
  <2>2. keySent' \in BOOLEAN /\ recent' \in BOOLEAN /\ overlay' \in BOOLEAN /\ looked' \in BOOLEAN
    BY <1>1 DEF PollSynthetic, TextTypeOK
  <2> HIDE DEF e
  <2> QED BY <1>1, <1>2, <1>3, <2>1, <2>2 DEF TextTypeOK
<1>5. PICK m \in Nat, n \in 0 .. MAX_TEXT - 1, c \in Nat : Shape(m, n, c) /\ Replacing(m, n, c)
  BY DEF TextInv
<1>6. EventsOf(n) \in Nat /\ n \in Nat
  BY EventsEnough, SizesAre
<1>7. \A k \in Nat : k <= EventsOf(n) => Sent(n, k) \in 0 .. n
  BY <1>6, SentGrows
<1>8. Len(field) \in Nat /\ (field = <<>> <=> Len(field) = 0) /\ tracked \in Nat
  BY <1>1, SizesAre DEF TextTypeOK
<1> sessions \in Nat /\ sessions \in Int
  BY <1>1 DEF TextTypeOK
<1>9. CASE m > 0
  <2>1. c = 0 /\ Sent(n, 0) = 0 /\ m - 1 \in Nat
    BY <1>5, <1>6, <1>9, SentGrows DEF Shape
  <2>2. e = IF (m - 1) % 2 = 0 THEN Up ELSE Down
    BY <1>2, <1>5, <1>9 DEF Shape
  <2>3. Shape(m - 1, n, 0)'
    <3>1. Len(queue') = m - 1 + (EventsOf(n) - 0)
      BY <1>2, <1>3, <1>5, <1>6, <2>1 DEF Shape
    <3>2. ASSUME NEW i \in 1 .. m - 1
          PROVE  queue'[i] = IF (m - 1 - i) % 2 = 0 THEN Up ELSE Down
      <4>1. queue'[i] = queue[i + 1] /\ i + 1 \in 1 .. m /\ m - (i + 1) = m - 1 - i
        BY <1>2, <1>3, <1>6, <3>1
      <4> QED BY <1>5, <4>1 DEF Shape
    <3>3. ASSUME NEW i \in 1 .. EventsOf(n) - 0
          PROVE  queue'[m - 1 + i] = Text(Chars(Sent(n, 0 + i) - Sent(n, 0 + i - 1), sessions))
      <4>1. queue'[m - 1 + i] = queue[m + i]
        BY <1>2, <1>3, <1>6, <1>9, <3>1
      <4> QED BY <1>5, <2>1, <4>1 DEF Shape
    <3>4. overlay' <=> (m - 1) % 2 = 1
      <4>1. Down # Up /\ IsKey(Down) /\ IsKey(Up) /\ (m - 1) % 2 \in {0, 1}
        BY <2>1 DEF IsKey, Down, Up
      <4> HIDE DEF e
      <4>2. CASE (m - 1) % 2 = 0
        <5>1. e = Up
          BY <2>2, <4>2
        <5>2. overlay' = FALSE
          BY <1>3, <4>1, <5>1, Zenon
        <5> QED BY <4>2, <5>2
      <4>3. CASE (m - 1) % 2 = 1
        <5>1. e = Down
          BY <2>2, <4>3
        <5>2. overlay' = TRUE
          BY <1>3, <4>1, <5>1, Zenon
        <5> QED BY <4>3, <5>2
      <4> QED BY <4>1, <4>2, <4>3
    <3>5. sessions' = sessions /\ 0 <= EventsOf(n)
      BY <1>3, <1>6
    <3> HIDE DEF e
    <3> QED BY <3>1, <3>2, <3>3, <3>4, <3>5 DEF Shape
  <2>4. /\ want \notin {Unknown, Lost} => Len(field) <= m \div 2
        /\ want # Lost => tracked <= m \div 2
        /\ want # Lost /\ fieldKnown => Len(field) <= tracked \/ Len(field) <= m \div 2
        /\ want \notin {Unknown, Lost} => want = Chars(Min({n, FieldMax}), sessions)
    <3>1. m \div 2 \in Nat
      OBVIOUS
    <3> HIDE DEF e
    <3> QED BY <1>1, <1>5, <1>8, <2>1, <3>1 DEF Replacing
  <2>5. /\ want \notin {Unknown, Lost} => Len(field') <= (m - 1) \div 2
        /\ want # Lost => tracked' <= (m - 1) \div 2
        /\ want # Lost /\ fieldKnown => Len(field') <= tracked' \/ Len(field') <= (m - 1) \div 2
    <3>1. CASE m % 2 = 0
      <4>1. e.type = "KEYDOWN" /\ (m - 1) \div 2 = m \div 2 - 1 /\ m \div 2 \in Nat \ {0}
        BY <1>9, <2>2, <3>1 DEF Down
      <4>2. /\ Len(field') = IF Len(field) = 0 THEN 0 ELSE Len(field) - 1
            /\ tracked' = IF tracked = 0 THEN 0 ELSE tracked - 1
        BY <1>1, <1>2, <1>3, <1>8, <4>1, EditedIs, ObserveIs DEF TextTypeOK
      <4> QED BY <1>8, <2>4, <4>1, <4>2
    <3>2. CASE m % 2 = 1
      <4>1. e.type = "KEYUP" /\ (m - 1) \div 2 = m \div 2 /\ m \div 2 \in Nat
        BY <1>9, <2>2, <3>2 DEF Up
      <4>2. field' = field /\ tracked' = tracked
        BY <1>1, <1>2, <1>3, <4>1, EditedIs, ObserveIs DEF TextTypeOK
      <4> QED BY <1>8, <2>4, <4>1, <4>2
    <3> QED BY <3>1, <3>2
  <2>6. m - 1 = 0 /\ want \notin {Unknown, Lost} => field' = Chars(Min({Sent(n, 0), FieldMax}), sessions)
    <3>1. Min({Sent(n, 0), FieldMax}) = 0
      BY <2>1, SizesAre, MinOfTwo
    <3>2. Chars(0, sessions) = <<>>
      BY CharsAre
    <3>3. m - 1 = 0 /\ want \notin {Unknown, Lost} => Len(field') = 0
      <4>1. 0 \div 2 = 0 /\ Len(field') \in Nat
        BY <1>4 DEF TextTypeOK
      <4> QED BY <2>5, <4>1
    <3>4. Len(field') = 0 => field' = <<>>
      BY <1>4 DEF TextTypeOK
    <3> QED BY <3>1, <3>2, <3>3, <3>4
  <2>7. Replacing(m - 1, n, 0)'
    <3>1. (m - 1) \div 2 \in Nat /\ tracked' \in Nat
      BY <1>4, <2>1, SizesAre DEF TextTypeOK
    <3> HIDE DEF e
    <3> QED BY <1>3, <2>1, <2>4, <2>5, <2>6, <3>1 DEF Replacing
  <2> HIDE DEF e
  <2> QED BY <1>3, <1>4, <2>1, <2>3, <2>7 DEF TextInv
<1>10. CASE m = 0
  <2>1. c < EventsOf(n) /\ c + 1 \in Nat /\ c + 1 <= EventsOf(n)
    BY <1>2, <1>5, <1>6, <1>10 DEF Shape
  <2> DEFINE k == Sent(n, c + 1) - Sent(n, c)
  <2>2. k \in Nat \ {0} /\ Sent(n, c) \in 0 .. n /\ Sent(n, c + 1) \in 0 .. n
    BY <1>6, <2>1, SentGrows
  <2>3. e = Text(Chars(k, sessions))
    <3>1. 1 \in 1 .. EventsOf(n) - c
      BY <1>6, <2>1
    <3>2. queue[m + 1] = Text(Chars(Sent(n, c + 1) - Sent(n, c + 1 - 1), sessions))
      BY <1>5, <3>1 DEF Shape
    <3> QED BY <1>2, <1>10, <3>2
  <2> HIDE DEF k
  <2>4. e.type = "TEXTINPUT" /\ e.text = Chars(k, sessions) /\ Len(e.text) = k
    <3>1. Len(Chars(k, sessions)) = k
      BY <2>2, CharsAre
    <3> HIDE DEF e
    <3> QED BY <2>3, <3>1 DEF Text
  <2>5. Shape(0, n, c + 1)'
    <3>1. Len(queue') = 0 + (EventsOf(n) - (c + 1))
      BY <1>2, <1>3, <1>5, <1>6, <1>10, <2>1 DEF Shape
    <3>2. ASSUME NEW i \in 1 .. EventsOf(n) - (c + 1)
          PROVE  queue'[0 + i] = Text(Chars(Sent(n, c + 1 + i) - Sent(n, c + 1 + i - 1), sessions))
      <4>1. i + 1 \in 1 .. EventsOf(n) - c /\ c + (i + 1) = c + 1 + i /\ c + (i + 1) - 1 = c + 1 + i - 1
        BY <1>6, <2>1
      <4>2. queue[m + (i + 1)] = Text(Chars(Sent(n, c + 1 + i) - Sent(n, c + 1 + i - 1), sessions))
        BY <1>5, <4>1 DEF Shape
      <4>3. queue'[0 + i] = queue[m + (i + 1)]
        BY <1>2, <1>3, <1>6, <1>10, <3>1
      <4> QED BY <4>2, <4>3
    <3>3. overlay' <=> 0 % 2 = 1
      <4>1. ~IsKey(e)
        BY <2>4 DEF IsKey
      <4>2. ~overlay
        BY <1>5, <1>10 DEF Shape
      <4>3. overlay' = overlay
        BY <1>3, <4>1, Zenon
      <4> QED BY <4>2, <4>3
    <3> HIDE DEF e
    <3>4. \A i \in 1 .. 0 : queue'[i] = IF (0 - i) % 2 = 0 THEN Up ELSE Down
      OBVIOUS
    <3>5. sessions' = sessions
      BY <1>3
    <3> QED BY <2>1, <3>1, <3>2, <3>3, <3>4, <3>5 DEF Shape
  <2>6. want \notin {Unknown, Lost} => field' = Chars(Min({Sent(n, c + 1), FieldMax}), sessions)
    <3> SUFFICES ASSUME want \notin {Unknown, Lost}
                 PROVE  field' = Chars(Min({Sent(n, c + 1), FieldMax}), sessions)
      OBVIOUS
    <3> DEFINE f == Min({Sent(n, c), FieldMax})
               h == Min({Sent(n, c + 1), FieldMax})
    <3>1. /\ f = IF Sent(n, c) <= FieldMax THEN Sent(n, c) ELSE FieldMax
          /\ h = IF Sent(n, c + 1) <= FieldMax THEN Sent(n, c + 1) ELSE FieldMax
      BY <2>2, SizesAre, MinOfTwo
    <3>2. field = Chars(f, sessions)
      BY <1>5, <1>10 DEF Replacing
    <3>3. Sent(n, c + 1) = Sent(n, c) + k
      BY <2>2 DEF k
    <3> HIDE DEF f, h
    <3>4. f \in Nat /\ h \in 0 .. f + k
      BY <2>2, <3>1, <3>3, SizesAre
    <3>5. Min({f + k, FieldMax}) = h
      <4>1. Min({f + k, FieldMax}) = IF f + k <= FieldMax THEN f + k ELSE FieldMax
        BY <2>2, <3>4, SizesAre, MinOfTwo
      <4> QED BY <2>2, <3>1, <3>3, <3>4, <4>1, SizesAre
    <3>6. field \o e.text = Chars(f + k, sessions) /\ Len(field \o e.text) = f + k
      <4>1. f \in Nat /\ k \in Nat /\ f + k \in Nat
        BY <2>2, <3>4
      <4>2. Chars(f, sessions) \o Chars(k, sessions) = Chars(f + k, sessions)
        BY <4>1, CharsAre, Zenon
      <4>3. Len(Chars(f + k, sessions)) = f + k
        BY <4>1, CharsAre
      <4> QED BY <2>4, <3>2, <4>2, <4>3
    <3>7. Edited(e) = SubSeq(field \o e.text, 1, Min({f + k, FieldMax}))
      BY <2>4, <3>6 DEF Edited
    <3>8. SubSeq(Chars(f + k, sessions), 1, h) = Chars(h, sessions)
      <4>1. f + k \in Nat
        BY <2>2, <3>4
      <4> QED BY <3>4, <4>1, CharsAre
    <3> QED BY <1>3, <3>5, <3>6, <3>7, <3>8 DEF h
  <2>7. want # Lost => tracked <= Sent(n, c) /\ tracked' = tracked + k
    <3>1. want # Lost => tracked <= 0 \div 2 + Sent(n, c)
      BY <1>1, <1>5, <1>10 DEF Replacing
    <3>2. tracked' = IF tracked + k <= MAX_TEXT - 1 THEN tracked + k ELSE tracked
      BY <1>1, <1>2, <1>3, <2>4, ObserveIs DEF TextTypeOK
    <3>3. Sent(n, c + 1) = Sent(n, c) + k
      BY <2>2 DEF k
    <3> QED BY <1>8, <2>2, <3>1, <3>2, <3>3, SizesAre
  <2>8. want # Lost /\ fieldKnown => Len(field') <= tracked'
    <3>1. want # Lost /\ fieldKnown => Len(field) <= tracked \/ Len(field) <= 0 \div 2
      BY <1>5, <1>10 DEF Replacing
    <3>2. Len(field') = IF Len(field) + k <= FieldMax THEN Len(field) + k ELSE FieldMax
      BY <1>1, <1>2, <1>3, <2>4, EditedIs DEF TextTypeOK
    <3> QED BY <1>8, <2>2, <2>7, <3>1, <3>2, SizesAre
  <2>9. Replacing(0, n, c + 1)'
    <3>1. want \notin {Unknown, Lost} => want = Chars(Min({n, FieldMax}), sessions)
      BY <1>5 DEF Replacing
    <3>2. Sent(n, c + 1) = Sent(n, c) + k
      BY <2>2 DEF k
    <3>3. c + 1 # 0 /\ 0 \div 2 = 0
      OBVIOUS
    <3>4. want # Lost => tracked' <= 0 \div 2 + Sent(n, c + 1)
      BY <1>8, <2>2, <2>7, <3>2, <3>3
    <3> HIDE DEF e
    <3> QED BY <1>3, <2>6, <2>8, <3>1, <3>3, <3>4 DEF Replacing
  <2> HIDE DEF e
  <2> QED BY <1>3, <1>4, <2>1, <2>5, <2>9 DEF TextInv
<1> QED BY <1>9, <1>10

(* A real key or real text comes in between. *)
LEMMA Interrupted ==
  ASSUME TextInv, NEW e \in RealEvents, PollReal(e)
  PROVE  TextInv'
<1>1. TextTypeOK /\ e \in Events
  <2>1. <<0>> \in Seq(Int) /\ <<>> \in Seq(Int)
    OBVIOUS
  <2>2. Down \in Events
    BY <2>1 DEF Down, Events
  <2>3. Text(<<0>>) \in Events
    BY <2>1 DEF Text, Events
  <2> QED BY <2>2, <2>3 DEF TextInv, RealEvents
<1>2. /\ tracked' = Observe(e) /\ field' = Edited(e)
      /\ want' = IF want = Lost \/ (queue # <<>> /\ e # Down) THEN Lost ELSE Unknown
      /\ queue' = queue /\ overlay' = overlay /\ keySent' = keySent /\ recent' = recent
      /\ fieldKnown' = fieldKnown /\ pc' = pc /\ pc = "drain" /\ looked' = looked
      /\ sessions' = sessions
  BY DEF PollReal, events
<1>3. TextTypeOK'
  <2>1. field' \in Seq(Int) /\ Len(field') <= FieldMax /\ tracked' \in 0 .. MAX_TEXT - 1
    BY <1>1, <1>2, EditedIs, ObserveIs DEF TextTypeOK
  <2> QED BY <1>1, <1>2, <2>1 DEF TextTypeOK
<1>4. PICK m \in Nat, n \in 0 .. MAX_TEXT - 1, c \in Nat : Shape(m, n, c) /\ Replacing(m, n, c)
  BY DEF TextInv
<1>5. Shape(m, n, c)'
  BY <1>2, <1>4 DEF Shape
<1>6. Len(field) \in Nat /\ (field = <<>> <=> Len(field) = 0) /\ tracked \in 0 .. MAX_TEXT - 1
  BY <1>1 DEF TextTypeOK
<1>7. m \div 2 \in Nat /\ Sent(n, c) \in Nat
  <2>1. n \in Nat /\ EventsOf(n) \in Nat /\ c <= EventsOf(n)
    BY <1>4, SizesAre, EventsEnough DEF Shape
  <2> QED BY <2>1, SentGrows
<1>8. want' # Lost => /\ want # Lost /\ want' = Unknown
                      /\ queue = <<>> \/ e = Down
  BY <1>2
<1>9. want' # Lost => /\ queue # <<>> => tracked' <= m \div 2 + Sent(n, c)
                      /\ fieldKnown => Len(field') <= tracked' \/ Len(field') <= m \div 2
  <2> SUFFICES ASSUME want' # Lost
               PROVE  /\ queue # <<>> => tracked' <= m \div 2 + Sent(n, c)
                      /\ fieldKnown => Len(field') <= tracked' \/ Len(field') <= m \div 2
    OBVIOUS
  <2>1. /\ queue # <<>> => tracked <= m \div 2 + Sent(n, c)
        /\ fieldKnown => Len(field) <= tracked \/ Len(field) <= m \div 2
    BY <1>4, <1>8 DEF Replacing
  <2>2. CASE e = Down
    <3>1. e.type = "KEYDOWN"
      BY <2>2 DEF Down
    <3>2. /\ Len(field') = IF Len(field) = 0 THEN 0 ELSE Len(field) - 1
          /\ tracked' = IF tracked = 0 THEN 0 ELSE tracked - 1
      BY <1>1, <1>2, <1>6, <3>1, EditedIs, ObserveIs DEF TextTypeOK
    <3> QED BY <1>6, <1>7, <2>1, <3>2, SizesAre
  <2>3. CASE e # Down
    <3>1. queue = <<>> /\ e = Text(<<0>>)
      BY <1>8, <2>3 DEF RealEvents
    <3>2. e.type = "TEXTINPUT" /\ Len(e.text) = 1
      BY <3>1 DEF Text
    <3>3. m \div 2 = 0
      <4>1. m = 0
        <5>1. n \in Nat /\ EventsOf(n) \in Nat /\ Len(queue) = 0
          BY <3>1, SizesAre, EventsEnough
        <5> QED BY <1>4, <5>1 DEF Shape
      <4> QED BY <4>1
    <3>4. /\ Len(field') = IF Len(field) + 1 <= FieldMax THEN Len(field) + 1 ELSE FieldMax
          /\ tracked' = IF tracked + 1 <= MAX_TEXT - 1 THEN tracked + 1 ELSE tracked
      BY <1>1, <1>2, <3>2, EditedIs, ObserveIs DEF TextTypeOK
    <3> QED BY <1>6, <2>1, <3>1, <3>3, <3>4, SizesAre
  <2> QED BY <2>2, <2>3
<1>10. Replacing(m, n, c)'
  BY <1>2, <1>8, <1>9 DEF Replacing
<1> QED BY <1>2, <1>3, <1>5, <1>10 DEF TextInv

(* The game empties its field. *)
LEMMA Emptied ==
  ASSUME TextInv, FieldReset
  PROVE  TextInv'
<1>1. TextTypeOK
  BY DEF TextInv
<1>2. /\ field' = <<>> /\ tracked' = tracked
      /\ want' = IF want = Lost /\ queue # <<>> THEN Lost ELSE Unknown
      /\ queue' = queue /\ overlay' = overlay /\ keySent' = keySent /\ recent' = recent
      /\ fieldKnown' = fieldKnown /\ pc' = pc /\ pc = "logic" /\ looked' = looked
      /\ sessions' = sessions
  BY DEF FieldReset, events, input
<1>3. TextTypeOK'
  BY <1>1, <1>2, SizesAre DEF TextTypeOK
<1>4. PICK m \in Nat, n \in 0 .. MAX_TEXT - 1, c \in Nat : Shape(m, n, c) /\ Replacing(m, n, c)
  BY DEF TextInv
<1>5. Shape(m, n, c)'
  BY <1>2, <1>4 DEF Shape
<1>6. want' # Lost => /\ want' = Unknown
                      /\ queue # <<>> => tracked <= m \div 2 + Sent(n, c)
  BY <1>2, <1>4 DEF Replacing
<1>7. Len(field') = 0 /\ tracked \in Nat
  BY <1>1, <1>2, SizesAre DEF TextTypeOK
<1>8. Replacing(m, n, c)'
  BY <1>2, <1>6, <1>7 DEF Replacing
<1> QED BY <1>2, <1>3, <1>5, <1>8 DEF TextInv

(* The keyboard returns a text, and its replacement is queued. *)
LEMMA Queued ==
  ASSUME TextInv, OneFits, NEW n \in 0 .. MAX_TEXT - 1, AppletReturns(n)
  PROVE  TextInv'
<1> DEFINE result == Chars(n, sessions + 1)
<1>1. TextTypeOK /\ queue = <<>> /\ Len(queue) = 0
  BY DEF TextInv, AppletReturns
<1>2. /\ queue' = EnqueueAll(queue, Backspaces(BackspaceCount) \o Chunks(result))
      /\ fieldKnown' = TRUE /\ pc' = "logic" /\ sessions' = sessions + 1
      /\ want' = IF want = Lost THEN Lost ELSE SubSeq(result, 1, Min({n, FieldMax}))
      /\ overlay' = overlay /\ keySent' = keySent /\ recent' = recent
      /\ tracked' = tracked /\ field' = field /\ looked' = looked
  BY DEF AppletReturns, Chars
<1>3. n \in Nat /\ sessions \in Nat /\ sessions + 1 \in Int /\ EventsOf(n) \in Nat
  BY <1>1, SizesAre, EventsEnough DEF TextTypeOK
<1>4. PICK m0 \in Nat, n0 \in 0 .. MAX_TEXT - 1, c0 \in Nat : Shape(m0, n0, c0) /\ Replacing(m0, n0, c0)
  BY DEF TextInv
<1>5. m0 = 0 /\ ~overlay
  <2>1. n0 \in Nat /\ EventsOf(n0) \in Nat
    BY SizesAre, EventsEnough
  <2>2. m0 = 0
    BY <1>1, <1>4, <2>1 DEF Shape
  <2> QED BY <1>4, <2>2 DEF Shape
<1>6. Len(field) \in 0 .. FieldMax /\ tracked \in 0 .. MAX_TEXT - 1
  BY <1>1, SizesAre DEF TextTypeOK
(* There are keys enough for what is tracked of the field, and for it. *)
<1>7. PICK b \in 0 .. MAX_TEXT :
        /\ b = BackspaceCount /\ tracked <= b
        /\ want # Lost => Len(field) <= b
  <2>1. CASE fieldKnown
    <3>1. BackspaceCount = IF tracked + MARGIN <= MAX_TEXT THEN tracked + MARGIN ELSE MAX_TEXT
      BY <1>6, <2>1, SizesAre, MinOfTwo DEF BackspaceCount
    <3>2. want # Lost => Len(field) <= tracked \/ Len(field) <= 0 \div 2
      BY <1>4, <1>5, <2>1 DEF Replacing
    <3> QED BY <1>6, <3>1, <3>2, SizesAre
  <2>2. CASE ~fieldKnown
    BY <1>6, <2>2, SizesAre DEF BackspaceCount
  <2> QED BY <2>1, <2>2
<1> b \in Nat
  OBVIOUS
<1> DEFINE es == Backspaces(b) \o Chunks(result)
<1>8. /\ Len(es) = 2 * b + EventsOf(n)
      /\ \A i \in 1 .. 2 * b : es[i] = IF (2 * b - i) % 2 = 0 THEN Up ELSE Down
      /\ \A i \in 1 .. EventsOf(n) :
           es[2 * b + i] = Text(Chars(Sent(n, i) - Sent(n, i - 1), sessions + 1))
      /\ es \in Seq(Events)
  <2> DEFINE ks == Backspaces(b)
             ts == Chunks(result)
  <2>1. /\ ks \in Seq(Events) /\ Len(ks) = 2 * b
        /\ \A i \in 1 .. 2 * b : ks[i] = IF (2 * b - i) % 2 = 0 THEN Up ELSE Down
    BY BackspacesAre
  <2>2. /\ ts \in Seq(Events) /\ Len(ts) = EventsOf(n)
        /\ \A i \in 1 .. EventsOf(n) : ts[i] = Text(Chars(Sent(n, i) - Sent(n, i - 1), sessions + 1))
    BY <1>3, ChunksHold
  <2> HIDE DEF ks, ts
  <2>3. /\ ks \o ts \in Seq(Events) /\ Len(ks \o ts) = Len(ks) + Len(ts)
        /\ \A i \in 1 .. Len(ks) + Len(ts) :
             (ks \o ts)[i] = IF i <= Len(ks) THEN ks[i] ELSE ts[i - Len(ks)]
    BY <2>1, <2>2, ConcatProperties
  <2>4. es = ks \o ts
    BY DEF ks, ts
  <2> HIDE DEF es
  <2>5. \A i \in 1 .. 2 * b : es[i] = ks[i]
    BY <1>3, <2>1, <2>2, <2>3, <2>4
  <2>6. \A i \in 1 .. EventsOf(n) : es[2 * b + i] = ts[i]
    <3> TAKE i \in 1 .. EventsOf(n)
    <3>1. 2 * b + i \in 1 .. 2 * b + EventsOf(n) /\ ~(2 * b + i <= 2 * b) /\ 2 * b + i - 2 * b = i
      BY <1>3
    <3> QED BY <2>1, <2>2, <2>3, <2>4, <3>1
  <2> QED BY <2>1, <2>2, <2>3, <2>4, <2>5, <2>6
<1> HIDE DEF es
<1>9. queue' = es
  <2>1. Len(es) \in Nat /\ Len(es) <= RVE_QUEUE
    <3>1. 2 * MAX_TEXT + EventsOf(n) <= RVE_QUEUE
      BY DEF OneFits
    <3> QED BY <1>3, <1>8, <3>1, SizesAre
  <2>2. Min({Len(es), RVE_QUEUE - 0}) = Len(es)
    BY <2>1, SizesAre, MinOfTwo
  <2>3. SubSeq(es, 1, Len(es)) = es
    BY <1>8, SubSeqFull
  <2>4. <<>> \o es = es
    BY <1>8, ConcatEmptySeq
  <2> HIDE DEF result
  <2>5. queue' = EnqueueAll(<<>>, es)
    <3>1. queue' = EnqueueAll(queue, Backspaces(BackspaceCount) \o Chunks(result))
      BY <1>2
    <3>2. es = Backspaces(BackspaceCount) \o Chunks(result)
      BY <1>7 DEF es
    <3>3. queue = <<>>
      BY <1>1
    <3> QED BY <3>1, <3>2, <3>3, Zenon
  <2>6. Len(<<>>) = 0
    BY <1>1
  <2> QED BY <2>2, <2>3, <2>4, <2>5, <2>6 DEF EnqueueAll
<1>10. TextTypeOK'
  BY <1>1, <1>2, <1>8, <1>9 DEF TextTypeOK
<1>11. Shape(2 * b, n, 0)'
  <2>1. \A i \in 1 .. EventsOf(n) - 0 :
           es[2 * b + i] = Text(Chars(Sent(n, 0 + i) - Sent(n, 0 + i - 1), sessions + 1))
    <3> TAKE i \in 1 .. EventsOf(n) - 0
    <3>1. i \in 1 .. EventsOf(n) /\ 0 + i = i /\ 0 + i - 1 = i - 1
      BY <1>3
    <3> QED BY <1>8, <3>1
  <2>2. ~overlay' /\ (2 * b) % 2 = 0
    BY <1>2, <1>5, <1>7
  <2>3. Len(es) = 2 * b + (EventsOf(n) - 0) /\ 0 <= EventsOf(n)
    BY <1>3, <1>7, <1>8
  <2>4. sessions' = sessions + 1
    BY <1>2
  <2> HIDE DEF result
  <2> QED BY <1>8, <1>9, <2>1, <2>2, <2>3, <2>4 DEF Shape
<1>12. Replacing(2 * b, n, 0)'
  <2>1. (2 * b) \div 2 = b /\ b \in Nat /\ Sent(n, 0) = 0
    BY <1>3, <1>7, SentGrows
  <2>2. want' # Lost => want # Lost /\ want' = Chars(Min({n, FieldMax}), sessions + 1)
    <3>1. Min({n, FieldMax}) \in 0 .. n
      BY <1>3, SizesAre, MinOfTwo
    <3>2. SubSeq(result, 1, Min({n, FieldMax})) = Chars(Min({n, FieldMax}), sessions + 1)
      BY <1>3, <3>1, CharsAre
    <3> QED BY <1>2, <3>2
  <2>3. 2 * b = 0 /\ want' # Lost => field' = Chars(Min({Sent(n, 0), FieldMax}), sessions + 1)
    <3>1. Min({Sent(n, 0), FieldMax}) = 0
      BY <2>1, SizesAre, MinOfTwo
    <3>2. Chars(0, sessions + 1) = <<>>
      BY <1>3, CharsAre
    <3>3. Len(field) = 0 => field = <<>>
      BY <1>1 DEF TextTypeOK
    <3>4. 2 * b = 0 /\ want' # Lost => Len(field) = 0
      BY <1>6, <1>7, <2>2
    <3> HIDE DEF result
    <3> QED BY <1>2, <3>1, <3>2, <3>3, <3>4
  <2>4. /\ want' # Lost => Len(field') <= (2 * b) \div 2
        /\ tracked' <= (2 * b) \div 2 + Sent(n, 0)
    BY <1>2, <1>6, <1>7, <2>1, <2>2
  <2>5. sessions' = sessions + 1
    BY <1>2
  <2> HIDE DEF result
  <2> QED BY <2>2, <2>3, <2>4, <2>5 DEF Replacing
<1>13. 2 * b \in Nat
  BY <1>7
<1> QED BY <1>2, <1>10, <1>11, <1>12, <1>13 DEF TextInv

(* What touches neither the queue, nor the field, nor the text wanted. *)
LEMMA Elsewhere ==
  ASSUME TextInv, keySent' \in BOOLEAN, recent' \in BOOLEAN, looked' \in BOOLEAN,
         pc' \in {"drain", "look", "logic", "applet"},
         pc' = "applet" => queue = <<>>,
         UNCHANGED <<queue, overlay, tracked, fieldKnown, field, sessions, want>>
  PROVE  TextInv'
<1>1. TextTypeOK'
  BY DEF TextInv, TextTypeOK
<1>2. PICK m \in Nat, n \in 0 .. MAX_TEXT - 1, c \in Nat : Shape(m, n, c) /\ Replacing(m, n, c)
  BY DEF TextInv
<1>3. Shape(m, n, c)'
  BY <1>2 DEF Shape
<1>4. Replacing(m, n, c)'
  BY <1>2 DEF Replacing
<1> QED BY <1>1, <1>3, <1>4 DEF TextInv

LEMMA TextInitInv == Init => TextInv
<1> SUFFICES ASSUME Init PROVE TextInv
  OBVIOUS
<1>1. PICK k \in 0 .. FieldMax : field = [i \in 1 .. k |-> 0]
  BY DEF Init
<1>2. field \in Seq(Int) /\ Len(field) <= FieldMax
  BY <1>1, SizesAre
<1>3. TextTypeOK
  <2>1. /\ queue = <<>> /\ keySent = FALSE /\ recent = FALSE /\ overlay = FALSE
        /\ tracked = 0 /\ fieldKnown = FALSE /\ pc = "drain" /\ looked = TRUE /\ sessions = 0
    BY DEF Init
  <2>2. queue \in Seq(Events) /\ tracked \in 0 .. MAX_TEXT - 1
    BY <2>1, SizesAre
  <2> QED BY <1>2, <2>1, <2>2 DEF TextTypeOK
<1>4. EventsOf(0) = 0 /\ 0 \in 0 .. MAX_TEXT - 1
  BY SizesAre, EventsEnough
<1>5. Shape(0, 0, 0)
  BY <1>4 DEF Init, Shape
<1>6. Replacing(0, 0, 0)
  BY DEF Init, Replacing
<1> QED BY <1>3, <1>4, <1>5, <1>6 DEF Init, TextInv

LEMMA TextStep == TextInv /\ OneFits /\ [Next]_vars => TextInv'
<1> SUFFICES ASSUME TextInv, OneFits, [Next]_vars PROVE TextInv'
  OBVIOUS
<1>0. TextTypeOK /\ (pc = "applet" => queue = <<>>)
  BY DEF TextInv
<1>1. ASSUME PollSynthetic PROVE TextInv'
  BY <1>1, HandOver
<1>2. ASSUME NEW e \in RealEvents, PollReal(e) PROVE TextInv'
  BY <1>2, Interrupted
<1>3. ASSUME DrainEnds PROVE TextInv'
  BY <1>0, <1>3, Elsewhere DEF DrainEnds, input, history, TextTypeOK
<1>4. ASSUME IntervalPasses PROVE TextInv'
  BY <1>0, <1>4, Elsewhere DEF IntervalPasses, input, game, history, TextTypeOK
<1>5. ASSUME ReadKeyboard PROVE TextInv'
  BY <1>0, <1>5, Elsewhere DEF ReadKeyboard, events, input, history, TextTypeOK
<1>6. ASSUME FieldReset PROVE TextInv'
  BY <1>6, Emptied
<1>7. ASSUME NextFrame PROVE TextInv'
  BY <1>0, <1>7, Elsewhere DEF NextFrame, events, input, history, TextTypeOK
<1>8. ASSUME StartHeldBack PROVE TextInv'
  BY <1>0, <1>8, Elsewhere DEF StartHeldBack, events, game, history, TextTypeOK
(* Text input is started again only when the last replacement is through. *)
<1>9. ASSUME StartShowsKeyboard PROVE TextInv'
  <2>1. queue = <<>>
    BY <1>9 DEF StartShowsKeyboard, OneFits
  <2> QED BY <1>0, <1>9, <2>1, Elsewhere DEF StartShowsKeyboard, events, history, TextTypeOK
<1>10. ASSUME StopTextInput PROVE TextInv'
  BY <1>0, <1>10, Elsewhere DEF StopTextInput, events, game, history, TextTypeOK
<1>11. ASSUME CooldownPasses PROVE TextInv'
  BY <1>0, <1>11, Elsewhere DEF CooldownPasses, events, game, history, TextTypeOK
<1>12. ASSUME AppletUnavailable PROVE TextInv'
  BY <1>0, <1>12, Elsewhere DEF AppletUnavailable, events, input, history, TextTypeOK
<1>13. ASSUME AppletCancelled PROVE TextInv'
  BY <1>0, <1>13, Elsewhere DEF AppletCancelled, events, history, TextTypeOK
<1>14. ASSUME NEW n \in 0 .. MAX_TEXT - 1, AppletReturns(n) PROVE TextInv'
  BY <1>14, Queued
<1>15. ASSUME UNCHANGED vars PROVE TextInv'
  BY <1>0, <1>15, Elsewhere DEF vars, events, input, game, history, TextTypeOK
<1> QED BY <1>1, <1>2, <1>3, <1>4, <1>5, <1>6, <1>7, <1>8, <1>9, <1>10, <1>11, <1>12, <1>13,
           <1>14, <1>15 DEF Next

-----------------------------------------------------------------------------
(* What TextEntry promises. *)

(* As long as the queue has room for one replacement and text input is not *)
(* started again while one is on its way, a replacement is handed over as  *)
(* it was queued: keys in pairs, then the text, with keys enough.          *)
THEOREM TextInvariant == OneFits => (Spec => []TextInv)
<1> SUFFICES ASSUME OneFits PROVE Spec => []TextInv
  OBVIOUS
<1>1. TextInv /\ [Next]_vars => TextInv'
  BY TextStep
<1> QED BY <1>1, TextInitInv, PTL DEF Spec

(* Whatever the sizes, the field becomes what the keyboard returned, unless *)
(* it was typed in while it was being replaced.                             *)
THEOREM FieldIsReplaced == OneFits => (Spec => []ReplacementExact)
<1> SUFFICES ASSUME OneFits PROVE Spec => []ReplacementExact
  OBVIOUS
<1>1. TextInv => ReplacementExact
  <2> SUFFICES ASSUME TextInv, queue = <<>>, want \notin {Unknown, Lost} PROVE field = want
    BY DEF ReplacementExact
  <2>1. PICK m \in Nat, n \in 0 .. MAX_TEXT - 1, c \in Nat : Shape(m, n, c) /\ Replacing(m, n, c)
    BY DEF TextInv
  <2>2. n \in Nat /\ EventsOf(n) \in Nat /\ Sent(n, EventsOf(n)) = n
    <3>1. n \in Nat /\ EventsOf(n) \in Nat
      BY SizesAre, EventsEnough
    <3> QED BY <3>1, SentGrows
  <2>3. Len(queue) = 0
    OBVIOUS
  <2>4. m = 0 /\ c = EventsOf(n)
    BY <2>1, <2>2, <2>3 DEF Shape
  <2>5. field = Chars(Min({Sent(n, c), FieldMax}), sessions) /\ want = Chars(Min({n, FieldMax}), sessions)
    BY <2>1, <2>4 DEF Replacing
  <2> QED BY <2>2, <2>4, <2>5
<1> QED BY <1>1, TextInvariant, PTL

(* Whatever the sizes, no backspace stays down for the game. *)
THEOREM KeysLetGo == OneFits => (Spec => []KeyNeverStuck)
<1> SUFFICES ASSUME OneFits PROVE Spec => []KeyNeverStuck
  OBVIOUS
<1>1. TextInv => KeyNeverStuck
  <2> SUFFICES ASSUME TextInv, overlay PROVE \E i \in 1 .. Len(queue) : queue[i] = Up
    BY DEF KeyNeverStuck
  <2>1. PICK m \in Nat, n \in 0 .. MAX_TEXT - 1, c \in Nat : Shape(m, n, c)
    BY DEF TextInv
  <2>2. EventsOf(n) \in Nat
    BY SizesAre, EventsEnough
  <2>3. m % 2 = 1 /\ m > 0 /\ c <= EventsOf(n) /\ Len(queue) = m + (EventsOf(n) - c)
    BY <2>1 DEF Shape
  <2>4. 1 \in 1 .. m /\ (m - 1) % 2 = 0
    BY <2>3
  <2>5. queue[1] = Up
    BY <2>1, <2>4 DEF Shape
  <2>6. 1 \in 1 .. Len(queue)
    BY <2>2, <2>3
  <2> QED BY <2>5, <2>6
<1> QED BY <1>1, TextInvariant, PTL

(* Of any queue, however full and with any number of replacements in it,   *)
(* the game sees each press: a drain never hands over its release too.     *)
THEOREM PressesSeen == Spec => PressHeld
<1>1. Init => SeenInv
  BY DEF Init, SeenInv
<1>2. SeenInv /\ [Next]_vars => SeenInv' /\ (overlay /\ ~overlay' => looked \/ ~recent)
  <2> SUFFICES ASSUME SeenInv, [Next]_vars
               PROVE  SeenInv' /\ (overlay /\ ~overlay' => looked \/ ~recent)
    OBVIOUS
  <2>1. ASSUME PollSynthetic
        PROVE  SeenInv' /\ (overlay /\ ~overlay' => looked \/ ~recent)
    <3> DEFINE e == Head(queue)
    <3>1. /\ pc = "drain" /\ pc' = pc /\ ~(IsKey(e) /\ keySent /\ recent)
          /\ keySent' = (IsKey(e) \/ keySent)
          /\ overlay' = IF IsKey(e) THEN e = Down ELSE overlay
          /\ looked' = (looked /\ e # Down)
      BY <2>1 DEF PollSynthetic, Deliverable, HeldBack
    <3>2. IsKey(Down)
      BY DEF IsKey, Down
    <3> HIDE DEF e
    <3>3. SeenInv'
      <4>1. CASE looked'
        BY <3>1, <4>1 DEF SeenInv
      <4>2. CASE ~looked'
        <5>1. ~looked \/ IsKey(e)
          BY <3>1, <3>2, <4>2, Zenon
        <5>2. keySent'
          BY <3>1, <5>1, Zenon DEF SeenInv
        <5> QED BY <3>1, <5>2 DEF SeenInv
      <4> QED BY <4>1, <4>2
    <3>4. overlay /\ ~overlay' => IsKey(e)
      BY <3>1, Zenon
    <3> QED BY <3>1, <3>3, <3>4, Zenon DEF SeenInv
  <2>2. ASSUME NEW e \in RealEvents, PollReal(e)
        PROVE  SeenInv' /\ (overlay /\ ~overlay' => looked \/ ~recent)
    BY <2>2 DEF PollReal, SeenInv, events
  <2>3. CASE DrainEnds \/ IntervalPasses \/ ReadKeyboard \/ FieldReset \/ NextFrame
    BY <2>3 DEF DrainEnds, IntervalPasses, ReadKeyboard, FieldReset, NextFrame, SeenInv, events, game
  <2>4. CASE StartHeldBack \/ StartShowsKeyboard \/ StopTextInput \/ CooldownPasses
    BY <2>4 DEF StartHeldBack, StartShowsKeyboard, StopTextInput, CooldownPasses, SeenInv, events, game
  <2>5. CASE AppletUnavailable \/ AppletCancelled \/ \E n \in 0 .. MAX_TEXT - 1 : AppletReturns(n)
    BY <2>5 DEF AppletUnavailable, AppletCancelled, AppletReturns, SeenInv, events
  <2>6. CASE UNCHANGED vars
    BY <2>6 DEF SeenInv, vars, events, game
  <2> QED BY <2>1, <2>2, <2>3, <2>4, <2>5, <2>6 DEF Next
<1> QED BY <1>1, <1>2, PTL DEF Spec, PressHeld

-----------------------------------------------------------------------------
(* The pointer.                                                            *)
(*                                                                         *)
(* What the induction needs is that touches are behind the keys in the     *)
(* queue (Behind), so that each is preceded by the last one or by what the *)
(* game has seen, and that a drain takes at least one of the keys while a  *)
(* swap adds two touches at most (Room): none of them is dropped.          *)

PointerTypeOK ==
  /\ a \in [Pads -> BOOLEAN]
  /\ tapHeld \in BOOLEAN /\ paced \in BOOLEAN /\ finger \in BOOLEAN
  /\ touches \in Seq(Pointer!Fingers \cup {"KEY"})
  /\ at \in {"drain", "swap"}

(* Is the finger down after i events, the first k of them keys? *)
FingerAt(k, i) == IF i = k THEN finger ELSE touches[i] # "FINGERUP"

Behind(k) ==
  /\ k <= Len(touches)
  /\ \A i \in 1 .. k : touches[i] = "KEY"
  /\ \A i \in k + 1 .. Len(touches) :
       /\ touches[i] \in Pointer!Fingers
       /\ touches[i] = "FINGERDOWN" <=> ~FingerAt(k, i - 1)
  /\ FingerAt(k, Len(touches)) <=> tapHeld

Room(k) ==
  LET most == 2 * (2 * Burst - k) IN
    /\ at = "drain" => Len(touches) - k <= (IF paced THEN most ELSE most + 2)
    /\ at = "swap" => touches = <<>> \/ (k > 0 /\ Len(touches) - k <= most)
    /\ at = "swap" => ~paced

PointerInv ==
  /\ PointerTypeOK
  /\ ~visible => ~tapHeld
  /\ \E k \in 0 .. 2 * Burst : Behind(k) /\ Room(k)

(* There is room for the keys of a replacement and for the touches of as   *)
(* many frames as it takes to hand them over.                              *)
SwapsFit == 4 * Burst < CursorQueue

(* The property, in terms of the keys ahead. *)
LEMMA DownAfterIs ==
  ASSUME PointerTypeOK, NEW k \in Nat, Behind(k), NEW i \in 0 .. Len(touches)
  PROVE  Pointer!DownAfter(i) = IF i <= k THEN finger ELSE touches[i] # "FINGERUP"
<1> DEFINE touched == {j \in 1 .. i : Pointer!IsFinger(touches[j])}
<1>1. Len(touches) \in Nat /\ i \in Nat /\ k <= Len(touches)
  BY DEF PointerTypeOK, Behind
<1>2. \A j \in 1 .. i : IF j <= k THEN ~Pointer!IsFinger(touches[j]) ELSE Pointer!IsFinger(touches[j])
  <2> TAKE j \in 1 .. i
  <2>1. CASE j <= k
    <3>1. touches[j] = "KEY"
      BY <1>1, <2>1 DEF Behind
    <3> QED BY <2>1, <3>1 DEF Pointer!IsFinger, Pointer!Fingers
  <2>2. CASE ~(j <= k)
    <3>1. j \in k + 1 .. Len(touches)
      BY <1>1, <2>2
    <3> QED BY <2>2, <3>1 DEF Behind, Pointer!IsFinger
  <2> QED BY <2>1, <2>2
<1>3. CASE i <= k
  <2>1. touched = {}
    BY <1>1, <1>2, <1>3
  <2> QED BY <1>3, <2>1 DEF Pointer!DownAfter
<1>4. CASE ~(i <= k)
  <2>1. i \in touched /\ \A x \in touched : i >= x
    BY <1>1, <1>2, <1>4
  <2>2. touched \subseteq 1 .. i
    OBVIOUS
  <2> HIDE DEF touched
  <2>3. \A x \in touched : (\A y \in touched : x >= y) <=> x = i
    BY <1>1, <2>1, <2>2
  <2>4. Pointer!Max(touched) = i
    BY <2>1, <2>3 DEF Pointer!Max
  <2>5. touched # {}
    BY <2>1
  <2> QED BY <1>4, <2>4, <2>5 DEF Pointer!DownAfter, touched
<1> QED BY <1>3, <1>4

LEMMA AllEnqueued ==
  ASSUME NEW S, NEW q \in Seq(S), NEW es \in Seq(S), Len(q) + Len(es) <= CursorQueue
  PROVE  Pointer!EnqueueAll(q, es) = q \o es
<1>1. Len(q) \in Nat /\ Len(es) \in Nat
  OBVIOUS
<1>2. CursorQueue - Len(q) \in Int /\ Len(es) <= CursorQueue - Len(q)
  BY <1>1, PointerAssumption
<1>3. Pointer!Min({Len(es), CursorQueue - Len(q)}) = Len(es)
  <2>1. Min({Len(es), CursorQueue - Len(q)}) = Len(es)
    BY <1>1, <1>2, MinOfTwo
  <2> QED BY <2>1 DEF Min, Pointer!Min
<1>4. SubSeq(es, 1, Len(es)) = es
  BY SubSeqFull
<1> QED BY <1>3, <1>4 DEF Pointer!EnqueueAll

(* What an update reports fits and goes behind what waits. *)
LEMMA Reported ==
  ASSUME PointerTypeOK, NEW k \in Nat, Behind(k),
         NEW es \in Seq(Pointer!Fingers), Len(touches) + Len(es) <= CursorQueue,
         \A i \in 1 .. Len(es) :
           es[i] = "FINGERDOWN" <=> ~(IF i = 1 THEN tapHeld ELSE es[i - 1] # "FINGERUP"),
         (IF Len(es) = 0 THEN tapHeld ELSE es[Len(es)] # "FINGERUP") <=> tapHeld',
         touches' = Pointer!EnqueueAll(touches, es), finger' = finger
  PROVE  Behind(k)' /\ Len(touches') = Len(touches) + Len(es) /\ touches' \in Seq(Pointer!Fingers \cup {"KEY"})
<1>1. /\ touches \in Seq(Pointer!Fingers \cup {"KEY"}) /\ es \in Seq(Pointer!Fingers \cup {"KEY"})
      /\ Len(touches) \in Nat /\ Len(es) \in Nat /\ k <= Len(touches)
  <2>1. es \in Seq(Pointer!Fingers \cup {"KEY"})
    BY SeqMonotonic
  <2> QED BY <2>1 DEF PointerTypeOK, Behind
<1>2. touches' = touches \o es
  BY <1>1, AllEnqueued
<1>3. /\ touches' \in Seq(Pointer!Fingers \cup {"KEY"}) /\ Len(touches') = Len(touches) + Len(es)
      /\ \A i \in 1 .. Len(touches) + Len(es) :
           touches'[i] = IF i <= Len(touches) THEN touches[i] ELSE es[i - Len(touches)]
  BY <1>1, <1>2, ConcatProperties
<1> DEFINE n == Len(touches)
<1>4. \A i \in 1 .. k : touches'[i] = "KEY"
  BY <1>1, <1>3 DEF Behind
<1>5. \A i \in k .. n : FingerAt(k, i)' <=> FingerAt(k, i)
  <2> TAKE i \in k .. n
  <2>1. CASE i = k
    BY <2>1 DEF FingerAt
  <2>2. CASE i # k
    <3>1. touches'[i] = touches[i]
      BY <1>1, <1>3, <2>2
    <3> QED BY <2>2, <3>1 DEF FingerAt
  <2> QED BY <2>1, <2>2
<1>6. ASSUME NEW i \in k + 1 .. Len(touches')
      PROVE  /\ touches'[i] \in Pointer!Fingers
             /\ touches'[i] = "FINGERDOWN" <=> ~FingerAt(k, i - 1)'
  <2>1. CASE i <= n
    <3>1. i \in k + 1 .. n /\ i - 1 \in k .. n /\ touches'[i] = touches[i]
      BY <1>1, <1>3, <2>1
    <3>2. FingerAt(k, i - 1)' <=> FingerAt(k, i - 1)
      BY <1>5, <3>1
    <3> QED BY <3>1, <3>2 DEF Behind
  <2>2. CASE i = n + 1
    <3>1. 1 \in 1 .. Len(es) /\ touches'[i] = es[1] /\ i - 1 \in k .. n /\ i - 1 = n
      BY <1>1, <1>3, <2>2
    <3>2. FingerAt(k, i - 1)' <=> tapHeld
      BY <1>5, <3>1 DEF Behind
    <3>3. es[1] = "FINGERDOWN" <=> ~tapHeld
      BY <3>1
    <3>4. es[1] \in Pointer!Fingers
      BY <3>1, ElementOfSeq
    <3> QED BY <3>1, <3>2, <3>3, <3>4
  <2>3. CASE i > n + 1
    <3>1. /\ i - n \in 1 .. Len(es) /\ i - n # 1 /\ i - 1 # k
          /\ touches'[i] = es[i - n] /\ touches'[i - 1] = es[i - n - 1]
      <4>1. i \in Nat /\ i <= n + Len(es) /\ i - 1 \in 1 .. n + Len(es) /\ i \in 1 .. n + Len(es)
        BY <1>1, <1>3, <2>3
      <4>2. ~(i <= n) /\ ~(i - 1 <= n) /\ i - 1 - n = i - n - 1
        BY <1>1, <2>3, <4>1
      <4>3. touches'[i] = es[i - n] /\ touches'[i - 1] = es[i - n - 1]
        <5>1. touches'[i] = es[i - n]
          BY <1>3, <4>1, <4>2
        <5>2. touches'[i - 1] = es[i - 1 - n]
          BY <1>3, <4>1, <4>2
        <5> QED BY <4>2, <5>1, <5>2
      <4>4. i - n \in 1 .. Len(es) /\ i - n # 1 /\ i - 1 # k
        BY <1>1, <2>3, <4>1
      <4> QED BY <4>3, <4>4
    <3>2. FingerAt(k, i - 1)' <=> es[i - n - 1] # "FINGERUP"
      BY <3>1 DEF FingerAt
    <3>3. es[i - n] = "FINGERDOWN" <=> ~(es[i - n - 1] # "FINGERUP")
      BY <3>1
    <3>4. es[i - n] \in Pointer!Fingers
      BY <3>1, ElementOfSeq
    <3> QED BY <3>1, <3>2, <3>3, <3>4
  <2> QED BY <1>1, <1>3, <2>1, <2>2, <2>3
<1>7. FingerAt(k, Len(touches))' <=> tapHeld'
  <2>1. CASE Len(es) = 0
    <3>1. Len(touches') = n /\ n \in k .. n
      BY <1>1, <1>3, <2>1
    <3>2. FingerAt(k, n)' <=> FingerAt(k, n)
      BY <1>5, <3>1
    <3>3. FingerAt(k, Len(touches))' <=> FingerAt(k, n)
      BY <3>1, <3>2 DEF FingerAt
    <3> QED BY <2>1, <3>3 DEF Behind
  <2>2. CASE Len(es) # 0
    <3>1. Len(touches') # k /\ touches'[Len(touches')] = es[Len(es)]
      BY <1>1, <1>3, <2>2
    <3> QED BY <2>2, <3>1 DEF FingerAt
  <2> QED BY <2>1, <2>2
<1>8. k <= Len(touches')
  BY <1>1, <1>3
<1> QED BY <1>3, <1>4, <1>6, <1>7, <1>8 DEF Behind

LEMMA PointerSizes ==
  /\ Burst \in Nat \ {0} /\ CursorQueue \in Nat
  BY PointerAssumption

(* What leaves the queue, the finger and the tap alone. *)
LEMMA PointerElsewhere ==
  ASSUME PointerInv, a' \in [Pads -> BOOLEAN], paced' \in BOOLEAN,
         UNCHANGED <<touches, finger, tapHeld, visible>>,
         \A k \in 0 .. 2 * Burst : Behind(k) /\ Room(k) => Room(k)',
         at' \in {"drain", "swap"}
  PROVE  PointerInv'
<1>1. PointerTypeOK'
  BY DEF PointerInv, PointerTypeOK
<1>2. PICK k \in 0 .. 2 * Burst : Behind(k) /\ Room(k)
  BY DEF PointerInv
<1>3. Behind(k)'
  BY <1>2 DEF Behind, FingerAt
<1>4. Room(k)'
  BY <1>2
<1> QED BY <1>1, <1>3, <1>4 DEF PointerInv

(* The first of the keys, or of the touches, is handed over. *)
LEMMA TouchHandedOver ==
  ASSUME PointerInv, Pointer!PollSynthetic
  PROVE  PointerInv'
<1>1. PointerTypeOK /\ touches \in Seq(Pointer!Fingers \cup {"KEY"}) /\ touches # <<>>
  BY DEF PointerInv, PointerTypeOK, Pointer!PollSynthetic, Pointer!Deliverable
<1>0. PICK n \in Nat, e \in Pointer!Fingers \cup {"KEY"} : n = Len(touches) /\ e = Head(touches)
  BY <1>1, HeadTailProperties
<1>2. /\ n \in Nat \ {0} /\ e \in Pointer!Fingers \cup {"KEY"} /\ e = touches[1]
      /\ Tail(touches) \in Seq(Pointer!Fingers \cup {"KEY"}) /\ Len(Tail(touches)) = n - 1
      /\ \A i \in 1 .. n - 1 : Tail(touches)[i] = touches[i + 1]
  BY <1>0, <1>1, HeadTailProperties, ElementOfSeq
<1>3. /\ at = "drain" /\ at' = "drain"
      /\ Pointer!IsFinger(e) \/ ~paced
      /\ touches' = Tail(touches)
      /\ paced' = (paced \/ ~Pointer!IsFinger(e))
      /\ finger' = IF Pointer!IsFinger(e) THEN e # "FINGERUP" ELSE finger
      /\ a' = a /\ tapHeld' = tapHeld /\ visible' = visible
  BY <1>0 DEF Pointer!PollSynthetic, Pointer!Deliverable, Pointer!pads, Pointer!cursor
<1>4. PointerTypeOK'
  BY <1>1, <1>2, <1>3 DEF PointerTypeOK
<1>5. PICK k \in 0 .. 2 * Burst : Behind(k) /\ Room(k)
  BY DEF PointerInv
<1>6. k \in Nat /\ k <= n /\ Len(touches') = n - 1 /\ n = Len(touches)
  BY <1>0, <1>2, <1>3, <1>5, PointerSizes DEF Behind
<1>7. CASE k > 0
  <2>1. e = "KEY" /\ ~Pointer!IsFinger(e) /\ k - 1 \in 0 .. 2 * Burst
    <3>1. 1 \in 1 .. k
      BY <1>6, <1>7
    <3>2. e = "KEY"
      BY <1>2, <1>5, <3>1 DEF Behind
    <3> QED BY <1>6, <1>7, <3>2, PointerSizes DEF Pointer!IsFinger, Pointer!Fingers
  <2>2. ~paced /\ paced' /\ finger' = finger
    BY <1>3, <2>1
  <2>3. \A i \in k .. n : FingerAt(k - 1, i - 1)' <=> FingerAt(k, i)
    <3> TAKE i \in k .. n
    <3>1. CASE i = k
      BY <2>2, <3>1 DEF FingerAt
    <3>2. CASE i # k
      <4>1. touches'[i - 1] = touches[i] /\ i - 1 # k - 1
        BY <1>2, <1>3, <1>6, <1>7, <3>2
      <4> QED BY <3>2, <4>1 DEF FingerAt
    <3> QED BY <3>1, <3>2
  <2>4. Behind(k - 1)'
    <3>1. \A i \in 1 .. k - 1 : touches'[i] = "KEY"
      BY <1>2, <1>3, <1>5, <1>6 DEF Behind
    <3>2. ASSUME NEW i \in k - 1 + 1 .. Len(touches')
          PROVE  /\ touches'[i] \in Pointer!Fingers
                 /\ touches'[i] = "FINGERDOWN" <=> ~FingerAt(k - 1, i - 1)'
      <4>1. i + 1 \in k + 1 .. n /\ i \in k .. n /\ touches'[i] = touches[i + 1] /\ i + 1 - 1 = i
        BY <1>2, <1>3, <1>6, <1>7
      <4>2. touches[i + 1] \in Pointer!Fingers /\ (touches[i + 1] = "FINGERDOWN" <=> ~FingerAt(k, i))
        BY <1>5, <1>6, <4>1 DEF Behind
      <4> QED BY <2>3, <4>1, <4>2
    <3>3. FingerAt(k - 1, Len(touches))' <=> tapHeld'
      <4>1. n \in k .. n
        BY <1>2, <1>6
      <4>2. FingerAt(k - 1, n - 1)' <=> FingerAt(k, n)
        BY <2>3, <4>1
      <4>3. FingerAt(k - 1, Len(touches))' <=> FingerAt(k - 1, n - 1)'
        BY <1>6 DEF FingerAt
      <4> QED BY <1>3, <1>5, <1>6, <4>2, <4>3 DEF Behind
    <3>4. k - 1 <= Len(touches')
      BY <1>2, <1>6
    <3> QED BY <3>1, <3>2, <3>3, <3>4 DEF Behind
  <2>5. Room(k - 1)'
    <3>1. n - k <= 2 * (2 * Burst - k) + 2
      BY <1>3, <1>5, <1>6, <2>2 DEF Room
    <3> QED BY <1>2, <1>3, <1>6, <2>2, <3>1, PointerSizes DEF Room
  <2> QED BY <1>3, <1>4, <2>1, <2>4, <2>5 DEF PointerInv
<1>8. CASE k = 0
  <2>1. /\ e \in Pointer!Fingers /\ Pointer!IsFinger(e)
        /\ finger' = (e # "FINGERUP") /\ (paced' <=> paced)
    <3>1. 1 \in k + 1 .. n
      BY <1>2, <1>8
    <3>2. e \in Pointer!Fingers
      BY <1>2, <1>5, <1>6, <3>1 DEF Behind
    <3>3. Pointer!IsFinger(e)
      BY <3>2 DEF Pointer!IsFinger
    <3> QED BY <1>3, <3>2, <3>3
  <2>2. \A i \in 1 .. n : FingerAt(0, i - 1)' <=> FingerAt(0, i)
    <3> TAKE i \in 1 .. n
    <3>1. CASE i = 1
      <4>1. FingerAt(0, i) <=> e # "FINGERUP"
        BY <1>2, <3>1 DEF FingerAt
      <4>2. FingerAt(0, i - 1)' <=> finger'
        BY <3>1 DEF FingerAt
      <4> QED BY <2>1, <4>1, <4>2
    <3>2. CASE i # 1
      <4>1. touches'[i - 1] = touches[i] /\ i - 1 # 0
        BY <1>2, <1>3, <3>2
      <4> QED BY <4>1 DEF FingerAt
    <3> QED BY <3>1, <3>2
  <2>3. Behind(0)'
    <3>1. ASSUME NEW i \in 0 + 1 .. Len(touches')
          PROVE  /\ touches'[i] \in Pointer!Fingers
                 /\ touches'[i] = "FINGERDOWN" <=> ~FingerAt(0, i - 1)'
      <4>1. i + 1 \in k + 1 .. n /\ i \in 1 .. n /\ touches'[i] = touches[i + 1] /\ i + 1 - 1 = i
        BY <1>2, <1>3, <1>6, <1>8
      <4>2. touches[i + 1] \in Pointer!Fingers /\ (touches[i + 1] = "FINGERDOWN" <=> ~FingerAt(0, i))
        BY <1>5, <1>6, <1>8, <4>1 DEF Behind
      <4> QED BY <2>2, <4>1, <4>2
    <3>2. FingerAt(0, Len(touches))' <=> tapHeld'
      <4>1. n \in 1 .. n
        BY <1>2
      <4>2. FingerAt(0, n - 1)' <=> FingerAt(0, n)
        BY <2>2, <4>1
      <4>3. FingerAt(0, Len(touches))' <=> FingerAt(0, n - 1)'
        BY <1>6 DEF FingerAt
      <4> QED BY <1>3, <1>5, <1>6, <1>8, <4>2, <4>3 DEF Behind
    <3>3. 0 <= Len(touches')
      BY <1>2, <1>6
    <3>4. \A i \in 1 .. 0 : touches'[i] = "KEY"
      OBVIOUS
    <3> QED BY <3>1, <3>2, <3>3, <3>4 DEF Behind
  <2>4. Room(0)'
    BY <1>2, <1>3, <1>5, <1>6, <1>8, <2>1, PointerSizes DEF Room
  <2> QED BY <1>3, <1>4, <1>5, <1>8, <2>3, <2>4 DEF PointerInv
<1> QED BY <1>6, <1>7, <1>8

(* Keys are queued only when none is left, and then nothing is.  *)
LEMMA KeysQueued ==
  ASSUME PointerInv, SwapsFit, Pointer!QueueKeys
  PROVE  PointerInv'
<1> DEFINE keys == [i \in 1 .. 2 * Burst |-> "KEY"]
<1>1. PICK k \in 0 .. 2 * Burst : Behind(k) /\ Room(k)
  BY DEF PointerInv
<1>2. /\ at = "swap" /\ \A i \in 1 .. Len(touches) : Pointer!IsFinger(touches[i])
      /\ touches' = Pointer!EnqueueAll(touches, keys)
      /\ at' = at /\ a' = a /\ paced' = paced /\ finger' = finger
      /\ tapHeld' = tapHeld /\ visible' = visible
  BY DEF Pointer!QueueKeys, Pointer!pads, Pointer!cursor, Pointer!game
<1>3. touches = <<>> /\ Len(touches) = 0 /\ k = 0
  <2>1. k \in Nat /\ Len(touches) \in Nat /\ k <= Len(touches)
    BY <1>1, PointerSizes DEF PointerInv, PointerTypeOK, Behind
  <2>2. ~(k > 0)
    <3>1. k > 0 => 1 \in 1 .. k /\ 1 \in 1 .. Len(touches)
      BY <2>1
    <3>2. k > 0 => touches[1] = "KEY" /\ Pointer!IsFinger(touches[1])
      BY <1>1, <1>2, <3>1 DEF Behind
    <3> QED BY <3>2 DEF Pointer!IsFinger, Pointer!Fingers
  <2>3. touches = <<>>
    BY <1>1, <1>2, <2>2 DEF Room
  <2> QED BY <2>1, <2>2, <2>3
<1>4. keys \in Seq(Pointer!Fingers \cup {"KEY"}) /\ Len(keys) = 2 * Burst /\ 2 * Burst \in Nat
  BY PointerSizes
<1>5. touches' = keys
  <2>1. touches \in Seq(Pointer!Fingers \cup {"KEY"}) /\ Len(touches) + Len(keys) <= CursorQueue
    BY <1>3, <1>4, PointerSizes DEF PointerInv, PointerTypeOK, SwapsFit
  <2>2. touches' = touches \o keys
    BY <1>2, <1>4, <2>1, AllEnqueued
  <2>3. <<>> \o keys = keys
    BY <1>4, ConcatEmptySeq
  <2> QED BY <1>3, <2>2, <2>3
<1>6. PointerTypeOK'
  BY <1>2, <1>4, <1>5 DEF PointerInv, PointerTypeOK
<1>7. Behind(2 * Burst)'
  <2>1. finger' <=> tapHeld'
    BY <1>1, <1>2, <1>3 DEF Behind, FingerAt
  <2>2. FingerAt(2 * Burst, Len(touches))' <=> tapHeld'
    BY <1>4, <1>5, <2>1 DEF FingerAt
  <2>3. \A i \in 1 .. 2 * Burst : touches'[i] = "KEY"
    BY <1>5
  <2>4. Len(touches') = 2 * Burst
    BY <1>4, <1>5
  <2>5. \A i \in 2 * Burst + 1 .. Len(touches') :
          /\ touches'[i] \in Pointer!Fingers
          /\ touches'[i] = "FINGERDOWN" <=> ~FingerAt(2 * Burst, i - 1)'
    BY <1>4, <2>4
  <2> QED BY <1>4, <2>2, <2>3, <2>4, <2>5 DEF Behind
<1>8. Room(2 * Burst)'
  <2>1. Len(touches') = 2 * Burst /\ ~paced' /\ at' = "swap"
    BY <1>1, <1>2, <1>4, <1>5 DEF Room
  <2> QED BY <1>4, <2>1, PointerSizes DEF Room
<1>9. 2 * Burst \in 0 .. 2 * Burst /\ (~visible' => ~tapHeld')
  BY <1>2, <1>4 DEF PointerInv
<1> QED BY <1>6, <1>7, <1>8, <1>9 DEF PointerInv

(* Touches that take the finger from held to down, each in its place. *)
Takes(es, held, down) ==
  /\ es \in Seq(Pointer!Fingers)
  /\ Len(es) <= 2
  /\ \A i \in 1 .. Len(es) :
       es[i] = "FINGERDOWN" <=> ~(IF i = 1 THEN held ELSE es[i - 1] # "FINGERUP")
  /\ (IF Len(es) = 0 THEN held ELSE es[Len(es)] # "FINGERUP") <=> down

LEMMA NoneTakes ==
  ASSUME NEW held \in BOOLEAN
  PROVE  Takes(<<>>, held, held)
  BY DEF Takes

LEMMA OneTakes ==
  ASSUME NEW e \in Pointer!Fingers, NEW held \in BOOLEAN, NEW down \in BOOLEAN,
         e = "FINGERDOWN" <=> ~held, e # "FINGERUP" <=> down
  PROVE  Takes(<<e>>, held, down)
<1>1. <<e>> \in Seq(Pointer!Fingers) /\ Len(<<e>>) = 1 /\ <<e>>[1] = e
  OBVIOUS
<1>2. \A i \in 1 .. 1 : i = 1
  OBVIOUS
<1> DEFINE es == <<e>>
<1> HIDE DEF es
<1>3. es \in Seq(Pointer!Fingers) /\ Len(es) = 1 /\ es[1] = e
  BY <1>1 DEF es
<1>4. Takes(es, held, down)
  BY <1>2, <1>3 DEF Takes
<1> QED BY <1>4 DEF es

LEMMA DropTakes ==
  Takes(<<"FINGERMOTION", "FINGERUP">>, TRUE, FALSE)
<1> DEFINE es == <<"FINGERMOTION", "FINGERUP">>
<1>1. es \in Seq(Pointer!Fingers) /\ Len(es) = 2 /\ es[1] = "FINGERMOTION" /\ es[2] = "FINGERUP"
  BY DEF Pointer!Fingers
<1>2. \A i \in 1 .. 2 : i = 1 \/ i = 2
  OBVIOUS
<1> HIDE DEF es
<1>3. \A i \in 1 .. Len(es) :
        es[i] = "FINGERDOWN" <=> ~(IF i = 1 THEN TRUE ELSE es[i - 1] # "FINGERUP")
  <2> TAKE i \in 1 .. Len(es)
  <2>1. CASE i = 1
    BY <1>1, <2>1
  <2>2. CASE i = 2
    BY <1>1, <2>2
  <2> QED BY <1>1, <1>2, <2>1, <2>2
<1>4. Takes(es, TRUE, FALSE)
  BY <1>1, <1>3 DEF Takes
<1> QED BY <1>4 DEF es

(* What an update reports takes the finger where the button is. *)
LEMMA EdgeTakes ==
  ASSUME NEW held \in BOOLEAN, NEW down \in BOOLEAN, NEW moved \in BOOLEAN
  PROVE  Takes((IF moved /\ held THEN <<"FINGERMOTION">> ELSE <<>>)
                 \o Pointer!TapEdge(held, down, moved), held, down)
<1> DEFINE drag == IF moved /\ held THEN <<"FINGERMOTION">> ELSE <<>>
           edge == Pointer!TapEdge(held, down, moved)
<1>1. \A e \in Pointer!Fingers : <<e>> \o <<>> = <<e>> /\ <<>> \o <<e>> = <<e>>
  <2> TAKE e \in Pointer!Fingers
  <2>1. <<e>> \in Seq(Pointer!Fingers)
    OBVIOUS
  <2> QED BY <2>1, ConcatEmptySeq
<1>2. /\ <<"FINGERMOTION">> \o <<>> = <<"FINGERMOTION">> /\ <<>> \o <<"FINGERUP">> = <<"FINGERUP">>
      /\ <<>> \o <<"FINGERDOWN">> = <<"FINGERDOWN">>
  BY <1>1 DEF Pointer!Fingers
<1>3. <<>> \o <<>> = <<>>
  <2>1. <<>> \in Seq(Pointer!Fingers)
    OBVIOUS
  <2> QED BY <2>1, ConcatEmptySeq
<1>4. <<"FINGERMOTION">> \o <<"FINGERUP">> = <<"FINGERMOTION", "FINGERUP">>
  <2> DEFINE m == <<"FINGERMOTION">>
             u == <<"FINGERUP">>
             both == <<"FINGERMOTION", "FINGERUP">>
  <2>1. /\ m \in Seq(Pointer!Fingers) /\ Len(m) = 1 /\ m[1] = "FINGERMOTION"
        /\ u \in Seq(Pointer!Fingers) /\ Len(u) = 1 /\ u[1] = "FINGERUP"
        /\ both \in Seq(Pointer!Fingers) /\ Len(both) = 2
        /\ both[1] = "FINGERMOTION" /\ both[2] = "FINGERUP"
    BY DEF Pointer!Fingers
  <2> HIDE DEF m, u, both
  <2>2. /\ m \o u \in Seq(Pointer!Fingers) /\ Len(m \o u) = 2
        /\ \A i \in 1 .. 2 : (m \o u)[i] = IF i <= 1 THEN m[i] ELSE u[i - 1]
    BY <2>1, ConcatProperties
  <2>3. \A i \in 1 .. 2 : (m \o u)[i] = both[i]
    BY <2>1, <2>2
  <2>4. m \o u = both
    BY <2>1, <2>2, <2>3, SeqEqual
  <2> QED BY <2>4 DEF m, u, both
<1>5. CASE held /\ down
  <2>1. edge = <<>>
    BY <1>5 DEF Pointer!TapEdge
  <2>2. CASE moved
    <3>1. drag \o edge = <<"FINGERMOTION">>
      BY <1>2, <1>5, <2>1, <2>2
    <3>2. Takes(<<"FINGERMOTION">>, held, down)
      BY <1>5, OneTakes DEF Pointer!Fingers
    <3> QED BY <3>1, <3>2
  <2>3. CASE ~moved
    <3>1. drag \o edge = <<>>
      BY <1>3, <2>1, <2>3
    <3>2. Takes(<<>>, held, held) /\ held = down
      BY <1>5, NoneTakes
    <3> QED BY <3>1, <3>2
  <2> QED BY <2>2, <2>3
<1>6. CASE held /\ ~down
  <2>1. edge = <<"FINGERUP">>
    BY <1>6 DEF Pointer!TapEdge
  <2>2. CASE moved
    <3>1. drag \o edge = <<"FINGERMOTION", "FINGERUP">>
      BY <1>4, <1>6, <2>1, <2>2
    <3>2. held = TRUE /\ down = FALSE
      BY <1>6
    <3> QED BY <3>1, <3>2, DropTakes
  <2>3. CASE ~moved
    <3>1. drag \o edge = <<"FINGERUP">>
      BY <1>2, <2>1, <2>3
    <3>2. Takes(<<"FINGERUP">>, held, down)
      BY <1>6, OneTakes DEF Pointer!Fingers
    <3> QED BY <3>1, <3>2
  <2> QED BY <2>2, <2>3
<1>7. CASE ~held /\ down
  <2>1. edge = <<"FINGERDOWN">>
    BY <1>7 DEF Pointer!TapEdge
  <2>2. drag \o edge = <<"FINGERDOWN">>
    BY <1>2, <1>7, <2>1
  <2>3. Takes(<<"FINGERDOWN">>, held, down)
    BY <1>7, OneTakes DEF Pointer!Fingers
  <2> QED BY <2>2, <2>3
<1>8. CASE ~held /\ ~down
  <2>1. edge = <<>>
    BY <1>8 DEF Pointer!TapEdge
  <2>2. drag \o edge = <<>>
    BY <1>3, <1>8, <2>1
  <2>3. Takes(<<>>, held, held) /\ held = down
    BY <1>8, NoneTakes
  <2> QED BY <2>2, <2>3
<1> QED BY <1>5, <1>6, <1>7, <1>8

LEMMA LetGoTakes ==
  ASSUME NEW held \in BOOLEAN
  PROVE  Takes(Pointer!LetGo(held), held, FALSE)
<1>1. CASE held
  <2>1. Takes(<<"FINGERUP">>, held, FALSE)
    BY <1>1, OneTakes DEF Pointer!Fingers
  <2> QED BY <1>1, <2>1 DEF Pointer!LetGo
<1>2. CASE ~held
  <2>1. Takes(<<>>, held, held) /\ held = FALSE
    BY <1>2, NoneTakes
  <2> QED BY <1>2, <2>1 DEF Pointer!LetGo
<1> QED BY <1>1, <1>2

(* A swap with a pad. *)
LEMMA Updated ==
  ASSUME PointerInv, SwapsFit, NEW p \in Pads, NEW moved \in BOOLEAN, Pointer!Update(p, moved)
  PROVE  PointerInv'
<1>1. PICK k \in 0 .. 2 * Burst : Behind(k) /\ Room(k)
  BY DEF PointerInv
<1>2. PointerTypeOK /\ (~visible => ~tapHeld) /\ a[p] \in BOOLEAN /\ tapHeld \in BOOLEAN
  BY DEF PointerInv, PointerTypeOK
<1>3. at = "swap" /\ at' = "drain" /\ a' = a /\ paced' = paced /\ finger' = finger
  BY DEF Pointer!Update, Pointer!pads
<1>4. /\ k \in Nat /\ Len(touches) \in Nat /\ k <= Len(touches)
      /\ Len(touches) + 2 <= CursorQueue
      /\ Len(touches) + 2 - k <= 2 * (2 * Burst - k) + 2
  <2>1. k \in Nat /\ k <= 2 * Burst /\ Len(touches) \in Nat /\ k <= Len(touches)
    BY <1>1, <1>2, PointerSizes DEF PointerTypeOK, Behind
  <2>2. touches = <<>> \/ (k > 0 /\ Len(touches) - k <= 2 * (2 * Burst - k))
    BY <1>1, <1>3 DEF Room
  <2>3. touches = <<>> => Len(touches) = 0
    OBVIOUS
  <2> QED BY <2>1, <2>2, <2>3, PointerSizes DEF SwapsFit
(* What is reported, if anything. *)
<1>5. \E es : /\ Takes(es, tapHeld, tapHeld') /\ touches' = Pointer!EnqueueAll(touches, es)
              /\ tapHeld' \in BOOLEAN /\ (~visible' => ~tapHeld')
  <2> DEFINE shown == IF chord[p] /\ ~chordHeld THEN ~visible ELSE visible
             drag == IF moved /\ tapHeld THEN <<"FINGERMOTION">> ELSE <<>>
             edge == Pointer!TapEdge(tapHeld, a[p], moved)
  <2>1. \/ shown /\ visible' = shown /\ tapHeld' = a[p] /\ touches' = Pointer!EnqueueAll(touches, drag \o edge)
        \/ ~shown /\ visible' = shown /\ tapHeld' = FALSE /\ touches' = Pointer!EnqueueAll(touches, Pointer!LetGo(tapHeld))
        \/ ~shown /\ ~visible /\ visible' = shown /\ tapHeld' = tapHeld /\ touches' = touches
    BY DEF Pointer!Update
  <2>2. Takes(drag \o edge, tapHeld, a[p]) /\ Takes(Pointer!LetGo(tapHeld), tapHeld, FALSE)
        /\ Takes(<<>>, tapHeld, tapHeld)
    BY <1>2, EdgeTakes, LetGoTakes, NoneTakes
  <2>3. Pointer!EnqueueAll(touches, <<>>) = touches
    <3>1. touches \in Seq(Pointer!Fingers \cup {"KEY"}) /\ <<>> \in Seq(Pointer!Fingers \cup {"KEY"})
      BY <1>2 DEF PointerTypeOK
    <3>2. Len(<<>>) = 0
      OBVIOUS
    <3>3. Len(touches) + Len(<<>>) <= CursorQueue
      BY <1>4, <3>2, PointerSizes
    <3>4. touches \o <<>> = touches
      BY <3>1, ConcatEmptySeq
    <3> QED BY <3>1, <3>3, <3>4, AllEnqueued
  <2> HIDE DEF shown, drag, edge
  <2>4. CASE shown /\ visible' = shown /\ tapHeld' = a[p] /\ touches' = Pointer!EnqueueAll(touches, drag \o edge)
    BY <1>2, <2>2, <2>4
  <2>5. CASE ~shown /\ visible' = shown /\ tapHeld' = FALSE /\ touches' = Pointer!EnqueueAll(touches, Pointer!LetGo(tapHeld))
    BY <2>2, <2>5
  <2>6. CASE ~shown /\ ~visible /\ visible' = shown /\ tapHeld' = tapHeld /\ touches' = touches
    BY <1>2, <2>2, <2>3, <2>6
  <2> QED BY <2>1, <2>4, <2>5, <2>6
<1>6. PICK es : /\ Takes(es, tapHeld, tapHeld') /\ touches' = Pointer!EnqueueAll(touches, es)
               /\ tapHeld' \in BOOLEAN /\ (~visible' => ~tapHeld')
  BY <1>5
<1>7. es \in Seq(Pointer!Fingers) /\ Len(es) \in Nat /\ Len(touches) + Len(es) <= CursorQueue
      /\ Len(touches) + Len(es) - k <= 2 * (2 * Burst - k) + 2
  <2>1. es \in Seq(Pointer!Fingers) /\ Len(es) \in Nat /\ Len(es) <= 2
    BY <1>6 DEF Takes
  <2> QED BY <1>4, <2>1, PointerSizes
<1>8. /\ Behind(k)' /\ Len(touches') = Len(touches) + Len(es)
      /\ touches' \in Seq(Pointer!Fingers \cup {"KEY"})
  BY <1>1, <1>2, <1>3, <1>4, <1>6, <1>7, Reported DEF Takes
<1>9. PointerTypeOK'
  BY <1>2, <1>3, <1>6, <1>8 DEF PointerTypeOK
<1>10. Room(k)'
  <2>1. ~paced'
    BY <1>1, <1>3 DEF Room
  <2> QED BY <1>3, <1>4, <1>7, <1>8, <2>1, PointerSizes DEF Room
<1> QED BY <1>6, <1>8, <1>9, <1>10 DEF PointerInv

LEMMA PointerInitInv == SwapsFit /\ Pointer!Init => PointerInv
<1> SUFFICES ASSUME SwapsFit, Pointer!Init
             PROVE  PointerInv
  OBVIOUS
<1>1. /\ a = [p \in Pads |-> FALSE] /\ tapHeld = FALSE /\ paced = FALSE /\ finger = FALSE
      /\ touches = <<>> /\ at = "drain"
  BY DEF Pointer!Init
<1>2. Len(touches) = 0 /\ 0 \in 0 .. 2 * Burst
  BY <1>1, PointerSizes
<1>3. PointerTypeOK
  <2>1. [p \in Pads |-> FALSE] \in [Pads -> BOOLEAN]
    OBVIOUS
  <2>2. <<>> \in Seq(Pointer!Fingers \cup {"KEY"})
    OBVIOUS
  <2> QED BY <1>1, <2>1, <2>2, Zenon DEF PointerTypeOK
<1>4. Behind(0)
  BY <1>1, <1>2 DEF Behind, FingerAt
<1>5. Room(0)
  BY <1>1, <1>2, PointerSizes DEF Room
<1> QED BY <1>1, <1>2, <1>3, <1>4, <1>5 DEF PointerInv

LEMMA PointerStep == PointerInv /\ SwapsFit /\ [Pointer!Next]_(pointer) => PointerInv'
<1> SUFFICES ASSUME PointerInv, SwapsFit, [Pointer!Next]_(pointer)
             PROVE  PointerInv'
  OBVIOUS
<1>1. PointerTypeOK
  BY DEF PointerInv
<1>2. CASE Pointer!PollSynthetic
  BY <1>2, TouchHandedOver
<1>3. ASSUME NEW p \in Pads, Pointer!PollButton(p)
      PROVE  PointerInv'
  <2>1. /\ at' = at /\ paced' = paced /\ UNCHANGED <<touches, finger, tapHeld, visible>>
        /\ a' = [a EXCEPT ![p] = ~@]
    BY <1>3 DEF Pointer!PollButton, Pointer!cursor
  <2>2. a' \in [Pads -> BOOLEAN] /\ paced' \in BOOLEAN /\ at' \in {"drain", "swap"}
    BY <1>1, <2>1 DEF PointerTypeOK
  <2>3. \A k \in 0 .. 2 * Burst : Behind(k) /\ Room(k) => Room(k)'
    BY <2>1 DEF Room
  <2> QED BY <2>1, <2>2, <2>3, PointerElsewhere
<1>4. ASSUME NEW p \in Pads, Pointer!PollTriggers(p)
      PROVE  PointerInv'
  <2>1. at' = at /\ paced' = paced /\ UNCHANGED <<touches, finger, tapHeld, visible>> /\ a' = a
    BY <1>4 DEF Pointer!PollTriggers, Pointer!cursor, Pointer!game
  <2>2. a' \in [Pads -> BOOLEAN] /\ paced' \in BOOLEAN /\ at' \in {"drain", "swap"}
    BY <1>1, <2>1 DEF PointerTypeOK
  <2>3. \A k \in 0 .. 2 * Burst : Behind(k) /\ Room(k) => Room(k)'
    BY <2>1 DEF Room
  <2> QED BY <2>1, <2>2, <2>3, PointerElsewhere
<1>5. ASSUME NEW p \in Pads, Pointer!PollDevice(p)
      PROVE  PointerInv'
  <2>1. /\ at' = at /\ paced' = paced /\ UNCHANGED <<touches, finger, tapHeld, visible>>
        /\ a' = [a EXCEPT ![p] = FALSE]
    BY <1>5 DEF Pointer!PollDevice, Pointer!cursor
  <2>2. a' \in [Pads -> BOOLEAN] /\ paced' \in BOOLEAN /\ at' \in {"drain", "swap"}
    BY <1>1, <2>1 DEF PointerTypeOK
  <2>3. \A k \in 0 .. 2 * Burst : Behind(k) /\ Room(k) => Room(k)'
    BY <2>1 DEF Room
  <2> QED BY <2>1, <2>2, <2>3, PointerElsewhere
<1>6. CASE Pointer!DrainEnds
  <2>1. /\ at = "drain" /\ at' = "swap" /\ paced' = FALSE /\ ~Pointer!Deliverable
        /\ UNCHANGED <<touches, finger, tapHeld, visible>> /\ a' = a
    BY <1>6 DEF Pointer!DrainEnds, Pointer!pads, Pointer!cursor
  <2>2. a' \in [Pads -> BOOLEAN] /\ paced' \in BOOLEAN /\ at' \in {"drain", "swap"}
    BY <1>1, <2>1 DEF PointerTypeOK
  <2>3. ASSUME NEW k \in 0 .. 2 * Burst, Behind(k), Room(k)
        PROVE  Room(k)'
    (* What stops a drain, if not the end of the queue, is a key. *)
    <3>1. touches = <<>> \/ (k > 0 /\ paced)
      <4> SUFFICES ASSUME touches # <<>>
                   PROVE  k > 0 /\ paced
        OBVIOUS
      <4>2. /\ touches \in Seq(Pointer!Fingers \cup {"KEY"}) /\ Len(touches) \in Nat \ {0}
            /\ Head(touches) = touches[1] /\ k \in Nat
        BY <1>1, HeadTailProperties, PointerSizes DEF PointerTypeOK
      <4>3. ~Pointer!IsFinger(touches[1]) /\ paced
        BY <2>1, <4>2 DEF Pointer!Deliverable
      <4>4. k = 0 => 1 \in k + 1 .. Len(touches)
        BY <4>2
      <4>5. k = 0 => Pointer!IsFinger(touches[1])
        BY <2>3, <4>4 DEF Behind, Pointer!IsFinger
      <4> QED BY <4>2, <4>3, <4>5
    <3>2. CASE touches = <<>>
      BY <2>1, <3>2 DEF Room
    <3>3. CASE k > 0 /\ paced
      BY <2>1, <2>3, <3>3 DEF Room
    <3> QED BY <3>1, <3>2, <3>3
  <2> QED BY <2>1, <2>2, <2>3, PointerElsewhere
<1>7. CASE Pointer!IntervalPasses
  <2>1. paced /\ paced' = FALSE /\ at' = at /\ UNCHANGED <<touches, finger, tapHeld, visible>> /\ a' = a
    BY <1>7 DEF Pointer!IntervalPasses, Pointer!pads, Pointer!cursor, Pointer!game
  <2>2. a' \in [Pads -> BOOLEAN] /\ paced' \in BOOLEAN /\ at' \in {"drain", "swap"}
    BY <1>1, <2>1 DEF PointerTypeOK
  <2>3. ASSUME NEW k \in 0 .. 2 * Burst, Behind(k), Room(k)
        PROVE  Room(k)'
    <3>1. Len(touches) \in Nat /\ k \in Int
      BY <1>1, PointerSizes DEF PointerTypeOK
    <3> QED BY <2>1, <2>3, <3>1, PointerSizes DEF Room
  <2> QED BY <2>1, <2>2, <2>3, PointerElsewhere
<1>8. CASE Pointer!QueueKeys
  BY <1>8, KeysQueued
<1>9. CASE Pointer!UpdateNoPad
  <2>1. /\ at = "swap" /\ at' = "drain" /\ paced' = paced
        /\ UNCHANGED <<touches, finger, tapHeld, visible>> /\ a' = a
    BY <1>9 DEF Pointer!UpdateNoPad, Pointer!pads
  <2>2. a' \in [Pads -> BOOLEAN] /\ paced' \in BOOLEAN /\ at' \in {"drain", "swap"}
    BY <1>1, <2>1 DEF PointerTypeOK
  <2>3. ASSUME NEW k \in 0 .. 2 * Burst, Behind(k), Room(k)
        PROVE  Room(k)'
    <3>1. Len(touches) \in Nat /\ k \in Nat /\ k <= 2 * Burst /\ (touches = <<>> => Len(touches) = 0)
      BY <1>1, PointerSizes DEF PointerTypeOK
    <3>2. touches = <<>> \/ (k > 0 /\ Len(touches) - k <= 2 * (2 * Burst - k))
      BY <2>1, <2>3 DEF Room
    <3>3. ~paced'
      BY <2>1, <2>3 DEF Room
    <3> QED BY <2>1, <3>1, <3>2, <3>3, PointerSizes DEF Room
  <2> QED BY <2>1, <2>2, <2>3, PointerElsewhere
<1>10. ASSUME NEW p \in Pads, NEW moved \in BOOLEAN, Pointer!Update(p, moved)
       PROVE  PointerInv'
  BY <1>10, Updated
<1>11. CASE UNCHANGED pointer
  BY <1>11 DEF pointer, PointerInv, PointerTypeOK, Behind, FingerAt, Room
<1> QED BY <1>2, <1>3, <1>4, <1>5, <1>6, <1>7, <1>8, <1>9, <1>10, <1>11 DEF Pointer!Next, Pointer!Swap

(* The touches that wait are behind the keys and in their order, and there *)
(* is room for what a swap adds to them.                                   *)
THEOREM PointerInvariant == SwapsFit => (Pointer!Spec => []PointerInv)
<1> SUFFICES ASSUME SwapsFit
             PROVE  Pointer!Spec => []PointerInv
  OBVIOUS
<1>1. Pointer!Init => PointerInv
  BY PointerInitInv
<1>2. PointerInv /\ [Pointer!Next]_(pointer) => PointerInv'
  BY PointerStep
<1>3. PointerInv /\ [Pointer!Next]_(Pointer!vars) => PointerInv'
  BY <1>2 DEF pointer, Pointer!vars, Pointer!pads, Pointer!cursor, Pointer!game
<1> QED BY <1>1, <1>3, PTL DEF Pointer!Spec

(* Downs, motions and ups reach the game in the order they happened, none  *)
(* of them dropped by rv_events.c, behind whatever keys of a replacement,  *)
(* and the pointer never goes with the finger down (rv_cursor.c, 81-87).   *)
THEOREM TouchesInOrder == SwapsFit => (Pointer!Spec => []FingersInOrder)
<1> SUFFICES ASSUME SwapsFit
             PROVE  Pointer!Spec => []FingersInOrder
  OBVIOUS
<1>1. PointerInv => FingersInOrder
  <2> SUFFICES ASSUME PointerInv
               PROVE  FingersInOrder
    OBVIOUS
  <2>1. PICK k \in 0 .. 2 * Burst : Behind(k)
    BY DEF PointerInv
  <2>2. PointerTypeOK /\ (~visible => ~tapHeld) /\ k \in Nat /\ Len(touches) \in Nat /\ k <= Len(touches)
        /\ tapHeld \in BOOLEAN /\ finger \in BOOLEAN
    BY <2>1, PointerSizes DEF PointerInv, PointerTypeOK, Behind
  <2>3. \A i \in 0 .. Len(touches) :
          Pointer!DownAfter(i) = IF i <= k THEN finger ELSE touches[i] # "FINGERUP"
    BY <2>1, <2>2, DownAfterIs
  <2>4. ASSUME NEW i \in 1 .. Len(touches), Pointer!IsFinger(touches[i])
        PROVE  touches[i] = "FINGERDOWN" <=> ~Pointer!DownAfter(i - 1)
    <3>1. i \in k + 1 .. Len(touches)
      <4>1. i <= k => touches[i] = "KEY"
        BY <2>1, <2>2 DEF Behind
      <4>2. ~(i <= k)
        BY <2>4, <4>1 DEF Pointer!IsFinger, Pointer!Fingers
      <4> QED BY <2>2, <4>2
    <3>2. touches[i] = "FINGERDOWN" <=> ~FingerAt(k, i - 1)
      BY <2>1, <3>1 DEF Behind
    <3>3. i - 1 \in 0 .. Len(touches) /\ (i - 1 <= k <=> i - 1 = k)
      BY <2>2, <3>1
    <3> QED BY <2>3, <3>2, <3>3 DEF FingerAt
  <2>5. Pointer!DownAfter(Len(touches)) = tapHeld
    <3>1. FingerAt(k, Len(touches)) <=> tapHeld
      BY <2>1 DEF Behind
    <3>2. Len(touches) \in 0 .. Len(touches) /\ (Len(touches) <= k <=> Len(touches) = k)
      BY <2>2
    <3>3. CASE Len(touches) = k
      BY <2>2, <2>3, <3>1, <3>2, <3>3 DEF FingerAt
    <3>4. CASE Len(touches) # k
      <4>1. Pointer!DownAfter(Len(touches)) = (touches[Len(touches)] # "FINGERUP")
        BY <2>3, <3>2, <3>4
      <4>2. (touches[Len(touches)] # "FINGERUP") <=> tapHeld
        BY <3>1, <3>4 DEF FingerAt
      <4> QED BY <2>2, <4>1, <4>2
    <3> QED BY <3>3, <3>4
  <2> QED BY <2>2, <2>4, <2>5 DEF FingersInOrder, Pointer!FingersInOrder
<1> QED BY <1>1, PointerInvariant, PTL

-----------------------------------------------------------------------------
(* Both at once, as they are checked.                                      *)

InputPromises == []ReplacementExact /\ []KeyNeverStuck /\ PressHeld /\ []FingersInOrder

(* Side by side, with fairness added, each part still does what its own    *)
(* specification allows, and so keeps its promises: the text of the        *)
(* keyboard replaces the field, no key is left down, no press is missed,   *)
(* and the touches of the pointer arrive in their order.                   *)
THEOREM InputSafe == OneFits /\ SwapsFit => (InputSpec => InputPromises)
<1> SUFFICES ASSUME OneFits, SwapsFit
             PROVE  InputSpec => InputPromises
  OBVIOUS
<1>1. InputInit => Init /\ Pointer!Init
  BY DEF InputInit
<1>2. [TextPart(Next) \/ PointerPart(Pointer!Next)]_all
        => [Next]_vars /\ [Pointer!Next]_(pointer)
  BY DEF all, TextPart, PointerPart
<1>3. [Pointer!Next]_(pointer) => [Pointer!Next]_(Pointer!vars)
  BY DEF pointer, Pointer!vars, Pointer!pads, Pointer!cursor, Pointer!game
<1>4. InputSpec => Spec /\ Pointer!Spec
  BY <1>1, <1>2, <1>3, PTL DEF InputSpec, Spec, Pointer!Spec
<1>5. Spec => []ReplacementExact
  BY FieldIsReplaced
<1>6. Spec => []KeyNeverStuck
  BY KeysLetGo
<1>7. Pointer!Spec => []FingersInOrder
  BY TouchesInOrder
<1> QED BY <1>4, <1>5, <1>6, <1>7, PressesSeen, PTL DEF InputPromises
=============================================================================
