------------------------- MODULE MirAnalysis_proofs -------------------------
(***************************************************************************)
(* What holds of mirchecker's analysis of calls for every program,         *)
(* whatever its functions and circles, and of its fixed-point iterator for *)
(* every function, delay and number of narrowing rounds.                   *)
(***************************************************************************)
EXTENDS MirCalls, MirFixpoint, SequenceTheorems, FiniteSetTheorems, WellFoundedInduction, TLAPS

-----------------------------------------------------------------------------
(* The analysis of calls.                                                  *)

Posts     == UNION {[D -> SUBSET Name] : D \in SUBSET Nat}
Addresses == UNION {[D -> Nat] : D \in SUBSET Nat}

Frame ==
  [fn : Fn, pc : Nat \ {0}, state : SUBSET Name, before : SUBSET Name, round : Nat, post : Posts,
   heap_addresses : Addresses, heap_address_counter : Nat, buffered : SUBSET Reports,
   call_stack : SUBSET Fn, offset : Nat, next : Nat]

(* All names a frame knows are of frames that started before its next one. *)
NamesBelow(f, limit) ==
  /\ \A n \in f.state \union f.before : n[1] < limit
  /\ \A b \in DOMAIN f.post : \A n \in f.post[b] : n[1] < limit

GlobalOK ==
  /\ program \in Programs /\ options \in Options
  /\ phase \in {"run", "done", "bug"}
  /\ phase = "run" <=> frames # << >>
  /\ checked_def_ids \subseteq Fn
  /\ DOMAIN diagnostics_for = checked_def_ids
  /\ \A f \in checked_def_ids : diagnostics_for[f] \subseteq Reports
  /\ dropped_heaps \subseteq Nat

FramesOK ==
  /\ frames \in Seq(Frame)
  /\ \A i \in 1 .. Len(frames) :
       /\ frames[i].pc \in 1 .. Len(program[frames[i].fn]) + 1
       /\ frames[i].offset < frames[i].next
       /\ NamesBelow(frames[i], frames[i].next)

(* A frame starts at an offset that no frame under it has handed out.      *)
Ordered ==
  \A i, j \in 1 .. Len(frames) : i < j => frames[i].next <= frames[j].offset

(* A frame under another one is at a call.                                 *)
Waiting ==
  \A i \in 1 .. Len(frames) - 1 : frames[i].pc \in 1 .. Len(program[frames[i].fn])

(* Every frame knows on its call stack the callees under it, and itself.   *)
StackKnown ==
  /\ \A i, j \in 1 .. Len(frames) : 1 < i /\ i <= j => frames[i].fn \in frames[j].call_stack
  /\ \A i, j \in 1 .. Len(frames) : 1 < i /\ i < j => frames[i].fn # frames[j].fn

(* While the analysis runs, a report is stored or in the buffer of a frame.*)
Kept ==
  /\ phase = "run" =>
       /\ \A r \in said : \/ \E f \in checked_def_ids : r \in diagnostics_for[f]
                          \/ \E i \in 1 .. Len(frames) : r \in frames[i].buffered
       /\ \A f \in checked_def_ids : diagnostics_for[f] \subseteq said
       /\ \A i \in 1 .. Len(frames) : frames[i].buffered \subseteq said
  /\ phase = "done" => emitted = {r \in said : Wanted(r)}

IInv == GlobalOK /\ FramesOK /\ Ordered /\ Waiting /\ StackKnown /\ Kept

-----------------------------------------------------------------------------
(* A sequence whose last element is replaced.                              *)
LEMMA Replaced ==
  ASSUME NEW S, NEW s \in Seq(S), s # << >>, NEW f \in S
  PROVE  LET t == Append(SubSeq(s, 1, Len(s) - 1), f)
         IN /\ t \in Seq(S) /\ Len(t) = Len(s) /\ t[Len(s)] = f
            /\ \A i \in 1 .. Len(s) - 1 : t[i] = s[i]
<1>1. Len(s) \in Nat \ {0} BY EmptySeq, LenProperties
<1> DEFINE n == Len(s) - 1
<1>0. n \in Int /\ \A i \in 1 .. n : s[i] \in S BY <1>1, ElementOfSeq
<1> HIDE DEF n
<1>4. /\ SubSeq(s, 1, n) \in Seq(S)
      /\ Len(SubSeq(s, 1, n)) = IF 1 <= n THEN n - 1 + 1 ELSE 0
      /\ \A i \in 1 .. n - 1 + 1 : SubSeq(s, 1, n)[i] = s[1 + i - 1]
  BY <1>0, SubSeqProperties
<1>5. n \in Nat BY <1>1 DEF n
<1>2. SubSeq(s, 1, n) \in Seq(S) /\ Len(SubSeq(s, 1, n)) = n BY <1>4, <1>5
<1>3. \A i \in 1 .. n : SubSeq(s, 1, n)[i] = s[i] BY <1>0, <1>4
<1>. QED BY <1>1, <1>2, <1>3, AppendProperties DEF n

(* A sequence that loses its last element and has the one before replaced. *)
LEMMA Popped ==
  ASSUME NEW S, NEW s \in Seq(S), Len(s) > 1, NEW f \in S
  PROVE  LET t == Append(SubSeq(s, 1, Len(s) - 2), f)
         IN /\ t \in Seq(S) /\ Len(t) = Len(s) - 1 /\ t[Len(s) - 1] = f
            /\ \A i \in 1 .. Len(s) - 2 : t[i] = s[i]
<1>1. Len(s) \in Nat BY LenProperties
<1> DEFINE n == Len(s) - 2
<1>0. n \in Int /\ \A i \in 1 .. n : s[i] \in S BY <1>1, ElementOfSeq
<1> HIDE DEF n
<1>4. /\ SubSeq(s, 1, n) \in Seq(S)
      /\ Len(SubSeq(s, 1, n)) = IF 1 <= n THEN n - 1 + 1 ELSE 0
      /\ \A i \in 1 .. n - 1 + 1 : SubSeq(s, 1, n)[i] = s[1 + i - 1]
  BY <1>0, SubSeqProperties
<1>5. n \in Nat BY <1>1 DEF n
<1>2. SubSeq(s, 1, n) \in Seq(S) /\ Len(SubSeq(s, 1, n)) = n BY <1>4, <1>5
<1>3. \A i \in 1 .. n : SubSeq(s, 1, n)[i] = s[i] BY <1>0, <1>4
<1>. QED BY <1>1, <1>2, <1>3, AppendProperties DEF n

LEMMA Renumbered ==
  ASSUME NEW f \in Frame, NEW a \in Addresses, NEW c \in Nat
  PROVE  [f EXCEPT !.heap_addresses = a, !.heap_address_counter = c] \in Frame
BY DEF Frame

(* The top frame is one.                                                   *)
LEMMA TopFrame ==
  ASSUME GlobalOK, FramesOK, phase = "run"
  PROVE  Len(frames) \in Nat \ {0} /\ Top \in Frame /\ Body \in Seq(Block)
<1>1. frames \in Seq(Frame) /\ frames # << >> BY DEF GlobalOK, FramesOK
<1>2. Len(frames) \in Nat \ {0} BY <1>1, EmptySeq, LenProperties
<1>3. Top \in Frame BY <1>1, <1>2, ElementOfSeq DEF Top
<1>4. program \in [Fn -> Seq(Block)] BY MirCallsAssumption DEF GlobalOK
<1>. QED BY <1>2, <1>3, <1>4 DEF Frame, Body

(* The top frame goes on to the next block, or back for another round.     *)
Onward(f) ==
  \/ f.round = Top.round /\ f.pc = Top.pc + 1
  \/ Term.do = "back" /\ f.round = Top.round + 1 /\ f.pc = Term.to + 1 /\ f.pc \in 1 .. Top.pc

(* What an action does that neither enters nor leaves a function: the top  *)
(* frame moves in its body, learns names of frames that have started, and  *)
(* says what it buffers.                                                   *)
Moved(f, R) ==
  /\ frames' = Append(Lower, f)
  /\ f.fn = Top.fn /\ f.offset = Top.offset /\ f.next = Top.next /\ f.call_stack = Top.call_stack
  /\ f.pc \in 1 .. Len(Body) + 1 /\ Onward(f)
  /\ NamesBelow(f, f.next)
  /\ f.buffered = Top.buffered \union R
  /\ said' = said \union R

Local ==
  /\ phase = "run"
  /\ \E f \in Frame, R \in SUBSET Reports : Moved(f, R)
  /\ dropped_heaps' \subseteq Nat
  /\ UNCHANGED <<input, phase, checked_def_ids, diagnostics_for, emitted>>

LEMMA PastTop ==
  ASSUME IInv, phase = "run", ~AtEnd, NEW R \in SUBSET Reports, NEW g \in Frame,
         g.fn = Top.fn, g.pc = Top.pc, g.round = Top.round, g.offset = Top.offset,
         g.next = Top.next, g.call_stack = Top.call_stack, g.buffered = Top.buffered \union R,
         NamesBelow(g, Top.next),
         Becomes(Past(g)), said' = said \union R, dropped_heaps' \subseteq Nat,
         UNCHANGED <<input, phase, checked_def_ids, diagnostics_for, emitted>>
  PROVE  Local
<1>2. Len(frames) \in Nat \ {0} /\ Top \in Frame /\ Body \in Seq(Block) BY TopFrame DEF IInv
<1>3. Top.pc \in 1 .. Len(Body) + 1 BY <1>2 DEF IInv, FramesOK, Top, Body
<1>4. Top.pc + 1 \in 1 .. Len(Body) + 1 /\ Top.pc + 1 \in Nat \ {0}
  BY <1>2, <1>3, LenProperties DEF AtEnd
<1> DEFINE f == Past(g)
<1>5. f = [g EXCEPT !.pc = Top.pc + 1] BY DEF Past
<1>6. f \in Frame BY <1>4, <1>5 DEF Frame
<1>7. f.fn = g.fn /\ f.state = g.state /\ f.before = g.before /\ f.post = g.post /\ f.next = g.next
      /\ f.offset = g.offset /\ f.call_stack = g.call_stack /\ f.buffered = g.buffered
      /\ f.pc = Top.pc + 1 /\ f.round = g.round
  BY <1>5 DEF Frame
<1>8. frames' = Append(Lower, f) BY DEF Becomes
<1> HIDE DEF f
<1>9. Moved(f, R) BY <1>4, <1>7, <1>8 DEF Moved, Onward, NamesBelow
<1>. QED BY <1>6, <1>9 DEF Local

LEMMA AddressedFrame ==
  ASSUME Top \in Frame
  PROVE  LET g == Addressed(Top)
         IN /\ g \in Frame
            /\ g.fn = Top.fn /\ g.pc = Top.pc /\ g.state = Top.state /\ g.before = Top.before
            /\ g.round = Top.round /\ g.post = Top.post /\ g.buffered = Top.buffered
            /\ g.call_stack = Top.call_stack /\ g.offset = Top.offset /\ g.next = Top.next
<1> DEFINE g == Addressed(Top)
<1>1. g \in Frame /\ g = [Top EXCEPT !.heap_addresses = g.heap_addresses,
                                    !.heap_address_counter = g.heap_address_counter]
  <2>1. CASE Top.pc \in DOMAIN Top.heap_addresses
    BY <2>1 DEF Addressed, Frame
  <2>2. CASE Top.pc \notin DOMAIN Top.heap_addresses
    <3> DEFINE D == DOMAIN Top.heap_addresses \union {Top.pc}
               a == [l \in D |-> IF l = Top.pc THEN Top.heap_address_counter ELSE Top.heap_addresses[l]]
    <3>1. g = [Top EXCEPT !.heap_addresses = a, !.heap_address_counter = Top.heap_address_counter + 1]
      BY <2>2 DEF Addressed, Frame
    <3>2. PICK E \in SUBSET Nat : Top.heap_addresses \in [E -> Nat]
      BY DEF Frame, Addresses
    <3>3. D \in SUBSET Nat /\ a \in [D -> Nat] BY <3>2 DEF Frame
    <3>4. a \in Addresses BY <3>3 DEF Addresses
    <3> HIDE DEF a, g
    <3>5. g.heap_addresses = a /\ g.heap_address_counter = Top.heap_address_counter + 1
      BY <3>1 DEF Frame
    <3>6. Top.heap_address_counter + 1 \in Nat BY DEF Frame
    <3>7. g \in Frame BY <3>1, <3>4, <3>6, Renumbered
    <3>8. g = [Top EXCEPT !.heap_addresses = g.heap_addresses,
                          !.heap_address_counter = g.heap_address_counter]
      BY <3>1, <3>5, Zenon
    <3>. QED BY <3>7, <3>8
  <2>. QED BY <2>1, <2>2
<1>. QED BY <1>1 DEF Frame

LEMMA AllocLocal == ASSUME IInv, Alloc PROVE Local
<1>1. phase = "run" /\ ~AtEnd /\ GlobalOK /\ FramesOK BY DEF IInv, Alloc, At
<1>2. Len(frames) \in Nat \ {0} /\ Top \in Frame BY <1>1, TopFrame
<1>3. NamesBelow(Top, Top.next) /\ Top.offset < Top.next BY <1>1, <1>2 DEF FramesOK, Top
<1> DEFINE g == Addressed(Top)
           f == [g EXCEPT !.state = g.state \union {<<Top.offset, Top.pc>>}]
<1>5. g \in Frame BY <1>2, AddressedFrame
<1>6. g.fn = Top.fn /\ g.state = Top.state /\ g.before = Top.before /\ g.post = Top.post /\ g.next = Top.next
       /\ g.offset = Top.offset /\ g.call_stack = Top.call_stack /\ g.buffered = Top.buffered
       /\ g.pc = Top.pc /\ g.round = Top.round
  BY <1>2, AddressedFrame
<1>7. Becomes(Past(f)) /\ UNCHANGED <<said, dropped_heaps>> BY DEF Alloc, history, context
<1>8. UNCHANGED <<input, phase, checked_def_ids, diagnostics_for, emitted>> BY DEF Alloc, context
<1> HIDE DEF g
<1>9. g.state \union {<<Top.offset, Top.pc>>} \in SUBSET Name BY <1>2, <1>6 DEF Frame, Name
<1>10. f \in Frame BY <1>5, <1>9 DEF Frame
<1>11. /\ f.fn = g.fn /\ f.before = g.before /\ f.post = g.post /\ f.next = g.next
       /\ f.offset = g.offset /\ f.call_stack = g.call_stack /\ f.buffered = g.buffered
       /\ f.pc = g.pc /\ f.round = g.round /\ f.state = g.state \union {<<Top.offset, Top.pc>>}
  BY <1>5 DEF Frame
<1> HIDE DEF f
<1>12. NamesBelow(f, Top.next) BY <1>2, <1>3, <1>6, <1>11 DEF NamesBelow
<1>13. dropped_heaps' \subseteq Nat BY <1>1, <1>7 DEF GlobalOK
<1>14. f.buffered = Top.buffered \union {} /\ said' = said \union {} BY <1>6, <1>7, <1>11
<1>. QED BY <1>1, <1>6, <1>7, <1>8, <1>10, <1>11, <1>12, <1>13, <1>14, PastTop

LEMMA DropLocal == ASSUME IInv, Drop PROVE Local
<1>1. phase = "run" /\ ~AtEnd /\ GlobalOK /\ FramesOK BY DEF IInv, Drop, At
<1>2. Len(frames) \in Nat \ {0} /\ Top \in Frame BY <1>1, TopFrame
<1>3. NamesBelow(Top, Top.next) BY <1>1, <1>2 DEF FramesOK, Top
<1> DEFINE R == {Report("Memory", a) : a \in Late}
           f == [Top EXCEPT !.buffered = Top.buffered \union R]
<1>4. RelatedHeap \subseteq Nat
  <2>1. PICK E \in SUBSET Nat : Top.heap_addresses \in [E -> Nat] BY <1>2 DEF Frame, Addresses
  <2>. QED BY <2>1 DEF RelatedHeap
<1>5. R \in SUBSET Reports BY <1>2, <1>4 DEF Late, Report, Reports, Cause, Frame
<1>6. Becomes(Past(f)) /\ said' = said \union R BY DEF Drop
<1>7. dropped_heaps' \subseteq Nat BY <1>1, <1>4 DEF Drop, PutDown, GlobalOK
<1>8. UNCHANGED <<input, phase, checked_def_ids, diagnostics_for, emitted>> BY DEF Drop
<1> HIDE DEF R
<1>9. Top.buffered \union R \in SUBSET Reports BY <1>2, <1>5 DEF Frame
<1>10. f \in Frame BY <1>2, <1>9 DEF Frame
<1>11. /\ f.fn = Top.fn /\ f.before = Top.before /\ f.post = Top.post /\ f.next = Top.next
       /\ f.offset = Top.offset /\ f.call_stack = Top.call_stack /\ f.buffered = Top.buffered \union R
       /\ f.pc = Top.pc /\ f.round = Top.round /\ f.state = Top.state
  BY <1>2 DEF Frame
<1> HIDE DEF f
<1>12. NamesBelow(f, Top.next) BY <1>3, <1>11 DEF NamesBelow
<1>. QED BY <1>1, <1>5, <1>6, <1>7, <1>8, <1>10, <1>11, <1>12, PastTop

LEMMA WarnLocal == ASSUME IInv, Warn PROVE Local
<1>1. phase = "run" /\ ~AtEnd /\ GlobalOK /\ FramesOK BY DEF IInv, Warn, At
<1>2. Len(frames) \in Nat \ {0} /\ Top \in Frame /\ Body \in Seq(Block) BY <1>1, TopFrame
<1>3. NamesBelow(Top, Top.next) /\ Top.pc \in 1 .. Len(Body) + 1
  BY <1>1, <1>2 DEF FramesOK, Top, Body
<1>4. Term.cause \in Cause
  <2>1. Term \in Block BY <1>1, <1>2, <1>3, LenProperties, ElementOfSeq DEF AtEnd, Term
  <2>2. Term.do = "warn" BY DEF Warn, At, Term
  <2>. QED BY <2>1, <2>2 DEF Block, Warnings, Cause
<1>5. Report(Term.cause, 0) \in Reports BY <1>2, <1>4 DEF Report, Reports, Frame
<1>6. PICK R \in SUBSET {Report(Term.cause, 0)} :
        /\ Becomes(Past([Top EXCEPT !.buffered = Top.buffered \union R]))
        /\ said' = said \union R
  BY DEF Warn
<1> DEFINE f == [Top EXCEPT !.buffered = Top.buffered \union R]
<1>7. dropped_heaps' \subseteq Nat BY <1>1 DEF Warn, context, GlobalOK
<1>8. UNCHANGED <<input, phase, checked_def_ids, diagnostics_for, emitted>> BY DEF Warn, context
<1>9. Top.buffered \union R \in SUBSET Reports /\ R \in SUBSET Reports BY <1>2, <1>5 DEF Frame
<1>10. f \in Frame BY <1>2, <1>9 DEF Frame
<1>11. /\ f.fn = Top.fn /\ f.before = Top.before /\ f.post = Top.post /\ f.next = Top.next
       /\ f.offset = Top.offset /\ f.call_stack = Top.call_stack /\ f.buffered = Top.buffered \union R
       /\ f.pc = Top.pc /\ f.round = Top.round /\ f.state = Top.state
  BY <1>2 DEF Frame
<1>12. Becomes(Past(f)) BY <1>6
<1> HIDE DEF f
<1>13. NamesBelow(f, Top.next) BY <1>3, <1>11 DEF NamesBelow
<1>. QED BY <1>1, <1>6, <1>7, <1>8, <1>9, <1>10, <1>11, <1>12, <1>13, PastTop

LEMMA ReturnLocal == ASSUME IInv, Return PROVE Local
<1>1. phase = "run" /\ ~AtEnd /\ GlobalOK /\ FramesOK BY DEF IInv, Return, At
<1>2. Len(frames) \in Nat \ {0} /\ Top \in Frame BY <1>1, TopFrame
<1>3. NamesBelow(Top, Top.next) BY <1>1, <1>2 DEF FramesOK, Top
<1> DEFINE D == DOMAIN Top.post \union {Top.pc}
           p == [b \in D |-> IF b = Top.pc THEN Top.state ELSE Top.post[b]]
           f == [Top EXCEPT !.post = p]
<1>4. p \in Posts
  <2>1. PICK E \in SUBSET Nat : Top.post \in [E -> SUBSET Name] BY <1>2 DEF Frame, Posts
  <2>2. D \in SUBSET Nat /\ p \in [D -> SUBSET Name] BY <1>2, <2>1 DEF Frame
  <2>. QED BY <2>2 DEF Posts
<1>5. Becomes(Past(f)) /\ UNCHANGED <<said, dropped_heaps>> BY DEF Return, history, context
<1>6. UNCHANGED <<input, phase, checked_def_ids, diagnostics_for, emitted>> BY DEF Return, context
<1>7. \A b \in DOMAIN p : p[b] = Top.state \/ (b \in DOMAIN Top.post /\ p[b] = Top.post[b])
  OBVIOUS
<1> HIDE DEF p
<1>10. f \in Frame BY <1>2, <1>4 DEF Frame
<1>11. /\ f.fn = Top.fn /\ f.before = Top.before /\ f.post = p /\ f.next = Top.next
       /\ f.offset = Top.offset /\ f.call_stack = Top.call_stack /\ f.buffered = Top.buffered
       /\ f.pc = Top.pc /\ f.round = Top.round /\ f.state = Top.state
  BY <1>2 DEF Frame
<1> HIDE DEF f
<1>12. NamesBelow(f, Top.next) BY <1>3, <1>7, <1>11 DEF NamesBelow
<1>13. dropped_heaps' \subseteq Nat BY <1>1, <1>5 DEF GlobalOK
<1>14. f.buffered = Top.buffered \union {} /\ said' = said \union {} BY <1>5, <1>11
<1>. QED BY <1>1, <1>5, <1>6, <1>10, <1>11, <1>12, <1>13, <1>14, PastTop

(* A block that is not visited: the frame goes on as it is, or with a      *)
(* state for a return it knows already.                                    *)
LEMMA SkipLocal == ASSUME IInv, Skip PROVE Local
<1>1. phase = "run" /\ ~AtEnd /\ GlobalOK /\ FramesOK BY DEF IInv, Skip
<1>2. Len(frames) \in Nat \ {0} /\ Top \in Frame BY <1>1, TopFrame
<1>3. NamesBelow(Top, Top.next) BY <1>1, <1>2 DEF FramesOK, Top
<1>4. PICK E \in SUBSET Nat : Top.post \in [E -> SUBSET Name] BY <1>2 DEF Frame, Posts
<1>5. PICK p \in Posts :
        /\ Becomes(Past([Top EXCEPT !.post = p]))
        /\ \A b \in DOMAIN p : p[b] = Top.state \/ (b \in DOMAIN Top.post /\ p[b] = Top.post[b])
  <2>1. CASE Top.pc \in DOMAIN Top.post
    <3> DEFINE p == [Top.post EXCEPT ![Top.pc] = Top.state]
    <3>1. p \in [E -> SUBSET Name] BY <1>2, <1>4 DEF Frame
    <3>2. p \in Posts BY <3>1 DEF Posts
    <3>3. Becomes(Past([Top EXCEPT !.post = p]))
      <4>1. Becomes(Past([Top EXCEPT !.post[Top.pc] = Top.state])) BY <2>1 DEF Skip
      <4>. QED BY <4>1
    <3>4. \A b \in DOMAIN p : p[b] = Top.state \/ (b \in DOMAIN Top.post /\ p[b] = Top.post[b])
      BY <1>4
    <3>. QED BY <3>2, <3>3, <3>4
  <2>2. CASE Top.pc \notin DOMAIN Top.post
    <3>1. Top = [Top EXCEPT !.post = Top.post] /\ Top.post \in Posts BY <1>2 DEF Frame
    <3>2. Becomes(Past(Top)) BY <2>2 DEF Skip
    <3>. QED BY <3>1, <3>2
  <2>. QED BY <2>1, <2>2
<1> DEFINE f == [Top EXCEPT !.post = p]
<1>6. UNCHANGED <<said, dropped_heaps>> BY DEF Skip, history, context
<1>7. UNCHANGED <<input, phase, checked_def_ids, diagnostics_for, emitted>> BY DEF Skip, context
<1>10. f \in Frame BY <1>2 DEF Frame
<1>11. /\ f.fn = Top.fn /\ f.before = Top.before /\ f.post = p /\ f.next = Top.next
       /\ f.offset = Top.offset /\ f.call_stack = Top.call_stack /\ f.buffered = Top.buffered
       /\ f.pc = Top.pc /\ f.round = Top.round /\ f.state = Top.state
  BY <1>2 DEF Frame
<1>12. Becomes(Past(f)) BY <1>5
<1> HIDE DEF f
<1>13. NamesBelow(f, Top.next) BY <1>3, <1>5, <1>11 DEF NamesBelow
<1>14. dropped_heaps' \subseteq Nat BY <1>1, <1>6 DEF GlobalOK
<1>15. f.buffered = Top.buffered \union {} /\ said' = said \union {} BY <1>6, <1>11
<1>. QED BY <1>1, <1>7, <1>10, <1>11, <1>12, <1>13, <1>14, <1>15, PastTop

(* The actions that change no field of the frame but its state.            *)
LEMMA StateLocal ==
  ASSUME IInv, phase = "run", ~AtEnd, NEW st \in SUBSET Name, NEW be \in SUBSET Name,
         \A n \in st \union be : n[1] < Top.next,
         Becomes(Past([Top EXCEPT !.state = st, !.before = be])),
         UNCHANGED <<input, phase, context, emitted, history>>
  PROVE  Local
<1>1. GlobalOK /\ FramesOK BY DEF IInv
<1>2. Len(frames) \in Nat \ {0} /\ Top \in Frame BY <1>1, TopFrame
<1>3. NamesBelow(Top, Top.next) BY <1>1, <1>2 DEF FramesOK, Top
<1> DEFINE f == [Top EXCEPT !.state = st, !.before = be]
<1>10. f \in Frame BY <1>2 DEF Frame
<1>11. /\ f.fn = Top.fn /\ f.before = be /\ f.post = Top.post /\ f.next = Top.next
       /\ f.offset = Top.offset /\ f.call_stack = Top.call_stack /\ f.buffered = Top.buffered
       /\ f.pc = Top.pc /\ f.round = Top.round /\ f.state = st
  BY <1>2 DEF Frame
<1> HIDE DEF f
<1>4. Becomes(Past(f)) BY DEF f
<1>12. NamesBelow(f, Top.next) BY <1>3, <1>11 DEF NamesBelow
<1>13. dropped_heaps' \subseteq Nat BY <1>1 DEF GlobalOK, context
<1>14. f.buffered = Top.buffered \union {} /\ said' = said \union {} BY <1>11 DEF history
<1>15. UNCHANGED <<input, phase, checked_def_ids, diagnostics_for, emitted>> BY DEF context
<1>. QED BY <1>4, <1>10, <1>11, <1>12, <1>13, <1>14, <1>15, PastTop

LEMMA OthersLocal == ASSUME IInv, Assert \/ CircleHead \/ Cut \/ CallExternal PROVE Local
<1>1. phase = "run" /\ ~AtEnd /\ GlobalOK /\ FramesOK
  BY DEF IInv, Assert, CircleHead, Cut, CallExternal, At
<1>2. Len(frames) \in Nat \ {0} /\ Top \in Frame BY <1>1, TopFrame
<1>3. NamesBelow(Top, Top.next) BY <1>1, <1>2 DEF FramesOK, Top
<1>4. Top.state \in SUBSET Name /\ Top.before \in SUBSET Name BY <1>2 DEF Frame
<1>5. UNCHANGED <<input, phase, context, emitted, history>>
  BY DEF Assert, CircleHead, Cut, CallExternal
<1>6. PICK st \in SUBSET Name, be \in SUBSET Name :
        /\ Becomes(Past([Top EXCEPT !.state = st, !.before = be]))
        /\ st \union be \subseteq Top.state \union Top.before
  <2>1. CASE Assert \/ CallExternal
    <3>1. Top = [Top EXCEPT !.state = Top.state, !.before = Top.before] BY <1>2 DEF Frame
    <3>2. Becomes(Past(Top)) BY <2>1 DEF Assert, CallExternal
    <3>. QED BY <1>4, <3>1, <3>2
  <2>2. CASE CircleHead
    <3>1. [Top EXCEPT !.before = Top.state] = [Top EXCEPT !.state = Top.state, !.before = Top.state]
      BY <1>2 DEF Frame
    <3>2. Becomes(Past([Top EXCEPT !.before = Top.state])) BY <2>2 DEF CircleHead
    <3>. QED BY <1>4, <3>1, <3>2
  <2>3. CASE Cut
    <3>1. [Top EXCEPT !.state = {}] = [Top EXCEPT !.state = {}, !.before = Top.before]
      BY <1>2 DEF Frame
    <3>2. Becomes(Past([Top EXCEPT !.state = {}])) BY <2>3 DEF Cut
    <3>. QED BY <1>4, <3>1, <3>2
  <2>. QED BY <2>1, <2>2, <2>3
<1>7. \A n \in st \union be : n[1] < Top.next BY <1>3, <1>6 DEF NamesBelow
<1>. QED BY <1>1, <1>5, <1>6, <1>7, StateLocal

LEMMA BackLocal == ASSUME IInv, Back PROVE Local
<1>1. phase = "run" /\ ~AtEnd /\ GlobalOK /\ FramesOK BY DEF IInv, Back, At
<1>2. Len(frames) \in Nat \ {0} /\ Top \in Frame /\ Body \in Seq(Block) BY <1>1, TopFrame
<1>3. NamesBelow(Top, Top.next) /\ Top.pc \in 1 .. Len(Body) + 1
  BY <1>1, <1>2 DEF FramesOK, Top, Body
<1>4. CASE Becomes(Past(Top))
  <2>1. Top = [Top EXCEPT !.state = Top.state, !.before = Top.before] BY <1>2 DEF Frame
  <2>2. Top.state \in SUBSET Name /\ Top.before \in SUBSET Name BY <1>2 DEF Frame
  <2>3. \A n \in Top.state \union Top.before : n[1] < Top.next BY <1>3 DEF NamesBelow
  <2>4. Becomes(Past([Top EXCEPT !.state = Top.state, !.before = Top.before])) BY <1>4, <2>1
  <2>5. UNCHANGED <<input, phase, context, emitted, history>> BY DEF Back
  <2>. QED BY <1>1, <2>2, <2>3, <2>4, <2>5, StateLocal
<1>5. CASE Becomes([Top EXCEPT !.pc = Term.to + 1, !.round = @ + 1, !.state = @ \union Top.before])
  <2> DEFINE f == [Top EXCEPT !.pc = Term.to + 1, !.round = Top.round + 1, !.state = Top.state \union Top.before]
  <2>1. Term.to \in 0 .. (Top.pc - 1)
    <3>1. Top.pc \in DOMAIN Body BY <1>1, <1>2, <1>3, LenProperties DEF AtEnd
    <3>2. Term.do = "back" /\ Top.fn \in Fn /\ program \in Programs
      BY <1>1, <1>2 DEF Back, At, Term, Frame, GlobalOK
    <3>. QED BY <3>1, <3>2, MirCallsAssumption DEF Body, Term
  <2>2. Term.to + 1 \in 1 .. Len(Body) + 1 /\ Term.to + 1 \in Nat \ {0}
        /\ Term.to + 1 \in 1 .. Top.pc
    BY <1>2, <1>3, <2>1, LenProperties
  <2>3. Top.round + 1 \in Nat /\ Top.state \union Top.before \in SUBSET Name BY <1>2 DEF Frame
  <2>4. f \in Frame BY <1>2, <2>2, <2>3 DEF Frame
  <2>5. /\ f.fn = Top.fn /\ f.before = Top.before /\ f.post = Top.post /\ f.next = Top.next
        /\ f.offset = Top.offset /\ f.call_stack = Top.call_stack /\ f.buffered = Top.buffered
        /\ f.pc = Term.to + 1 /\ f.round = Top.round + 1 /\ f.state = Top.state \union Top.before
    BY <1>2 DEF Frame
  <2>6. frames' = Append(Lower, f) BY <1>5 DEF Becomes
  <2> HIDE DEF f
  <2>7. NamesBelow(f, f.next) BY <1>3, <2>5 DEF NamesBelow
  <2>8. dropped_heaps' \subseteq Nat /\ UNCHANGED <<input, phase, checked_def_ids, diagnostics_for, emitted, said>>
    BY <1>1 DEF Back, context, history, GlobalOK
  <2>9. Moved(f, {})
    <3>1. Onward(f) BY <2>2, <2>5 DEF Onward, Back, At, Term
    <3>. QED BY <2>2, <2>5, <2>6, <2>7, <2>8, <3>1 DEF Moved
  <2>. QED BY <1>1, <2>4, <2>8, <2>9 DEF Local
<1>. QED BY <1>4, <1>5 DEF Back

(* The actions that neither enter nor leave a function.                    *)
Step ==
  Alloc \/ Drop \/ Warn \/ Skip \/ Return \/ Assert \/ CircleHead \/ Back \/ Cut \/ CallExternal

LEMMA StepLocal == ASSUME IInv, Step PROVE Local
BY AllocLocal, DropLocal, WarnLocal, SkipLocal, ReturnLocal, OthersLocal, BackLocal DEF Step

-----------------------------------------------------------------------------
LEMMA LocalKeeps == ASSUME IInv, Local PROVE IInv'
<1>1. phase = "run" /\ GlobalOK /\ FramesOK /\ Ordered /\ Waiting /\ StackKnown /\ Kept
  BY DEF IInv, Local
<1>2. Len(frames) \in Nat \ {0} /\ Top \in Frame BY <1>1, TopFrame
<1>3. PICK f \in Frame, R \in SUBSET Reports : Moved(f, R) BY DEF Local
<1>4. UNCHANGED <<program, options, phase, checked_def_ids, diagnostics_for, emitted>>
  BY DEF Local, input
<1> DEFINE n == Len(frames)
<1>5. /\ frames' \in Seq(Frame) /\ Len(frames') = n /\ frames'[n] = f
      /\ \A i \in 1 .. n - 1 : frames'[i] = frames[i]
  BY <1>1, <1>3, Replaced DEF Moved, Lower, GlobalOK, FramesOK
<1>6. /\ f.fn = frames[n].fn /\ f.offset = frames[n].offset /\ f.next = frames[n].next
      /\ f.call_stack = frames[n].call_stack /\ f.buffered = frames[n].buffered \union R
      /\ f.pc \in 1 .. Len(program[f.fn]) + 1 /\ NamesBelow(f, f.next) /\ said' = said \union R
  BY <1>3 DEF Moved, Top, Body
<1> HIDE DEF n
<1>7. n \in Nat \ {0} /\ n = Len(frames) BY <1>2 DEF n
<1>8. GlobalOK'
  <2>1. frames' # << >> BY <1>5, <1>7, EmptySeq
  <2>2. dropped_heaps' \subseteq Nat BY DEF Local
  <2>. QED BY <1>1, <1>4, <2>1, <2>2 DEF GlobalOK
<1>9. FramesOK'
  <2>1. ASSUME NEW i \in 1 .. Len(frames')
        PROVE  /\ frames'[i].pc \in 1 .. Len(program'[frames'[i].fn]) + 1
               /\ frames'[i].offset < frames'[i].next
               /\ NamesBelow(frames'[i], frames'[i].next)
    <3>1. CASE i = n BY <1>1, <1>4, <1>5, <1>6, <1>7, <3>1 DEF FramesOK
    <3>2. CASE i # n BY <1>1, <1>4, <1>5, <1>7, <3>2 DEF FramesOK
    <3>. QED BY <3>1, <3>2
  <2>. QED BY <1>5, <2>1 DEF FramesOK, NamesBelow
<1>10. \A i \in 1 .. n : /\ frames'[i].fn = frames[i].fn /\ frames'[i].offset = frames[i].offset
                         /\ frames'[i].next = frames[i].next
                         /\ frames'[i].call_stack = frames[i].call_stack
  BY <1>5, <1>6, <1>7
<1>11. Ordered' BY <1>1, <1>5, <1>7, <1>10 DEF Ordered
<1>12. StackKnown' BY <1>1, <1>5, <1>7, <1>10 DEF StackKnown
<1>13. Kept'
  <2>1. \A r \in said' : \/ \E g \in checked_def_ids : r \in diagnostics_for[g]
                         \/ \E i \in 1 .. n : r \in frames'[i].buffered
    <3> SUFFICES ASSUME NEW r \in said'
                 PROVE  \/ \E g \in checked_def_ids : r \in diagnostics_for[g]
                        \/ \E i \in 1 .. n : r \in frames'[i].buffered
      OBVIOUS
    <3>1. CASE r \in R BY <1>5, <1>6, <1>7, <3>1
    <3>2. CASE r \in said
      <4>1. CASE \E g \in checked_def_ids : r \in diagnostics_for[g] BY <4>1
      <4>2. CASE \E i \in 1 .. n : r \in frames[i].buffered
        <5>1. PICK i \in 1 .. n : r \in frames[i].buffered BY <4>2
        <5>2. r \in frames'[i].buffered BY <1>5, <1>6, <1>7, <5>1
        <5>. QED BY <5>2
      <4>. QED BY <1>1, <1>7, <3>2, <4>1, <4>2 DEF Kept
    <3>. QED BY <1>6, <3>1, <3>2
  <2>2. \A i \in 1 .. n : frames'[i].buffered \subseteq said'
    BY <1>1, <1>5, <1>6, <1>7 DEF Kept
  <2>3. \A g \in checked_def_ids : diagnostics_for[g] \subseteq said' BY <1>1, <1>6 DEF Kept
  <2>. QED BY <1>1, <1>4, <1>5, <2>1, <2>2, <2>3 DEF Kept
<1>14. Waiting' BY <1>1, <1>4, <1>5, <1>7 DEF Waiting
<1>. QED BY <1>8, <1>9, <1>11, <1>12, <1>13, <1>14 DEF IInv

LEMMA EnterKeeps == ASSUME IInv, Enter PROVE IInv'
<1>1. phase = "run" /\ ~AtEnd /\ GlobalOK /\ FramesOK /\ Ordered /\ Waiting /\ StackKnown /\ Kept
  BY DEF IInv, Enter, At
<1>2. Len(frames) \in Nat \ {0} /\ Top \in Frame BY <1>1, TopFrame
<1>3. Term.fn \in Fn /\ Term.fn \notin Top.call_stack BY DEF Enter, CanEnter
<1> DEFINE n == Len(frames)
           f == New(Term.fn, Top.state \union {<<Top.next, 0>>}, Top.next, Top.call_stack \union {Term.fn})
<1>4. frames' = Append(frames, f) BY DEF Enter
<1>5. UNCHANGED <<program, options, phase, checked_def_ids, dropped_heaps, diagnostics_for, emitted, said>>
  BY DEF Enter, input, context, history
<1>6. << >> \in Posts /\ << >> \in Addresses
  <2>1. << >> \in [{} -> SUBSET Name] /\ << >> \in [{} -> Nat] OBVIOUS
  <2>. QED BY <2>1 DEF Posts, Addresses
<1>7. Top.state \union {<<Top.next, 0>>} \in SUBSET Name BY <1>2 DEF Frame, Name
<1>8. /\ f.fn = Term.fn /\ f.offset = Top.next /\ f.next = Top.next + 1 /\ f.pc = 1 /\ f.before = {}
      /\ f.state = Top.state \union {<<Top.next, 0>>} /\ f.post = << >> /\ f.buffered = {}
      /\ f.call_stack = Top.call_stack \union {Term.fn}
  BY DEF New
<1>9. f \in Frame
  <2>1. Top.next \in Nat /\ Top.call_stack \in SUBSET Fn BY <1>2 DEF Frame
  <2>. QED BY <1>3, <1>6, <1>7, <2>1 DEF New, Frame
<1> HIDE DEF f
<1>10. /\ frames' \in Seq(Frame) /\ Len(frames') = n + 1 /\ frames'[n + 1] = f
       /\ \A i \in 1 .. n : frames'[i] = frames[i]
  BY <1>1, <1>4, <1>9, AppendProperties DEF FramesOK
<1> HIDE DEF n
<1>11. n \in Nat \ {0} /\ n = Len(frames) BY <1>2 DEF n
<1>12. Top = frames[n] BY <1>11 DEF Top
<1>13. GlobalOK'
  <2>1. frames' # << >> BY <1>10, <1>11, EmptySeq
  <2>. QED BY <1>1, <1>5, <2>1 DEF GlobalOK
<1>14. FramesOK'
  <2>1. ASSUME NEW i \in 1 .. Len(frames')
        PROVE  /\ frames'[i].pc \in 1 .. Len(program'[frames'[i].fn]) + 1
               /\ frames'[i].offset < frames'[i].next
               /\ NamesBelow(frames'[i], frames'[i].next)
    <3>1. CASE i = n + 1
      <4>1. program[Term.fn] \in Seq(Block)
        BY <1>1, <1>3, MirCallsAssumption DEF GlobalOK
      <4>2. f.pc \in 1 .. Len(program[f.fn]) + 1 BY <1>8, <4>1, LenProperties
      <4>3. \A m \in Top.state : m[1] < Top.next BY <1>1, <1>11, <1>12 DEF FramesOK, NamesBelow
      <4>4. \A m \in Top.state : m[1] \in Nat BY <1>2 DEF Frame, Name
      <4>5. NamesBelow(f, f.next) /\ f.offset < f.next
        BY <1>2, <1>8, <4>3, <4>4 DEF NamesBelow, Frame
      <4>. QED BY <1>5, <1>10, <3>1, <4>2, <4>5
    <3>2. CASE i # n + 1 BY <1>1, <1>5, <1>10, <1>11, <3>2 DEF FramesOK
    <3>. QED BY <3>1, <3>2
  <2>. QED BY <1>10, <2>1 DEF FramesOK, NamesBelow
<1>15. Ordered'
  <2>1. ASSUME NEW i \in 1 .. n + 1, NEW j \in 1 .. n + 1, i < j
        PROVE  frames'[i].next <= frames'[j].offset
    <3>1. CASE j # n + 1 BY <1>1, <1>10, <1>11, <2>1, <3>1 DEF Ordered
    <3>2. CASE j = n + 1
      <4>1. frames[i] \in Frame /\ frames[n] \in Frame
        BY <1>1, <1>11, <2>1, <3>2, ElementOfSeq DEF FramesOK
      <4>2. frames[n].offset < frames[n].next BY <1>1, <1>11 DEF FramesOK
      <4>3. frames[i].next <= frames[n].next
        <5>1. CASE i = n BY <4>1, <5>1 DEF Frame
        <5>2. CASE i # n
          <6>1. frames[i].next <= frames[n].offset BY <1>1, <1>11, <2>1, <3>2, <5>2 DEF Ordered
          <6>2. frames[i].next \in Nat /\ frames[n].offset \in Nat /\ frames[n].next \in Nat
            BY <4>1 DEF Frame
          <6>. QED BY <4>2, <6>1, <6>2
        <5>. QED BY <5>1, <5>2
      <4>. QED BY <1>8, <1>10, <1>11, <1>12, <2>1, <3>2, <4>3
    <3>. QED BY <3>1, <3>2
  <2>. QED BY <1>10, <2>1 DEF Ordered
<1>16. StackKnown'
  <2>1. \A i \in 1 .. n : 1 < i => frames[i].fn \in Top.call_stack
    BY <1>1, <1>11, <1>12 DEF StackKnown
  <2>2. ASSUME NEW i \in 1 .. n + 1, NEW j \in 1 .. n + 1, 1 < i, i <= j
        PROVE  frames'[i].fn \in frames'[j].call_stack
    <3>1. CASE j # n + 1 BY <1>1, <1>10, <1>11, <2>2, <3>1 DEF StackKnown
    <3>2. CASE j = n + 1 /\ i # n + 1 BY <1>8, <1>10, <1>11, <2>1, <2>2, <3>2
    <3>3. CASE j = n + 1 /\ i = n + 1 BY <1>8, <1>10, <3>3
    <3>. QED BY <3>1, <3>2, <3>3
  <2>3. ASSUME NEW i \in 1 .. n + 1, NEW j \in 1 .. n + 1, 1 < i, i < j
        PROVE  frames'[i].fn # frames'[j].fn
    <3>1. CASE j # n + 1 BY <1>1, <1>10, <1>11, <2>3, <3>1 DEF StackKnown
    <3>2. CASE j = n + 1 BY <1>3, <1>8, <1>10, <1>11, <2>1, <2>3, <3>2
    <3>. QED BY <3>1, <3>2
  <2>. QED BY <1>10, <2>2, <2>3 DEF StackKnown
<1>17. Kept'
  <2>1. \A r \in said : \/ \E g \in checked_def_ids : r \in diagnostics_for[g]
                        \/ \E i \in 1 .. n + 1 : r \in frames'[i].buffered
    BY <1>1, <1>10, <1>11 DEF Kept
  <2>2. \A i \in 1 .. n + 1 : frames'[i].buffered \subseteq said
    BY <1>1, <1>8, <1>10, <1>11 DEF Kept
  <2>3. \A g \in checked_def_ids : diagnostics_for[g] \subseteq said BY <1>1 DEF Kept
  <2>. QED BY <1>1, <1>5, <1>10, <2>1, <2>2, <2>3 DEF Kept
<1>18. Waiting'
  <2>1. frames[n].pc \in 1 .. Len(program[frames[n].fn])
    <3>1. Body \in Seq(Block) /\ Body = program[frames[n].fn] BY <1>1, <1>12, TopFrame DEF Body
    <3>2. frames[n].pc \in 1 .. Len(Body) + 1 BY <1>1, <1>11, <3>1 DEF FramesOK
    <3>. QED BY <1>1, <1>12, <3>1, <3>2, LenProperties DEF AtEnd
  <2>. QED BY <1>1, <1>5, <1>10, <1>11, <2>1 DEF Waiting
<1>. QED BY <1>13, <1>14, <1>15, <1>16, <1>17, <1>18 DEF IInv

(* What the end of an analysis does to the reports.                        *)
LEMMA Checked ==
  ASSUME IInv, phase = "run", NEW S \in SUBSET Asserts, RunChecker(S)
  PROVE  /\ checked_def_ids' = checked_def_ids \union {Top.fn}
         /\ DOMAIN diagnostics_for' = checked_def_ids'
         /\ \A f \in checked_def_ids' : diagnostics_for'[f] \subseteq Reports
         /\ \A f \in checked_def_ids : diagnostics_for'[f] = diagnostics_for[f]
         /\ said \subseteq said' /\ said' \subseteq said \union diagnostics_for'[Top.fn]
         /\ diagnostics_for'[Top.fn] \subseteq said'
         /\ LeftOver = {} => Top.buffered \subseteq diagnostics_for'[Top.fn]
<1>1. GlobalOK /\ FramesOK /\ Kept BY DEF IInv
<1>2. Len(frames) \in Nat \ {0} /\ Top \in Frame /\ Body \in Seq(Block) BY <1>1, TopFrame
<1>3. Top.buffered \subseteq said BY <1>1, <1>2 DEF Kept, Top
<1>4. Top.fn \in Fn /\ Top.buffered \in SUBSET Reports /\ Top.offset \in Nat BY <1>2 DEF Frame
<1>5. CASE Top.fn \in checked_def_ids
  <2>1. UNCHANGED <<checked_def_ids, diagnostics_for, said>> BY <1>5 DEF RunChecker
  <2>2. LeftOver = Top.buffered BY <1>5 DEF LeftOver
  <2>. QED BY <1>1, <1>5, <2>1, <2>2 DEF GlobalOK, Kept
<1>6. CASE Top.fn \notin checked_def_ids
  <2> DEFINE D == Top.buffered \union Failed(S)
  <2>1. /\ checked_def_ids' = checked_def_ids \union {Top.fn}
        /\ diagnostics_for' = [f \in DOMAIN diagnostics_for \union {Top.fn} |->
                                 IF f = Top.fn THEN D ELSE diagnostics_for[f]]
        /\ said' = said \union Failed(S)
    BY <1>6 DEF RunChecker, RunCheckerAlways, Store
  <2>2. S \subseteq Nat BY <1>2, LenProperties DEF Asserts
  <2>3. Failed(S) \subseteq Reports BY <1>4, <2>2 DEF Failed, Reports, Cause
  <2> HIDE DEF D
  <2>4. D \subseteq Reports /\ D = Top.buffered \union Failed(S) BY <1>4, <2>3 DEF D
  <2>5. DOMAIN diagnostics_for = checked_def_ids
        /\ \A f \in checked_def_ids : diagnostics_for[f] \subseteq Reports
    BY <1>1 DEF GlobalOK
  <2>6. diagnostics_for'[Top.fn] = D BY <2>1
  <2>7. \A f \in checked_def_ids : diagnostics_for'[f] = diagnostics_for[f] BY <1>6, <2>1, <2>5
  <2>8. DOMAIN diagnostics_for' = checked_def_ids' BY <2>1, <2>5
  <2>. QED BY <1>3, <2>1, <2>4, <2>5, <2>6, <2>7, <2>8
<1>. QED BY <1>5, <1>6

(* The caller goes on after its call.                                      *)
LEMMA ResumedFrame ==
  ASSUME NEW c \in Frame, NEW st \in SUBSET Name, NEW k \in Nat
  PROVE  LET f == Past([c EXCEPT !.state = st, !.next = k])
         IN /\ f \in Frame
            /\ f.fn = c.fn /\ f.pc = c.pc + 1 /\ f.state = st /\ f.before = c.before
            /\ f.post = c.post /\ f.buffered = c.buffered /\ f.call_stack = c.call_stack
            /\ f.offset = c.offset /\ f.next = k /\ f.round = c.round
<1> DEFINE g == [c EXCEPT !.state = st, !.next = k]
<1>1. g \in Frame BY DEF Frame
<1>2. /\ g.fn = c.fn /\ g.pc = c.pc /\ g.state = st /\ g.before = c.before
      /\ g.post = c.post /\ g.buffered = c.buffered /\ g.call_stack = c.call_stack
      /\ g.offset = c.offset /\ g.next = k /\ g.round = c.round
  BY DEF Frame
<1> HIDE DEF g
<1>3. c.pc + 1 \in Nat \ {0} BY DEF Frame
<1>4. Past(g) = [g EXCEPT !.pc = c.pc + 1] BY <1>2 DEF Past
<1>5. Past(g) \in Frame BY <1>1, <1>3, <1>4 DEF Frame
<1>6. /\ Past(g).fn = c.fn /\ Past(g).pc = c.pc + 1 /\ Past(g).state = st
      /\ Past(g).before = c.before /\ Past(g).post = c.post /\ Past(g).buffered = c.buffered
      /\ Past(g).call_stack = c.call_stack /\ Past(g).offset = c.offset /\ Past(g).next = k
      /\ Past(g).round = c.round
  BY <1>1, <1>2, <1>4 DEF Frame
<1>. QED BY <1>5, <1>6 DEF g

LEMMA LeaveKeeps == ASSUME IInv, Leave PROVE IInv'
<1>1. phase = "run" /\ GlobalOK /\ FramesOK /\ Ordered /\ Waiting /\ StackKnown /\ Kept
      /\ LeftOver = {}
  BY DEF IInv, Leave
<1>2. Len(frames) \in Nat \ {0} /\ Top \in Frame BY <1>1, TopFrame
<1> DEFINE n == Len(frames)
           c == frames[n - 1]
           f == Resumed(c)
<1>3. n \in Nat /\ n > 1 BY <1>2 DEF Leave
<1>4. c \in Frame /\ Top = frames[n] BY <1>1, <1>3, ElementOfSeq DEF FramesOK, Top
<1>5. UNCHANGED <<program, options, phase, dropped_heaps, emitted>> BY DEF Leave, input
<1>6. PICK S \in SUBSET Asserts : RunChecker(S) BY DEF Leave
<1>7. /\ checked_def_ids' = checked_def_ids \union {Top.fn}
      /\ DOMAIN diagnostics_for' = checked_def_ids'
      /\ \A g \in checked_def_ids' : diagnostics_for'[g] \subseteq Reports
      /\ \A g \in checked_def_ids : diagnostics_for'[g] = diagnostics_for[g]
      /\ said \subseteq said' /\ said' \subseteq said \union diagnostics_for'[Top.fn]
      /\ diagnostics_for'[Top.fn] \subseteq said'
      /\ Top.buffered \subseteq diagnostics_for'[Top.fn]
  BY <1>1, <1>6, Checked
<1>8. frames' = Append(SubSeq(frames, 1, n - 2), f) BY DEF Leave
<1>9. PostState \in SUBSET Name
  <2>1. PICK E \in SUBSET Nat : Top.post \in [E -> SUBSET Name] BY <1>2 DEF Frame, Posts
  <2>. QED BY <2>1 DEF PostState
<1>10. \A m \in PostState : m[1] < Top.next
  BY <1>1, <1>3, <1>4 DEF PostState, FramesOK, NamesBelow
<1>11. Top.next \in Nat /\ Top.offset \in Nat /\ c.next \in Nat /\ c.offset \in Nat /\ c.pc \in Nat
  BY <1>2, <1>4 DEF Frame
<1>12. /\ f \in Frame
       /\ f.fn = c.fn /\ f.pc = c.pc + 1 /\ f.state = PostState /\ f.before = c.before
       /\ f.post = c.post /\ f.buffered = c.buffered /\ f.call_stack = c.call_stack
       /\ f.offset = c.offset /\ f.next = Top.next
  <2>1. f = Past([c EXCEPT !.state = PostState, !.next = Top.next]) BY DEF Resumed
  <2> HIDE DEF f, c
  <2>2. Top.next \in Nat /\ c \in Frame BY <1>4, <1>11
  <2>. QED BY ONLY <1>9, <2>1, <2>2, ResumedFrame, Zenon
<1> HIDE DEF f
<1>13. /\ frames' \in Seq(Frame) /\ Len(frames') = n - 1 /\ frames'[n - 1] = f
       /\ \A i \in 1 .. n - 2 : frames'[i] = frames[i]
  BY <1>1, <1>3, <1>8, <1>12, Popped DEF FramesOK
<1> HIDE DEF n, c
<1>14. c = frames[n - 1] /\ n = Len(frames) BY DEF c, n
<1>15. c.next < Top.next
  <2>1. c.next <= Top.offset BY <1>1, <1>3, <1>4, <1>14 DEF Ordered
  <2>2. Top.offset < Top.next BY <1>1, <1>3, <1>4, <1>14 DEF FramesOK
  <2>. QED BY <1>11, <2>1, <2>2
<1>16. GlobalOK'
  <2>1. frames' # << >> BY <1>3, <1>13, EmptySeq
  <2>2. Top.fn \in Fn BY <1>2 DEF Frame
  <2>. QED BY <1>1, <1>5, <1>7, <2>1, <2>2 DEF GlobalOK
<1>17. FramesOK'
  <2>1. ASSUME NEW i \in 1 .. Len(frames')
        PROVE  /\ frames'[i].pc \in 1 .. Len(program'[frames'[i].fn]) + 1
               /\ frames'[i].offset < frames'[i].next
               /\ NamesBelow(frames'[i], frames'[i].next)
    <3>1. CASE i = n - 1
      <4>1. c.pc \in 1 .. Len(program[c.fn]) BY <1>1, <1>3, <1>14 DEF Waiting
      <4>2. program[c.fn] \in Seq(Block)
        BY <1>1, <1>4, MirCallsAssumption DEF GlobalOK, Frame
      <4>3. f.pc \in 1 .. Len(program[f.fn]) + 1 BY <1>12, <4>1, <4>2, LenProperties
      <4>4. c.offset < c.next /\ NamesBelow(c, c.next) BY <1>1, <1>3, <1>14 DEF FramesOK
      <4>5. f.offset < f.next BY <1>11, <1>12, <1>15, <4>4
      <4>6. \A m \in c.before : m[1] \in Nat BY <1>4 DEF Frame, Name
      <4>7. \A m \in f.before : m[1] < Top.next
        BY <1>11, <1>12, <1>15, <4>4, <4>6 DEF NamesBelow
      <4>8. \A b \in DOMAIN f.post : \A m \in f.post[b] : m[1] < Top.next
        <5>1. PICK E \in SUBSET Nat : c.post \in [E -> SUBSET Name] BY <1>4 DEF Frame, Posts
        <5>2. \A b \in DOMAIN c.post : c.post[b] \in SUBSET Name
          <6>1. DOMAIN c.post = E BY <5>1
          <6>. QED BY <5>1, <6>1
        <5>4. \A m \in Name : m[1] \in Nat BY DEF Name
        <5>3. \A b \in DOMAIN c.post : \A m \in c.post[b] : m[1] < c.next
          BY <4>4 DEF NamesBelow
        <5>. QED BY <1>11, <1>12, <1>15, <5>2, <5>3, <5>4
      <4>9. NamesBelow(f, f.next) BY <1>10, <1>12, <4>7, <4>8 DEF NamesBelow
      <4>. QED BY <1>5, <1>13, <3>1, <4>3, <4>5, <4>9
    <3>2. CASE i # n - 1
      <4>1. i \in 1 .. n - 2 /\ i \in 1 .. Len(frames) BY <1>3, <1>13, <1>14, <3>2
      <4>2. frames'[i] = frames[i] /\ program' = program BY <1>5, <1>13, <4>1
      <4>. QED BY <1>1, <4>1, <4>2 DEF FramesOK
    <3>. QED BY <3>1, <3>2
  <2>. QED BY <1>13, <2>1 DEF FramesOK, NamesBelow
<1>18. \A i \in 1 .. n - 1 : /\ frames'[i].fn = frames[i].fn /\ frames'[i].offset = frames[i].offset
                             /\ frames'[i].call_stack = frames[i].call_stack
                             /\ frames'[i].buffered = frames[i].buffered
  BY <1>3, <1>12, <1>13, <1>14, SMTT(30)
<1>19. Ordered' BY <1>1, <1>3, <1>13, <1>14, <1>18 DEF Ordered
<1>20. Waiting' BY <1>1, <1>3, <1>5, <1>13, <1>14 DEF Waiting
<1>21. StackKnown' BY <1>1, <1>3, <1>13, <1>14, <1>18 DEF StackKnown
<1>22. Kept'
  <2>1. ASSUME NEW r \in said'
        PROVE  \/ \E g \in checked_def_ids' : r \in diagnostics_for'[g]
               \/ \E i \in 1 .. n - 1 : r \in frames'[i].buffered
    <3>1. CASE r \in diagnostics_for'[Top.fn] BY <1>7, <3>1
    <3>2. CASE r \in said
      <4>1. CASE \E g \in checked_def_ids : r \in diagnostics_for[g] BY <1>7, <4>1
      <4>2. CASE \E i \in 1 .. n : r \in frames[i].buffered
        <5>1. PICK i \in 1 .. n : r \in frames[i].buffered BY <4>2
        <5>2. CASE i = n BY <1>4, <1>7, <1>14, <5>1, <5>2
        <5>3. CASE i # n BY <1>3, <1>18, <5>1, <5>3
        <5>. QED BY <5>2, <5>3
      <4>. QED BY <1>1, <1>14, <3>2, <4>1, <4>2 DEF Kept
    <3>. QED BY <1>7, <3>1, <3>2
  <2>2. \A g \in checked_def_ids' : diagnostics_for'[g] \subseteq said' BY <1>1, <1>7 DEF Kept
  <2>3. \A i \in 1 .. n - 1 : frames'[i].buffered \subseteq said'
    BY <1>1, <1>3, <1>7, <1>14, <1>18, SMTT(30) DEF Kept
  <2>. QED BY <1>1, <1>5, <1>13, <2>1, <2>2, <2>3 DEF Kept
<1>. QED BY <1>16, <1>17, <1>19, <1>20, <1>21, <1>22 DEF IInv

(* The end of the whole analysis, or the compiler's panic.                 *)
LEMMA EndKeeps == ASSUME IInv, Panic \/ Finish PROVE IInv'
<1>1. phase = "run" /\ GlobalOK /\ Kept BY DEF IInv, Panic, Finish
<1>2. Len(frames) \in Nat \ {0} /\ Top \in Frame BY <1>1, TopFrame DEF IInv
<1>3. frames' = << >> /\ UNCHANGED <<program, options, dropped_heaps>> BY DEF Panic, Finish, input
<1>4. PICK S \in SUBSET Asserts : RunChecker(S) BY DEF Panic, Finish
<1>5. /\ checked_def_ids' = checked_def_ids \union {Top.fn}
      /\ DOMAIN diagnostics_for' = checked_def_ids'
      /\ \A g \in checked_def_ids' : diagnostics_for'[g] \subseteq Reports
      /\ \A g \in checked_def_ids : diagnostics_for'[g] = diagnostics_for[g]
      /\ said \subseteq said' /\ said' \subseteq said \union diagnostics_for'[Top.fn]
      /\ diagnostics_for'[Top.fn] \subseteq said'
      /\ LeftOver = {} => Top.buffered \subseteq diagnostics_for'[Top.fn]
  BY <1>1, <1>4, Checked
<1>6. phase' \in {"done", "bug"} BY DEF Panic, Finish
<1>7. GlobalOK'
  <2>1. Top.fn \in Fn BY <1>2 DEF Frame
  <2>. QED BY <1>1, <1>3, <1>5, <1>6, <2>1 DEF GlobalOK
<1>8. Len(frames') = 0 /\ frames' \in Seq(Frame) BY <1>3, EmptySeq
<1>9. FramesOK' /\ Ordered' /\ Waiting' /\ StackKnown'
  BY <1>8 DEF FramesOK, Ordered, Waiting, StackKnown
<1>10. phase' = "done" => emitted' = {r \in said' : Wanted(r)'}
  <2> SUFFICES ASSUME phase' = "done" PROVE emitted' = {r \in said' : Wanted(r)'}
    OBVIOUS
  <2>1. Finish BY DEF Panic
  <2>2. emitted' = {r \in UNION {diagnostics_for'[f] : f \in DOMAIN diagnostics_for'} : Wanted(r)}
    BY <2>1 DEF Finish
  <2>3. \A r : Wanted(r)' <=> Wanted(r) BY <1>3 DEF Wanted
  <2>4. \A r \in said : \/ \E g \in checked_def_ids : r \in diagnostics_for[g]
                        \/ r \in Top.buffered
    <3>1. Len(frames) = 1 BY <2>1 DEF Finish
    <3>. QED BY <1>1, <3>1 DEF Kept, Top
  <2>5. LeftOver = {} BY <2>1 DEF Finish
  <2>6. said' \subseteq UNION {diagnostics_for'[f] : f \in DOMAIN diagnostics_for'}
    BY <1>5, <2>4, <2>5
  <2>7. UNION {diagnostics_for'[f] : f \in DOMAIN diagnostics_for'} \subseteq said'
    BY <1>1, <1>5 DEF Kept
  <2>. QED BY <2>2, <2>3, <2>6, <2>7
<1>11. Kept' BY <1>6, <1>10 DEF Kept
<1>. QED BY <1>7, <1>9, <1>11 DEF IInv

LEMMA InitOK == Init => IInv
<1> SUFFICES ASSUME Init PROVE IInv OBVIOUS
<1> DEFINE f == New(Entry, {}, 0, {})
<1>1. frames = <<f>> BY DEF Init
<1>2. << >> \in Posts /\ << >> \in Addresses
  <2>1. << >> \in [{} -> SUBSET Name] /\ << >> \in [{} -> Nat] OBVIOUS
  <2>. QED BY <2>1 DEF Posts, Addresses
<1>3. /\ f.fn = Entry /\ f.offset = 0 /\ f.next = 1 /\ f.pc = 1 /\ f.before = {} /\ f.state = {}
      /\ f.post = << >> /\ f.buffered = {} /\ f.call_stack = {}
  BY DEF New
<1>4. f \in Frame BY <1>2, MirCallsAssumption DEF New, Frame
<1> HIDE DEF f
<1>5. frames \in Seq(Frame) /\ Len(frames) = 1 /\ frames[1] = f BY <1>1, <1>4
<1>6. GlobalOK
  <2>1. frames # << >> BY <1>1
  <2>. QED BY <2>1 DEF Init, GlobalOK
<1>7. FramesOK
  <2>1. program[Entry] \in Seq(Block) BY MirCallsAssumption DEF Init
  <2>2. f.pc \in 1 .. Len(program[f.fn]) + 1 BY <1>3, <2>1, LenProperties
  <2>3. NamesBelow(f, f.next) BY <1>3 DEF NamesBelow
  <2>. QED BY <1>3, <1>5, <2>2, <2>3 DEF FramesOK
<1>8. Ordered /\ Waiting /\ StackKnown BY <1>5 DEF Ordered, Waiting, StackKnown
<1>9. Kept BY <1>3, <1>5 DEF Init, Kept
<1>. QED BY <1>6, <1>7, <1>8, <1>9 DEF IInv

LEMMA StutterKeeps == ASSUME IInv, UNCHANGED vars PROVE IInv'
BY DEF IInv, vars, GlobalOK, FramesOK, NamesBelow, Ordered, Waiting, StackKnown, Kept, Wanted

LEMMA NextKeeps == IInv /\ [Next]_vars => IInv'
<1> SUFFICES ASSUME IInv, [Next]_vars PROVE IInv' OBVIOUS
<1>1. CASE Step BY <1>1, StepLocal, LocalKeeps
<1>2. CASE Enter BY <1>2, EnterKeeps
<1>3. CASE Leave BY <1>3, LeaveKeeps
<1>4. CASE Panic \/ Finish BY <1>4, EndKeeps
<1>5. CASE UNCHANGED vars BY <1>5, StutterKeeps
<1>. QED BY <1>1, <1>2, <1>3, <1>4, <1>5 DEF Next, Visit, Step

LEMMA Inductive == Spec => []IInv
BY InitOK, NextKeeps, PTL DEF Spec

-----------------------------------------------------------------------------
(* TypeOK: every frame, and the global context, has its type, whatever the *)
(* bodies are (WtoFixPointIterator, GlobalContext).                        *)
THEOREM TypeCorrect == Spec => []TypeOK
<1>1. IInv => TypeOK
  <2> SUFFICES ASSUME IInv PROVE TypeOK OBVIOUS
  <2>1. GlobalOK /\ FramesOK BY DEF IInv
  <2>2. ASSUME NEW i \in DOMAIN frames PROVE FrameOK(frames[i])
    <3>1. i \in 1 .. Len(frames) /\ frames[i] \in Frame
      BY <2>1, <2>2, LenProperties, ElementOfSeq DEF FramesOK
    <3>2. PICK D \in SUBSET Nat : frames[i].post \in [D -> SUBSET Name]
      BY <3>1 DEF Frame, Posts
    <3>3. PICK E \in SUBSET Nat : frames[i].heap_addresses \in [E -> Nat]
      BY <3>1 DEF Frame, Addresses
    <3>4. frames[i].pc \in 1 .. Len(program[frames[i].fn]) + 1
          /\ frames[i].offset < frames[i].next
      BY <2>1, <3>1 DEF FramesOK
    <3>. QED BY <3>1, <3>2, <3>3, <3>4 DEF Frame, FrameOK
  <2>. QED BY <2>1, <2>2 DEF TypeOK, GlobalOK
<1>. QED BY <1>1, Inductive, PTL

(* StackIsSimple: whatever calls what, no function is analysed inside its  *)
(* own analysis, but the entry point once (the call stack looked at by     *)
(* get_function_post_state).                                               *)
THEOREM StackSimple == Spec => []StackIsSimple
<1>1. IInv => StackIsSimple
  BY LenProperties DEF IInv, FramesOK, StackKnown, StackIsSimple
<1>. QED BY <1>1, Inductive, PTL

(* NothingLost: when the checker is done, every report it ever made is     *)
(* with the user or was suppressed, also when it was made in a context     *)
(* whose function had been checked before (run_checker, emit_diagnostics). *)
THEOREM NothingIsLost == Spec => []NothingLost
<1>1. IInv => NothingLost BY DEF IInv, Kept, NothingLost
<1>. QED BY <1>1, Inductive, PTL

(* OffsetsAreFresh: the names a callee gives to its locals are not in the  *)
(* state it starts from, however many calls have come and gone before      *)
(* (create_function_post_state).                                           *)
THEOREM Fresh == Spec => OffsetsAreFresh
<1> DEFINE P == Len(frames') > Len(frames) =>
                  \A n \in Top.state : n[1] # frames'[Len(frames')].offset
<1>1. ASSUME IInv, Next PROVE P
  <2> SUFFICES ASSUME Len(frames') > Len(frames)
               PROVE  \A m \in Top.state : m[1] # frames'[Len(frames')].offset
    OBVIOUS
  <2>1. phase = "run" /\ GlobalOK /\ FramesOK
    BY <1>1 DEF IInv, Next, Visit, Alloc, Drop, Warn, Skip, Return, Assert, CircleHead, Back, Enter, Cut,
                CallExternal, Leave, Panic, Finish, At
  <2>2. Len(frames) \in Nat \ {0} /\ Top \in Frame /\ frames \in Seq(Frame)
    BY <2>1, TopFrame DEF FramesOK
  <2>3. ~Local
    <3>1. ASSUME NEW f \in Frame PROVE Len(Append(Lower, f)) = Len(frames)
      BY <2>1, <2>2, Replaced DEF Lower, GlobalOK
    <3>. QED BY <2>2, <3>1 DEF Local, Moved
  <2>4. Enter
    <3>1. ~Leave
      <4>1. ASSUME Leave PROVE FALSE
        <5>1. Len(frames) > 1 /\ frames' = Append(SubSeq(frames, 1, Len(frames) - 2), Resumed(frames[Len(frames) - 1]))
          BY <4>1 DEF Leave
        <5>2. SubSeq(frames, 1, Len(frames) - 2) \in Seq(Frame)
              /\ Len(SubSeq(frames, 1, Len(frames) - 2)) = Len(frames) - 2
          BY <2>2, <5>1, Popped, SubSeqProperties, ElementOfSeq
        <5>3. Len(frames') = Len(frames) - 1 BY <2>2, <5>1, <5>2
        <5>. QED BY <2>2, <5>3
      <4>. QED BY <4>1
    <3>2. ~Panic /\ ~Finish BY <2>2, EmptySeq DEF Panic, Finish
    <3>. QED BY <1>1, <2>3, <3>1, <3>2, StepLocal DEF Next, Visit, Step
  <2>5. frames' = Append(frames, New(Term.fn, Top.state \union {<<Top.next, 0>>}, Top.next,
                                     Top.call_stack \union {Term.fn}))
    BY <2>4 DEF Enter
  <2>6. frames'[Len(frames')].offset = Top.next
    <3>1. \A g : Append(frames, g)[Len(Append(frames, g))] = g BY <2>2
    <3>. QED BY <2>5, <3>1 DEF New
  <2>7. \A m \in Top.state : m[1] < Top.next BY <2>1, <2>2 DEF FramesOK, NamesBelow, Top
  <2>8. Top.next \in Nat /\ \A m \in Top.state : m[1] \in Nat BY <2>2 DEF Frame, Name
  <2>. QED BY <2>6, <2>7, <2>8
<1>2. ASSUME UNCHANGED vars, IInv PROVE P
  <2>1. frames' = frames BY <1>2 DEF vars
  <2>2. Len(frames) \in Nat BY <1>2, LenProperties DEF IInv, FramesOK
  <2>3. ~(Len(frames') > Len(frames)) BY <2>1, <2>2
  <2>. QED BY <2>3
<1>3. IInv /\ [Next]_vars => [P]_vars BY <1>1, <1>2
<1>. QED BY <1>3, Inductive, PTL DEF Spec, OffsetsAreFresh

(* FirstReportKept: what the first complete analysis of a function said is *)
(* never replaced (run_checker).                                           *)
THEOREM FirstKept == Spec => FirstReportKept
<1> DEFINE P == \A f \in checked_def_ids :
                  f \in DOMAIN diagnostics_for' /\ diagnostics_for'[f] = diagnostics_for[f]
<1>1. ASSUME IInv, Next PROVE P
  <2>1. GlobalOK BY <1>1 DEF IInv
  <2>2. CASE Leave \/ Panic \/ Finish
    <3>1. phase = "run" /\ \E S \in SUBSET Asserts : RunChecker(S)
      BY <2>2 DEF Leave, Panic, Finish
    <3>. QED BY <1>1, <3>1, Checked
  <2>3. CASE ~(Leave \/ Panic \/ Finish)
    <3>1. UNCHANGED diagnostics_for
      BY <1>1, <2>3 DEF Next, Visit, Alloc, Drop, Warn, Skip, Return, Assert, CircleHead, Back, Enter,
                        Cut, CallExternal, context
    <3>. QED BY <2>1, <3>1 DEF GlobalOK
  <2>. QED BY <2>2, <2>3
<1>2. ASSUME UNCHANGED vars, IInv PROVE P BY <1>2 DEF vars, IInv, GlobalOK
<1>3. IInv /\ [Next]_vars => [P]_vars BY <1>1, <1>2
<1>. QED BY <1>3, Inductive, PTL DEF Spec, FirstReportKept

-----------------------------------------------------------------------------
(* Which visits of drops are behind a frame: those of its earlier rounds,  *)
(* and those of this round at earlier blocks.                              *)
Behind(d, f) ==
  d.offset = f.offset => d.round < f.round \/ (d.round = f.round /\ d.at < f.pc)

Visits ==
  /\ \A i \in 1 .. Len(frames) : \A d \in drops : Behind(d, frames[i])
  /\ phase = "run" => \A d \in drops : d.offset < Top.next

(* Of the visits of the drops of one address exactly one was not reported. *)
OneSilent(a) ==
  \E first \in drops :
    /\ first.heap = a
    /\ \A d \in drops : d.heap = a => (d \notin said <=> d = first)

Drops ==
  /\ IsFiniteSet(drops)
  /\ \A d \in drops : d \in Reports /\ OfDrop(d)
  /\ {r \in said : OfDrop(r)} \subseteq drops
  /\ dropped_heaps = {d.heap : d \in drops}
  /\ \A a \in dropped_heaps : OneSilent(a)

VInv == Visits /\ Drops

(* A move of the top frame, on which it may have visited a drop.           *)
LEMMA OnwardKeeps ==
  ASSUME IInv, VInv, phase = "run", NEW f \in Frame, NEW V,
         frames' = Append(Lower, f), f.offset = Top.offset, f.next = Top.next, Onward(f),
         UNCHANGED phase, drops' = drops \union V,
         V # {} => Term.do = "drop",
         \A d \in V : d.offset = Top.offset /\ d.round = Top.round /\ d.at = Top.pc
  PROVE  Visits'
<1>1. GlobalOK /\ FramesOK /\ Ordered /\ Visits BY DEF IInv, VInv
<1>2. Len(frames) \in Nat \ {0} /\ Top \in Frame BY <1>1, TopFrame
<1> DEFINE n == Len(frames)
<1>3. /\ frames' \in Seq(Frame) /\ Len(frames') = n /\ frames'[n] = f
      /\ \A i \in 1 .. n - 1 : frames'[i] = frames[i]
  BY <1>1, Replaced DEF Lower, GlobalOK, FramesOK
<1> HIDE DEF n
<1>4. n \in Nat \ {0} /\ n = Len(frames) /\ Top = frames[n] BY <1>2 DEF n, Top
<1>6. /\ Top.pc \in Nat \ {0} /\ Top.round \in Nat /\ Top.offset \in Nat /\ Top.next \in Nat
      /\ f.pc \in Nat \ {0} /\ f.round \in Nat /\ Top.offset < Top.next
  <2>1. Top.offset < Top.next BY <1>1, <1>4 DEF FramesOK
  <2>. QED BY <1>2, <2>1 DEF Frame
<1>7. \A d \in drops : Behind(d, Top) BY <1>1, <1>4 DEF Visits
<1>8. \A d \in drops : d.at \in Nat /\ d.round \in Nat /\ d.offset \in Nat
  BY DEF VInv, Drops, Reports
<1>9. ASSUME NEW d \in drops' PROVE Behind(d, f)
  <2>1. CASE d \in V
    <3>1. f.round = Top.round /\ f.pc = Top.pc + 1 BY <2>1 DEF Onward
    <3>. QED BY <1>6, <2>1, <3>1 DEF Behind
  <2>2. CASE d \in drops
    <3>1. CASE f.round = Top.round /\ f.pc = Top.pc + 1
      <4>1. SUFFICES ASSUME d.offset = Top.offset, ~(d.round < Top.round)
                     PROVE  d.round = f.round /\ d.at < f.pc
        BY <3>1 DEF Behind
      <4>2. d.round = Top.round /\ d.at < Top.pc BY <1>7, <2>2, <4>1 DEF Behind
      <4>. QED BY <1>6, <1>8, <2>2, <3>1, <4>2
    <3>2. CASE f.round = Top.round + 1
      <4>1. SUFFICES ASSUME d.offset = Top.offset PROVE d.round < f.round
        BY DEF Behind
      <4>2. d.round < Top.round \/ d.round = Top.round BY <1>7, <2>2, <4>1 DEF Behind
      <4>3. d.round \in Nat BY <1>8, <2>2
      <4>. QED BY <1>6, <3>2, <4>2, <4>3
    <3>. QED BY <3>1, <3>2 DEF Onward
  <2>. QED BY <2>1, <2>2
<1>10. ASSUME NEW i \in 1 .. n, NEW d \in drops' PROVE Behind(d, frames'[i])
  <2>1. CASE i = n BY <1>3, <1>9, <2>1
  <2>2. CASE i # n
    <3>1. frames'[i] = frames[i] BY <1>3, <1>4, <2>2
    <3>2. CASE d \in drops BY <1>1, <1>4, <3>1, <3>2 DEF Visits
    <3>3. CASE d \in V
      <4>1. frames[i].next <= Top.offset BY <1>1, <1>4, <2>2 DEF Ordered
      <4>2. frames[i] \in Frame /\ frames[i].offset < frames[i].next
        BY <1>1, <1>4, ElementOfSeq DEF FramesOK
      <4>3. frames[i].offset # Top.offset BY <1>6, <4>1, <4>2 DEF Frame
      <4>. QED BY <3>1, <3>3, <4>3 DEF Behind
    <3>. QED BY <3>2, <3>3
  <2>. QED BY <2>1, <2>2
<1>11. \A d \in drops' : d.offset < Top.next BY <1>1, <1>6 DEF Visits
<1>12. Top' = f BY <1>3, <1>4 DEF Top
<1>. QED BY <1>3, <1>10, <1>11, <1>12 DEF Visits, Behind

(* The counts stay what they are when something else is reported.          *)
LEMMA DropsKept ==
  ASSUME Drops, UNCHANGED <<program, drops, dropped_heaps>>, said \subseteq said',
         \A r \in said' \ said : ~OfDrop(r)
  PROVE  Drops'
<1>1. \A d \in drops : d \in said' <=> d \in said BY DEF Drops
<1>2. ASSUME NEW a \in dropped_heaps PROVE OneSilent(a)'
  <2>1. OneSilent(a) BY <1>2 DEF Drops
  <2>2. PICK first \in drops : first.heap = a /\ \A d \in drops : d.heap = a => (d \notin said <=> d = first)
    BY <2>1 DEF OneSilent
  <2>3. \A d \in drops : d.heap = a => (d \notin said' <=> d = first) BY <1>1, <2>2
  <2>. QED BY <2>2, <2>3 DEF OneSilent
<1>3. \A r : OfDrop(r)' <=> OfDrop(r) BY DEF OfDrop
<1>. QED BY <1>2, <1>3 DEF Drops

(* A visit of a drop is reported exactly when its address was dropped      *)
(* before, and it is a visit that has not been made yet.                   *)
LEMMA DropKeepsDrops == ASSUME IInv, VInv, Drop PROVE Drops'
<1>1. phase = "run" /\ ~AtEnd /\ GlobalOK /\ FramesOK /\ Visits /\ Drops
  BY DEF IInv, VInv, Drop, At
<1>2. Len(frames) \in Nat \ {0} /\ Top \in Frame BY <1>1, TopFrame
<1>3. \A d \in drops : Behind(d, Top) BY <1>1, <1>2 DEF Visits, Top
<1>4. Top.pc \in Nat /\ Top.round \in Nat BY <1>2 DEF Frame
<1>5. PICK E \in SUBSET Nat : Top.heap_addresses \in [E -> Nat] BY <1>2 DEF Frame, Addresses
<1>6. /\ RelatedHeap \subseteq Nat
      /\ \A a, b \in RelatedHeap : a = b
  BY <1>5 DEF RelatedHeap
<1> DEFINE V == {Report("Memory", a) : a \in RelatedHeap}
           R == {Report("Memory", a) : a \in Late}
<1>7. drops' = drops \union V /\ said' = said \union R
      /\ dropped_heaps' = dropped_heaps \union RelatedHeap
  BY DEF Drop, PutDown
<1>8. \A a : Report("Memory", a).heap = a /\ OfDrop(Report("Memory", a))
             /\ Report("Memory", a).offset = Top.offset /\ Report("Memory", a).round = Top.round
             /\ Report("Memory", a).at = Top.pc
  BY DEF Report, Drop, At, Body, OfDrop
<1>9. \A a \in RelatedHeap : Report("Memory", a) \in Reports
  BY <1>2, <1>6 DEF Report, Reports, Cause, Frame
<1>10. \A a : Report("Memory", a) \notin drops
  <2>1. SUFFICES ASSUME NEW a, Report("Memory", a) \in drops PROVE FALSE OBVIOUS
  <2>2. Behind(Report("Memory", a), Top) BY <1>3, <2>1
  <2>. QED BY <1>4, <1>8, <2>2 DEF Behind
<1>11. \A a : Report("Memory", a) \notin said BY <1>1, <1>8, <1>10 DEF Drops
<1>12. IsFiniteSet(drops') /\ \A d \in drops' : d \in Reports /\ OfDrop(d)
  <2>1. IsFiniteSet(V)
    <3>1. CASE RelatedHeap = {} BY <3>1, FS_EmptySet
    <3>2. CASE RelatedHeap # {}
      <4>1. PICK a \in RelatedHeap : TRUE BY <3>2
      <4>2. V = {Report("Memory", a)} BY <1>6, <4>1
      <4>. QED BY <4>2, FS_Singleton
    <3>. QED BY <3>1, <3>2
  <2>. QED BY <1>1, <1>7, <1>8, <1>9, <2>1, FS_Union DEF Drops
<1>13. {r \in said' : OfDrop(r)} \subseteq drops'
  BY <1>1, <1>7 DEF Drops, Late
<1>14. dropped_heaps' = {d.heap : d \in drops'}
  <2>1. {d.heap : d \in V} = RelatedHeap BY <1>8
  <2>. QED BY <1>1, <1>7, <2>1 DEF Drops
<1>15. ASSUME NEW a \in dropped_heaps' PROVE OneSilent(a)'
  <2>1. CASE a \in dropped_heaps
    <3>1. PICK first \in drops : first.heap = a
                                 /\ \A d \in drops : d.heap = a => (d \notin said <=> d = first)
      BY <1>1, <2>1 DEF Drops, OneSilent
    <3>2. ASSUME NEW d \in drops', d.heap = a PROVE d \notin said' <=> d = first
      <4>1. CASE d \in drops
        <5>1. d \notin R BY <1>10, <4>1
        <5>. QED BY <1>7, <3>1, <3>2, <4>1, <5>1
      <4>2. CASE d \in V
        <5>1. d = Report("Memory", a) /\ a \in Late BY <1>8, <2>1, <3>2, <4>2 DEF Late
        <5>. QED BY <1>7, <1>10, <3>1, <5>1
      <4>. QED BY <1>7, <3>2, <4>1, <4>2
    <3>. QED BY <1>7, <3>1, <3>2 DEF OneSilent
  <2>2. CASE a \notin dropped_heaps
    <3>1. a \in RelatedHeap BY <1>7, <1>15, <2>2
    <3>2. \A d \in drops : d.heap # a BY <1>1, <2>2 DEF Drops
    <3>3. Report("Memory", a) \in drops' /\ Report("Memory", a) \notin said'
      BY <1>7, <1>8, <1>11, <2>2, <3>1 DEF Late
    <3>4. \A d \in drops' : d.heap = a => d = Report("Memory", a) BY <1>7, <1>8, <3>2
    <3>. QED BY <1>8, <3>3, <3>4 DEF OneSilent
  <2>. QED BY <2>1, <2>2
<1>16. \A r : OfDrop(r)' <=> OfDrop(r) BY DEF OfDrop, Drop, input
<1>. QED BY <1>12, <1>13, <1>14, <1>15, <1>16 DEF Drops

LEMMA StepKeepsVInv == ASSUME IInv, VInv, Step PROVE VInv'
<1>1. Local BY StepLocal
<1>2. phase = "run" /\ UNCHANGED <<program, phase>> BY <1>1 DEF Local, input
<1>3. PICK f \in Frame, R \in SUBSET Reports : Moved(f, R) BY <1>1 DEF Local
<1>4. frames' = Append(Lower, f) /\ f.offset = Top.offset /\ f.next = Top.next /\ Onward(f)
  BY <1>3 DEF Moved
<1>5. CASE Drop
  <2> DEFINE V == {Report("Memory", a) : a \in RelatedHeap}
  <2>1. drops' = drops \union V /\ Term.do = "drop" BY <1>5 DEF Drop, At, Term
  <2>2. \A d \in V : d.offset = Top.offset /\ d.round = Top.round /\ d.at = Top.pc BY DEF Report
  <2> HIDE DEF V
  <2>3. Visits' BY <1>2, <1>4, <2>1, <2>2, OnwardKeeps
  <2>. QED BY <1>5, <2>3, DropKeepsDrops DEF VInv
<1>6. CASE ~Drop
  <2>1. Alloc \/ Warn \/ Skip \/ Return \/ Assert \/ CircleHead \/ Cut \/ CallExternal \/ Back
    BY <1>6 DEF Step
  <2>2. UNCHANGED <<drops, dropped_heaps>>
    BY <2>1 DEF Alloc, Warn, Skip, Return, Assert, CircleHead, Back, Cut, CallExternal,
                history, context
  <2>3. said \subseteq said' /\ \A r \in said' \ said : ~OfDrop(r)
    <3>1. CASE Warn
      <4>1. said \subseteq said' /\ \A r \in said' \ said : r = Report(Term.cause, 0)
        BY <3>1 DEF Warn
      <4>2. ~OfDrop(Report(Term.cause, 0)) BY <3>1 DEF Warn, At, Body, OfDrop, Report
      <4>. QED BY <4>1, <4>2
    <3>2. CASE ~Warn
      BY <2>1, <3>2 DEF Alloc, Skip, Return, Assert, CircleHead, Back, Cut, CallExternal, history
    <3>. QED BY <3>1, <3>2
  <2> DEFINE none == {}
  <2>4. drops' = drops \union none /\ \A d \in none : FALSE BY <2>2
  <2>5. none # {} => Term.do = "drop" OBVIOUS
  <2> HIDE DEF none
  <2>6. \A d \in none : d.offset = Top.offset /\ d.round = Top.round /\ d.at = Top.pc BY <2>4
  <2>7. Visits' BY <1>2, <1>4, <2>4, <2>5, <2>6, OnwardKeeps
  <2>8. Drops' BY <1>2, <2>2, <2>3, DropsKept DEF VInv
  <2>. QED BY <2>7, <2>8 DEF VInv
<1>. QED BY <1>5, <1>6

LEMMA EnterKeepsVInv == ASSUME IInv, VInv, Enter PROVE VInv'
<1>1. phase = "run" /\ ~AtEnd /\ GlobalOK /\ FramesOK /\ Ordered
      /\ Visits /\ Drops
  BY DEF IInv, VInv, Enter, At
<1>2. Len(frames) \in Nat \ {0} /\ Top \in Frame BY <1>1, TopFrame
<1> DEFINE n == Len(frames)
           f == New(Term.fn, Top.state \union {<<Top.next, 0>>}, Top.next, Top.call_stack \union {Term.fn})
<1>4. frames' = Append(frames, f) BY DEF Enter
<1>5. UNCHANGED <<program, phase, dropped_heaps, said, drops>>
  BY DEF Enter, input, context, history
<1>6. f.offset = Top.next /\ f.next = Top.next + 1 /\ f.pc = 1 /\ f.post = << >> /\ f.buffered = {}
  BY DEF New
<1> HIDE DEF f
<1>7. /\ frames' \in Seq(Frame \union {f}) /\ Len(frames') = n + 1 /\ frames'[n + 1] = f
      /\ \A i \in 1 .. n : frames'[i] = frames[i]
  <2>1. frames \in Seq(Frame \union {f})
    BY <1>1, <1>2, LenProperties, ElementOfSeq, SeqDef DEF FramesOK
  <2>. QED BY <1>4, <2>1, AppendProperties
<1> HIDE DEF n
<1>8. n \in Nat \ {0} /\ n = Len(frames) /\ Top = frames[n] BY <1>2 DEF n, Top
<1>9. Top.next \in Nat BY <1>2 DEF Frame
<1>10. \A d \in drops : d.offset \in Nat /\ d.offset < Top.next
  BY <1>1 DEF Drops, Reports, Visits
<1>11. Visits'
  <2>1. \A d \in drops : Behind(d, f) BY <1>6, <1>9, <1>10 DEF Behind
  <2>2. ASSUME NEW i \in 1 .. n + 1, NEW d \in drops PROVE Behind(d, frames'[i])
    BY <1>1, <1>7, <1>8, <2>1 DEF Visits
  <2>3. Top' = f BY <1>7, <1>8 DEF Top
  <2>4. \A d \in drops : d.offset < Top'.next BY <1>6, <1>9, <1>10, <2>3
  <2>. QED BY <1>5, <1>7, <2>2, <2>4 DEF Visits, Behind
<1>12. Drops' BY <1>1, <1>5, DropsKept
<1>. QED BY <1>11, <1>12 DEF VInv

(* What the checker of a body says is about assertions.                    *)
LEMMA CheckerSays ==
  ASSUME NEW S \in SUBSET Asserts, RunChecker(S)
  PROVE  said \subseteq said' /\ \A r \in said' \ said : ~OfDrop(r)
<1>1. said' = said \/ said' = said \union Failed(S) BY DEF RunChecker, RunCheckerAlways
<1>2. \A r \in Failed(S) : ~OfDrop(r) BY DEF Failed, Asserts, Body, OfDrop
<1>. QED BY <1>1, <1>2

LEMMA LeaveKeepsVInv == ASSUME IInv, VInv, Leave PROVE VInv'
<1>1. phase = "run" /\ GlobalOK /\ FramesOK /\ Ordered /\ Waiting
      /\ Visits /\ Drops
  BY DEF IInv, VInv, Leave
<1>2. Len(frames) \in Nat \ {0} /\ Top \in Frame BY <1>1, TopFrame
<1> DEFINE n == Len(frames)
           c == frames[n - 1]
           f == Resumed(c)
<1>3. n \in Nat /\ n > 1 BY <1>2 DEF Leave
<1>4. c \in Frame /\ Top = frames[n] BY <1>1, <1>3, ElementOfSeq DEF FramesOK, Top
<1>5. UNCHANGED <<program, phase, dropped_heaps, drops>> BY DEF Leave, input
<1>6. PICK S \in SUBSET Asserts : RunChecker(S) BY DEF Leave
<1>7. frames' = Append(SubSeq(frames, 1, n - 2), f) BY DEF Leave
<1>8. PostState \in SUBSET Name /\ Top.next \in Nat
  <2>1. PICK E \in SUBSET Nat : Top.post \in [E -> SUBSET Name] BY <1>2 DEF Frame, Posts
  <2>. QED BY <1>2, <2>1 DEF PostState, Frame
<1>9. /\ f \in Frame
      /\ f.fn = c.fn /\ f.pc = c.pc + 1 /\ f.state = PostState /\ f.before = c.before
      /\ f.post = c.post /\ f.buffered = c.buffered /\ f.call_stack = c.call_stack
      /\ f.offset = c.offset /\ f.next = Top.next /\ f.round = c.round
  <2>1. f = Past([c EXCEPT !.state = PostState, !.next = Top.next]) BY DEF Resumed
  <2> HIDE DEF f, c
  <2>2. Top.next \in Nat /\ c \in Frame BY <1>4, <1>8
  <2>. QED BY ONLY <1>8, <2>1, <2>2, ResumedFrame, Zenon
<1> HIDE DEF f
<1>10. /\ frames' \in Seq(Frame) /\ Len(frames') = n - 1 /\ frames'[n - 1] = f
       /\ \A i \in 1 .. n - 2 : frames'[i] = frames[i]
  BY <1>1, <1>3, <1>7, <1>9, Popped DEF FramesOK
<1> HIDE DEF n, c
<1>11. c = frames[n - 1] /\ n = Len(frames) BY DEF c, n
<1>12. c.pc \in Nat \ {0} BY <1>4 DEF Frame
<1>13. \A d \in drops : d.at \in Nat BY <1>1 DEF Drops, Reports
<1>14. Visits'
  <2>1. ASSUME NEW d \in drops PROVE Behind(d, f)
    <3>1. Behind(d, c) BY <1>1, <1>3, <1>11 DEF Visits
    <3>. QED BY <1>9, <1>12, <1>13, <3>1 DEF Behind
  <2>2. ASSUME NEW i \in 1 .. n - 1, NEW d \in drops PROVE Behind(d, frames'[i])
    <3>1. CASE i = n - 1 BY <1>10, <2>1, <3>1
    <3>2. CASE i # n - 1
      <4>1. frames'[i] = frames[i] /\ i \in 1 .. Len(frames) BY <1>3, <1>10, <1>11, <3>2
      <4>. QED BY <1>1, <4>1 DEF Visits
    <3>. QED BY <3>1, <3>2
  <2>3. Top' = f BY <1>3, <1>10 DEF Top
  <2>4. \A d \in drops : d.offset < Top'.next BY <1>1, <1>9, <2>3 DEF Visits
  <2>. QED BY <1>5, <1>10, <2>2, <2>4 DEF Visits, Behind
<1>15. Drops' BY <1>1, <1>5, <1>6, CheckerSays, DropsKept
<1>. QED BY <1>14, <1>15 DEF VInv

LEMMA EndKeepsVInv == ASSUME IInv, VInv, Panic \/ Finish PROVE VInv'
<1>1. UNCHANGED <<program, dropped_heaps, drops>> /\ frames' = << >> /\ phase' # "run"
  BY DEF Panic, Finish, input
<1>2. PICK S \in SUBSET Asserts : RunChecker(S) BY DEF Panic, Finish
<1>3. Drops' BY <1>1, <1>2, CheckerSays, DropsKept DEF VInv
<1>4. Len(frames') = 0 BY <1>1, EmptySeq
<1>. QED BY <1>1, <1>3, <1>4 DEF VInv, Visits

LEMMA VInvInductive == Spec => []VInv
<1>1. ASSUME Init PROVE VInv
  <2>1. drops = {} /\ said = {} /\ dropped_heaps = {} BY <1>1 DEF Init
  <2>. QED BY <2>1, FS_EmptySet DEF VInv, Visits, Drops
<1>2. ASSUME IInv, VInv, [Next]_vars PROVE VInv'
  <2>1. CASE UNCHANGED vars
    BY <1>2, <2>1 DEF vars, VInv, Visits, Behind, Drops, OneSilent, OfDrop, Top
  <2>2. CASE Step BY <1>2, <2>2, StepKeepsVInv
  <2>. QED BY <1>2, <2>1, <2>2, EnterKeepsVInv, LeaveKeepsVInv, EndKeepsVInv DEF Next, Visit, Step
<1>. QED BY <1>1, <1>2, Inductive, PTL DEF Spec

(* LateDropsAreReported: of the visits of the drops of one heap address,   *)
(* in whatever frames and rounds, all but the first are reported, and each *)
(* of them as one report (visit_drop).                                     *)
THEOREM LateDrops == Spec => []LateDropsAreReported
<1>1. ASSUME VInv PROVE LateDropsAreReported
  <2> SUFFICES ASSUME NEW a \in {d.heap : d \in drops}
               PROVE  Cardinality({d \in drops : d.heap = a})
                        = 1 + Cardinality({r \in said : OfDrop(r) /\ r.heap = a})
    BY DEF LateDropsAreReported
  <2> DEFINE visits == {d \in drops : d.heap = a}
             reports == {r \in said : OfDrop(r) /\ r.heap = a}
  <2>1. Drops BY <1>1 DEF VInv
  <2>2. PICK first \in drops : first.heap = a
                               /\ \A d \in drops : d.heap = a => (d \notin said <=> d = first)
    BY <2>1 DEF Drops, OneSilent
  <2>3. visits = reports \union {first} /\ first \notin reports
    BY <2>1, <2>2 DEF Drops
  <2>4. IsFiniteSet(reports)
    <3>1. reports \subseteq drops BY <2>1 DEF Drops
    <3>. QED BY <2>1, <3>1, FS_Subset DEF Drops
  <2> HIDE DEF visits, reports
  <2>5. Cardinality(reports) \in Nat BY <2>4, FS_CardinalityType
  <2>6. Cardinality(visits) = Cardinality(reports) + 1 BY <2>3, <2>4, FS_AddElement
  <2>7. Cardinality(visits) = 1 + Cardinality(reports) BY <2>5, <2>6
  <2>. QED BY <2>7 DEF visits, reports
<1>. QED BY <1>1, VInvInductive, PTL

-----------------------------------------------------------------------------
(* A program that calls every function at one place, outside of circles:   *)
(* a place was called at if its function is checked, or in a frame that is *)
(* past it or waits there.                                                 *)
Called(s) ==
  \/ s[1] \in checked_def_ids
  \/ \E k \in 1 .. Len(frames) :
       /\ frames[k].fn = s[1]
       /\ s[2] < frames[k].pc \/ (s[2] = frames[k].pc /\ k < Len(frames))

Started(f) == f \in checked_def_ids \/ \E i \in 2 .. Len(frames) : frames[i].fn = f

(* Every function is analysed once: those with a frame are different and   *)
(* not checked, and what was started was called at all its places, which   *)
(* are one.                                                                *)
OnceEach ==
  /\ \A i \in 1 .. Len(frames) : frames[i].fn \notin checked_def_ids
  /\ \A i, j \in 1 .. Len(frames) : i < j => frames[i].fn # frames[j].fn
  /\ \A s \in Sites(program) : Started(Callee(program, s)) => Called(s)

AtEntry == frames[1].fn = Entry

OInv == OneContext(program) /\ phase = "run" => OnceEach /\ AtEntry

LEMMA SiteNumbers ==
  ASSUME program \in Programs, NEW s \in Sites(program)
  PROVE  s[1] \in Fn /\ s[2] \in Nat /\ s[2] \in DOMAIN program[s[1]]
<1>1. s[1] \in Fn /\ s[2] \in DOMAIN program[s[1]] BY DEF Sites
<1>2. program[s[1]] \in Seq(Block) BY <1>1, MirCallsAssumption
<1>. QED BY <1>1, <1>2, LenProperties

(* A frame that goes back for another round comes to no call: the places   *)
(* it was past stay behind it.                                             *)
LEMMA StepKeepsOInv == ASSUME IInv, OInv, Step PROVE OInv'
<1>1. Local BY StepLocal
<1>2. UNCHANGED <<program, phase, checked_def_ids>> BY <1>1 DEF Local, input
<1>3. GlobalOK /\ FramesOK /\ phase = "run" /\ ~AtEnd
  BY <1>1 DEF IInv, Local, Step, Alloc, Drop, Warn, Skip, Return, Assert, CircleHead, Back, Cut,
              CallExternal, At
<1>4. SUFFICES ASSUME OneContext(program) PROVE OnceEach' /\ AtEntry'
  BY <1>2 DEF OInv, OneContext, Sites, Callee, Repeated
<1>5. OnceEach /\ AtEntry BY <1>3, <1>4 DEF OInv
<1>6. Len(frames) \in Nat \ {0} /\ Top \in Frame /\ Body \in Seq(Block) BY <1>3, TopFrame
<1>7. PICK f \in Frame, R \in SUBSET Reports : Moved(f, R) BY <1>1 DEF Local
<1> DEFINE n == Len(frames)
<1>8. /\ Len(frames') = n /\ frames'[n] = f
      /\ \A i \in 1 .. n - 1 : frames'[i] = frames[i]
  BY <1>3, <1>7, Replaced DEF Moved, Lower, GlobalOK, FramesOK
<1>9. f.fn = Top.fn /\ Onward(f) BY <1>7 DEF Moved
<1> HIDE DEF n
<1>10. n \in Nat \ {0} /\ n = Len(frames) /\ Top = frames[n] BY <1>6 DEF n, Top
<1>11. \A i \in 1 .. n : frames'[i].fn = frames[i].fn BY <1>8, <1>9, <1>10
<1>12. Top.pc \in Nat /\ Top.pc \in DOMAIN Body /\ f.pc \in Nat
  <2>1. Top.pc \in 1 .. Len(Body) + 1 BY <1>3, <1>10 DEF FramesOK, Body
  <2>. QED BY <1>3, <1>6, <2>1, LenProperties DEF AtEnd, Frame
<1>13. ASSUME NEW s \in Sites(program), Called(s) PROVE Called(s)'
  <2>1. CASE s[1] \in checked_def_ids BY <1>2, <2>1 DEF Called
  <2>2. CASE s[1] \notin checked_def_ids
    <3>1. PICK k \in 1 .. n :
            frames[k].fn = s[1] /\ (s[2] < frames[k].pc \/ (s[2] = frames[k].pc /\ k < n))
      BY <1>10, <1>13, <2>2 DEF Called
    <3>2. CASE k # n
      <4>1. frames'[k] = frames[k] BY <1>8, <1>10, <3>2
      <4>. QED BY <1>8, <3>1, <4>1 DEF Called
    <3>3. CASE k = n
      <4>1. s[1] = Top.fn /\ s[2] < Top.pc BY <1>10, <3>1, <3>3
      <4>2. s[2] \in Nat BY <1>3, SiteNumbers DEF GlobalOK
      <4>3. s[2] < f.pc
        <5>1. CASE f.pc = Top.pc + 1 BY <1>12, <4>1, <4>2, <5>1
        <5>2. CASE Term.do = "back" /\ f.pc = Term.to + 1
          <6>1. s[2] \notin Term.to + 1 .. Top.pc
            <7>1. \A j \in DOMAIN program[s[1]] :
                    program[s[1]][j].do = "back" => s[2] \notin program[s[1]][j].to + 1 .. j
              BY <1>4 DEF OneContext, Repeated
            <7>2. Top.pc \in DOMAIN program[s[1]] /\ Term = program[s[1]][Top.pc]
              BY <1>12, <4>1 DEF Body, Term
            <7>. QED BY <5>2, <7>1, <7>2
          <6>2. Term.to \in 0 .. (Top.pc - 1)
            BY <1>3, <1>6, <1>12, <5>2, MirCallsAssumption DEF GlobalOK, Frame, Body, Term
          <6>. QED BY <1>12, <4>1, <4>2, <5>2, <6>1, <6>2
        <5>. QED BY <1>9, <5>1, <5>2 DEF Onward
      <4>. QED BY <1>8, <1>9, <1>10, <4>1, <4>3 DEF Called
    <3>. QED BY <3>2, <3>3
  <2>. QED BY <2>1, <2>2
<1>14. ASSUME NEW g, Started(g)' PROVE Started(g)
  BY <1>2, <1>8, <1>10, <1>11, <1>14 DEF Started
<1>15. \A s \in Sites(program)' : s \in Sites(program) /\ Callee(program, s)' = Callee(program, s)
  BY <1>2
<1>16. \A s \in Sites(program)' : Started(Callee(program, s))' => Called(s)'
  BY <1>2, <1>5, <1>13, <1>14 DEF OnceEach
<1>17. \A i \in 1 .. n : frames'[i].fn \notin checked_def_ids' BY <1>2, <1>5, <1>10, <1>11 DEF OnceEach
<1>18. \A i, j \in 1 .. n : i < j => frames'[i].fn # frames'[j].fn BY <1>5, <1>10, <1>11 DEF OnceEach
<1>19. AtEntry' BY <1>5, <1>10, <1>11 DEF AtEntry
<1>. QED BY <1>8, <1>16, <1>17, <1>18, <1>19 DEF OnceEach

(* The one place of a call is where the caller is now, so its function has *)
(* not been started.                                                       *)
LEMMA EnterKeepsOInv == ASSUME IInv, OInv, Enter PROVE OInv'
<1>1. phase = "run" /\ ~AtEnd /\ GlobalOK /\ FramesOK BY DEF IInv, Enter, At
<1>2. UNCHANGED <<program, phase, checked_def_ids>> BY DEF Enter, input, context
<1>3. SUFFICES ASSUME OneContext(program) PROVE OnceEach' /\ AtEntry'
  BY <1>2 DEF OInv, OneContext, Sites, Callee, Repeated
<1>4. OnceEach /\ AtEntry BY <1>1, <1>3 DEF OInv
<1>5. Len(frames) \in Nat \ {0} /\ Top \in Frame /\ Body \in Seq(Block) BY <1>1, TopFrame
<1> DEFINE n == Len(frames)
           f == New(Term.fn, Top.state \union {<<Top.next, 0>>}, Top.next, Top.call_stack \union {Term.fn})
<1>6. frames' = Append(frames, f) /\ f.fn = Term.fn /\ Term.do = "call" /\ Term.fn \in Fn
  BY DEF Enter, New, At, Term, CanEnter
<1> HIDE DEF f
<1>7. /\ Len(frames') = n + 1 /\ frames'[n + 1] = f
      /\ \A i \in 1 .. n : frames'[i] = frames[i]
  <2>1. frames \in Seq(Frame \union {f})
    BY <1>1, <1>5, LenProperties, ElementOfSeq, SeqDef DEF FramesOK
  <2>. QED BY <1>6, <2>1, AppendProperties
<1> HIDE DEF n
<1>8. n \in Nat \ {0} /\ n = Len(frames) /\ Top = frames[n] BY <1>5 DEF n, Top
<1>0. PICK here : here = <<Top.fn, Top.pc>> OBVIOUS
<1>9. here \in Sites(program) /\ Callee(program, here) = Term.fn
  <2>1. Top.pc \in 1 .. Len(Body) + 1 BY <1>1, <1>8 DEF FramesOK, Body
  <2>2. Top.pc \in DOMAIN Body BY <1>1, <1>5, <2>1, LenProperties DEF AtEnd
  <2>3. Top.fn \in Fn BY <1>5 DEF Frame
  <2>. QED BY <1>0, <1>6, <2>2, <2>3 DEF Sites, Callee, Body, Term
<1>10. ~Started(Term.fn)
  <2>1. SUFFICES ASSUME Called(here) PROVE FALSE BY <1>4, <1>9 DEF OnceEach
  <2>2. Top.fn \notin checked_def_ids BY <1>4, <1>8 DEF OnceEach
  <2>3. PICK k \in 1 .. n :
          frames[k].fn = Top.fn /\ (Top.pc < frames[k].pc \/ (Top.pc = frames[k].pc /\ k < n))
    BY <1>0, <1>8, <2>1, <2>2 DEF Called
  <2>4. k = n BY <1>4, <1>8, <2>3 DEF OnceEach
  <2>5. Top.pc \in Nat BY <1>5 DEF Frame
  <2>. QED BY <1>8, <2>3, <2>4, <2>5
<1>11. Term.fn # Entry BY <1>3, <1>9 DEF OneContext
<1>12. Term.fn \notin checked_def_ids /\ \A i \in 1 .. n : frames[i].fn # Term.fn
  <2>1. \A i \in 2 .. n : frames[i].fn # Term.fn BY <1>8, <1>10 DEF Started
  <2>. QED BY <1>4, <1>8, <1>10, <1>11, <2>1 DEF AtEntry, Started
<1>13. \A s \in Sites(program) : Called(s) => Called(s)' BY <1>2, <1>7, <1>8 DEF Called
<1>14. Called(here)' BY <1>0, <1>7, <1>8 DEF Called
<1>15. ASSUME NEW s \in Sites(program), Started(Callee(program, s))' PROVE Called(s)'
  <2>1. CASE Started(Callee(program, s)) BY <1>4, <1>13, <1>15, <2>1 DEF OnceEach
  <2>2. CASE ~Started(Callee(program, s))
    <3> DEFINE g == Callee(program, s)
    <3>1. Started(g)' BY <1>2, <1>15
    <3> HIDE DEF g
    <3>2. PICK i \in 2 .. n + 1 : frames'[i].fn = g
      BY <1>2, <1>7, <2>2, <3>1 DEF Started, g
    <3>3. i = n + 1 BY <1>7, <1>8, <2>2, <3>2 DEF Started, g
    <3>4. Callee(program, s) = Term.fn BY <1>6, <1>7, <3>2, <3>3 DEF g
    <3>5. s = here BY <1>3, <1>9, <3>4 DEF OneContext
    <3>. QED BY <1>14, <3>5
  <2>. QED BY <2>1, <2>2
<1>16. \A s \in Sites(program)' : Started(Callee(program, s))' => Called(s)' BY <1>2, <1>15
<1>17. \A i \in 1 .. n + 1 : frames'[i].fn \notin checked_def_ids'
  BY <1>2, <1>4, <1>6, <1>7, <1>8, <1>12 DEF OnceEach
<1>18. \A i, j \in 1 .. n + 1 : i < j => frames'[i].fn # frames'[j].fn
  BY <1>4, <1>6, <1>7, <1>8, <1>12 DEF OnceEach
<1>19. AtEntry' BY <1>4, <1>7, <1>8 DEF AtEntry
<1>. QED BY <1>7, <1>16, <1>17, <1>18, <1>19 DEF OnceEach

(* The function that is over is checked, its caller past the call.         *)
LEMMA LeaveKeepsOInv == ASSUME IInv, OInv, Leave PROVE OInv'
<1>1. phase = "run" /\ GlobalOK /\ FramesOK BY DEF IInv, Leave
<1>2. UNCHANGED <<program, phase>> BY DEF Leave, input
<1>3. SUFFICES ASSUME OneContext(program) PROVE OnceEach' /\ AtEntry'
  BY <1>2 DEF OInv, OneContext, Sites, Callee, Repeated
<1>4. OnceEach /\ AtEntry BY <1>1, <1>3 DEF OInv
<1>5. Len(frames) \in Nat \ {0} /\ Top \in Frame BY <1>1, TopFrame
<1> DEFINE n == Len(frames)
           c == frames[n - 1]
           f == Resumed(c)
<1>6. n \in Nat /\ n > 1 BY <1>5 DEF Leave
<1>7. c \in Frame /\ Top = frames[n] BY <1>1, <1>6, ElementOfSeq DEF FramesOK, Top
<1>8. checked_def_ids' = checked_def_ids \union {Top.fn}
  <2>1. PICK S \in SUBSET Asserts : RunChecker(S) BY DEF Leave
  <2>. QED BY <1>1, <2>1, Checked
<1>9. frames' = Append(SubSeq(frames, 1, n - 2), f) BY DEF Leave
<1>10. f \in Frame /\ f.fn = c.fn /\ f.pc = c.pc + 1
  <2>1. PICK E \in SUBSET Nat : Top.post \in [E -> SUBSET Name] BY <1>5 DEF Frame, Posts
  <2>2. PostState \in SUBSET Name /\ Top.next \in Nat BY <1>5, <2>1 DEF PostState, Frame
  <2>3. f = Past([c EXCEPT !.state = PostState, !.next = Top.next]) BY DEF Resumed
  <2> HIDE DEF f, c
  <2>4. c \in Frame BY <1>7
  <2>. QED BY ONLY <2>2, <2>3, <2>4, ResumedFrame, Zenon
<1> HIDE DEF f
<1>11. /\ Len(frames') = n - 1 /\ frames'[n - 1] = f
       /\ \A i \in 1 .. n - 2 : frames'[i] = frames[i]
  BY <1>1, <1>6, <1>9, <1>10, Popped DEF FramesOK
<1> HIDE DEF n, c
<1>12. c = frames[n - 1] /\ n = Len(frames) BY DEF c, n
<1>13. \A i \in 1 .. n - 1 : frames'[i].fn = frames[i].fn
  <2>1. ASSUME NEW i \in 1 .. n - 1 PROVE frames'[i].fn = frames[i].fn
    <3>1. CASE i = n - 1 BY <1>10, <1>11, <1>12, <3>1
    <3>2. CASE i # n - 1 BY <1>6, <1>11, <3>2
    <3>. QED BY <3>1, <3>2
  <2>. QED BY <2>1
<1>14. c.pc \in Nat BY <1>7 DEF Frame
<1>15. ASSUME NEW s \in Sites(program), Called(s) PROVE Called(s)'
  <2>1. CASE s[1] \in checked_def_ids \union {Top.fn} BY <1>8, <2>1 DEF Called
  <2>2. CASE s[1] \notin checked_def_ids \union {Top.fn}
    <3>1. PICK k \in 1 .. n :
            frames[k].fn = s[1] /\ (s[2] < frames[k].pc \/ (s[2] = frames[k].pc /\ k < n))
      BY <1>12, <1>15, <2>2 DEF Called
    <3>2. k # n BY <1>7, <2>2, <3>1
    <3>3. CASE k = n - 1
      <4>1. s[2] \in Nat BY <1>1, SiteNumbers DEF GlobalOK
      <4>2. s[2] < f.pc BY <1>10, <1>12, <1>14, <3>1, <3>3, <4>1
      <4>. QED BY <1>6, <1>10, <1>11, <1>12, <3>1, <3>3, <4>2 DEF Called
    <3>4. CASE k # n - 1
      <4>1. k \in 1 .. n - 2 BY <1>6, <3>2, <3>4
      <4>2. frames'[k] = frames[k] /\ k < n - 1 /\ k \in 1 .. n - 1 BY <1>6, <1>11, <4>1
      <4>. QED BY <1>11, <3>1, <4>2 DEF Called
    <3>. QED BY <3>3, <3>4
  <2>. QED BY <2>1, <2>2
<1>16. ASSUME NEW g, Started(g)' PROVE Started(g)
  <2>1. CASE g \in checked_def_ids BY <2>1 DEF Started
  <2>2. CASE g = Top.fn BY <1>6, <1>7, <1>12, <2>2 DEF Started
  <2>3. CASE \E i \in 2 .. n - 1 : frames'[i].fn = g
    <3>1. PICK i \in 2 .. n - 1 : frames'[i].fn = g BY <2>3
    <3>2. i \in 2 .. n /\ frames[i].fn = g BY <1>6, <1>13, <3>1
    <3>. QED BY <1>12, <3>2 DEF Started
  <2>. QED BY <1>8, <1>11, <1>16, <2>1, <2>2, <2>3 DEF Started
<1>17. \A s \in Sites(program)' : Started(Callee(program, s))' => Called(s)'
  BY <1>2, <1>4, <1>15, <1>16 DEF OnceEach
<1>18. \A i \in 1 .. n - 1 : frames'[i].fn \notin checked_def_ids'
  <2>1. ASSUME NEW i \in 1 .. n - 1 PROVE frames[i].fn # Top.fn /\ frames[i].fn \notin checked_def_ids
    BY <1>4, <1>6, <1>7, <1>12, <2>1 DEF OnceEach
  <2>. QED BY <1>8, <1>13, <2>1
<1>19. \A i, j \in 1 .. n - 1 : i < j => frames'[i].fn # frames'[j].fn
  BY <1>4, <1>6, <1>12, <1>13 DEF OnceEach
<1>20. AtEntry' BY <1>4, <1>6, <1>13 DEF AtEntry
<1>. QED BY <1>11, <1>17, <1>18, <1>19, <1>20 DEF OnceEach

LEMMA OInvInductive == Spec => []OInv
<1>1. ASSUME Init PROVE OInv
  <2> DEFINE f == New(Entry, {}, 0, {})
  <2>1. frames = <<f>> /\ checked_def_ids = {} /\ f.fn = Entry BY <1>1 DEF Init, New
  <2> HIDE DEF f
  <2>2. Len(frames) = 1 /\ frames[1] = f BY <2>1
  <2>3. \A g : ~Started(g) BY <2>1, <2>2 DEF Started
  <2>. QED BY <2>1, <2>2, <2>3 DEF OInv, OnceEach, AtEntry
<1>2. ASSUME IInv, OInv, [Next]_vars PROVE OInv'
  <2>1. CASE UNCHANGED vars
    BY <1>2, <2>1 DEF vars, OInv, OnceEach, AtEntry, Called, Started, OneContext, Sites, Callee, Repeated
  <2>2. CASE Step BY <1>2, <2>2, StepKeepsOInv
  <2>3. CASE Panic \/ Finish
    <3>1. phase' # "run" BY <2>3 DEF Panic, Finish
    <3>. QED BY <3>1 DEF OInv
  <2>. QED BY <1>2, <2>1, <2>2, <2>3, EnterKeepsOInv, LeaveKeepsOInv DEF Next, Visit, Step
<1>. QED BY <1>1, <1>2, Inductive, PTL DEF Spec

(* OneContextIsClean: when every function is called at one place and not   *)
(* from a circle, no diagnostic is dropped without having been cancelled,  *)
(* whatever drops, conditions and tainted variables are reported: the      *)
(* early return of run_checker is never taken.                             *)
THEOREM OneContextClean == Spec => []OneContextIsClean
<1>1. ASSUME IInv, OInv PROVE OneContextIsClean
  <2> SUFFICES ASSUME OneContext(program), phase = "run", AtEnd PROVE LeftOver = {}
    BY DEF OneContextIsClean
  <2>1. OnceEach BY <1>1 DEF OInv
  <2>2. Len(frames) \in Nat \ {0} BY <1>1, TopFrame DEF IInv
  <2>3. Top.fn \notin checked_def_ids BY <2>1, <2>2 DEF OnceEach, Top
  <2>. QED BY <2>3 DEF LeftOver
<1>. QED BY <1>1, Inductive, OInvInductive, PTL

-----------------------------------------------------------------------------
(* The walk over the order of one function.                                *)

(* What is written with a code and an order of its own does not change     *)
(* from step to step.                                                      *)
Switches(c, b) == c[b].cases # << >>
Through(c, b, S) == {Changed(c[b].does, v) : v \in S}

BranchTaken(c, b, i) ==
  LET cases == c[b].cases
  IN IF i <= Len(cases) THEN cases[i] \ UNION {cases[j] : j \in 1 .. i - 1}
     ELSE Value \ UNION {cases[j] : j \in DOMAIN cases}

BranchTo(c, b, t) == CHOOSE i \in DOMAIN c[b].next : c[b].next[i] = t

Condition(c, b, t) ==
  LET i == BranchTo(c, b, t)
  IN IF i <= Len(c[b].cases) THEN c[b].cases[i] ELSE BranchTaken(c, b, i)

NoStray(c) ==
  /\ \A b \in DOMAIN c : 0 \notin Leads(c, b)
  /\ \A b \in {b \in DOMAIN c : Switches(c, b)} :
       /\ \A i, j \in DOMAIN c[b].next : c[b].next[i] = c[b].next[j] => i = j
       /\ \A u \in From(c, Leads(c, b), DOMAIN c) \ {b} : Leads(c, u) \intersect Leads(c, b) = {}

ExitsOf(c) == UNION {[D -> SUBSET Value] : D \in SUBSET DOMAIN c}
States(c) == {s \in [val : SUBSET Value, exits : ExitsOf(c)] : s.val = Hull(s.val)}

(* What a block with the interval S says of its successor t.               *)
Say(c, b, t, S) == IF Switches(c, b) THEN Hull(S \intersect Condition(c, b, t)) ELSE S

Loops(o) == {i \in DOMAIN o : o[i].loop}

(* What the proofs need of a weak topological order.                       *)
OrderOK(c, o) ==
  /\ o \in Seq([block : DOMAIN c, loop : BOOLEAN, size : Nat])
  /\ \A i, j \in DOMAIN o : o[i].block = o[j].block => i = j
  /\ 1 \in DOMAIN o /\ o[1].block = 0
  /\ \A j \in DOMAIN o : j # 1 => \E i \in 1 .. j - 1 : Edge(c, o, i, j)
  /\ \A i \in DOMAIN o : \A t \in Leads(c, o[i].block) : \E j \in DOMAIN o : o[j].block = t
  /\ \A i \in DOMAIN o : i + o[i].size <= Len(o) /\ (o[i].loop \/ o[i].size = 0)
  /\ \A i, j \in DOMAIN o : j \in Within(o, i) => j + o[j].size <= i + o[i].size
  /\ \A i, j \in DOMAIN o : Edge(c, o, i, j) /\ j <= i => o[j].loop /\ i \in Within(o, j)
  /\ \A i \in Loops(o) : \E j \in Within(o, i) : Edge(c, o, j, i)

Circles(c, o) == [at : Loops(o), pre : States(c), narrowing : BOOLEAN, round : Nat]

Placed(c, o, P) ==
  DOMAIN P \subseteq {o[i].block : i \in DOMAIN o} /\ P \in [DOMAIN P -> States(c)]

WalkTypes(c, o, p, A, I, P) ==
  /\ FunctionOK(c) /\ OrderOK(c, o)
  /\ p \in 1 .. Len(o) + 1
  /\ A \in Seq(Circles(c, o))
  /\ I \in [Loops(o) -> 0 .. IterCap]
  /\ Placed(c, o, P)

(* The circles around the place that is visited are the active ones.       *)
Around(o, p, A) ==
  /\ \A k \in DOMAIN A : A[k].at < p /\ p <= A[k].at + o[A[k].at].size + 1
  /\ \A j, k \in DOMAIN A : j < k => A[j].at < A[k].at /\ A[k].at \in Within(o, A[j].at)
  /\ \A i \in Loops(o) : i < p /\ p \in Within(o, i) => \E k \in DOMAIN A : A[k].at = i
  /\ \A k \in DOMAIN A : \A i \in Loops(o) :
       i < A[k].at /\ A[k].at \in Within(o, i) => \E j \in DOMAIN A : A[j].at = i

HeadAt(o, A, k) == o[A[k].at].block

Known(c, o, p, A, P) ==
  /\ \A i \in 1 .. p - 1 : o[i].block \in DOMAIN P
  /\ \A k \in DOMAIN A : P[HeadAt(o, A, k)].val = Hull(Through(c, HeadAt(o, A, k), A[k].pre.val))

(* How often the interval can still grow by widening.                      *)
Rank(S) ==
  IF S = {} THEN 3 ELSE (IF 0 \in S THEN 0 ELSE 1) + (IF Large \in S THEN 0 ELSE 1)

Ranked(A, I) ==
  \A k \in DOMAIN A : ~ A[k].narrowing =>
    /\ A[k].round + Rank(A[k].pre.val) <= (IF WideningDelay = 0 THEN 1 ELSE WideningDelay) + 3
    /\ I[A[k].at] <= WideningDelay => A[k].round <= I[A[k].at]

(* A condition that a state at b carries comes from a switch before b.     *)
Carried(c, b, t) ==
  \E w \in DOMAIN c : Switches(c, w) /\ t \in Leads(c, w) /\ b \in From(c, Leads(c, w), DOMAIN c)

CarriedBefore(c, b, s) == \A t \in DOMAIN s.exits : Carried(c, b, t)

CarriedAfter(c, b, s) ==
  /\ \A t \in DOMAIN s.exits : Carried(c, b, t) \/ (Switches(c, b) /\ t \in Leads(c, b))
  /\ Switches(c, b) /\ s.val # {} =>
       \A t \in Leads(c, b) : t \in DOMAIN s.exits /\ s.exits[t] = Condition(c, b, t)

(* The state s is what the predecessors of b say together, and no more.    *)
Gathers(c, P, b, s) ==
  /\ s \in States(c)
  /\ CarriedBefore(c, b, s)
  /\ \A u \in DOMAIN P : b \in Leads(c, u) => Say(c, u, b, P[u].val) \subseteq s.val
  /\ \A T \in SUBSET Value :
       T = Hull(T) /\ (\A u \in DOMAIN P : b \in Leads(c, u) => Say(c, u, b, P[u].val) \subseteq T)
         => s.val \subseteq T

AllCarried(c, P) == \A b \in DOMAIN P : CarriedAfter(c, b, P[b])

Conditions(c, o, A, P) ==
  /\ AllCarried(c, P)
  /\ \A k \in DOMAIN A : CarriedBefore(c, HeadAt(o, A, k), A[k].pre)

(* The post condition of the block at j allows for what the one at i says. *)
Has(o, P, i) == o[i].block \in DOMAIN P
SaysTo(c, o, P, i, j) == Say(c, o[i].block, o[j].block, P[o[i].block].val)
Covers(c, o, P, i, j) ==
  Through(c, o[j].block, SaysTo(c, o, P, i, j)) \subseteq P[o[j].block].val

(* Behind the place that is visited only the edges to the heads of active  *)
(* circles are not allowed for.                                            *)
CoveredBehind(c, o, p, A, P) ==
  \A i, j \in DOMAIN o :
    j < p /\ Has(o, P, i) /\ Edge(c, o, i, j) /\ (i < j \/ \A k \in DOMAIN A : A[k].at # j)
      => Covers(c, o, P, i, j)

(* In a circle that is being narrowed all edges are allowed for, and no    *)
(* circle inside it can grow.                                              *)
Narrowing(c, o, A, P, k) ==
  /\ \A j \in Within(o, A[k].at) : Has(o, P, j)
  /\ \A j \in Within(o, A[k].at) : \A i \in DOMAIN o :
       Has(o, P, i) /\ Edge(c, o, i, j) => Covers(c, o, P, i, j)
  /\ \A m \in DOMAIN A : m >= k => \A i \in DOMAIN o :
       Has(o, P, i) /\ Edge(c, o, i, A[m].at) => SaysTo(c, o, P, i, A[m].at) \subseteq A[m].pre.val

Flow(c, o, p, A, P) ==
  /\ Conditions(c, o, A, P)
  /\ p > 1 => Through(c, 0, InitVals) \subseteq P[0].val
  /\ CoveredBehind(c, o, p, A, P)
  /\ \A k \in DOMAIN A : A[k].narrowing => Narrowing(c, o, A, P, k)

WalkInvOf(c, o, p, A, I, P) ==
  /\ WalkTypes(c, o, p, A, I, P)
  /\ Around(o, p, A)
  /\ Known(c, o, p, A, P)
  /\ Ranked(A, I)
  /\ NoStray(c) => Flow(c, o, p, A, P)

WalkInv == WalkInvOf(code, order, pos, active, iter, post)

-----------------------------------------------------------------------------
(* Intervals.                                                              *)

LEMMA ValueIs == Large \in Nat /\ Value = 0 .. Large
BY MirFixpointAssumption DEF Value

LEMMA LeastOfNaturals ==
  ASSUME NEW S, S \subseteq Nat, S # {}
  PROVE  Least(S) \in S /\ \A w \in S : Least(S) <= w
<1>1. PICK m \in S : \A w \in S : ~ (w < m)
  <2>1. \E m \in S : \A w \in S : ~ (<<w, m>> \in OpToRel(<, Nat))
    BY WFMin, NatLessThanWellFounded
  <2> QED BY <2>1 DEF OpToRel
<1>2. \E v \in S : \A w \in S : v <= w
  BY <1>1
<1> QED BY <1>2 DEF Least

LEMMA LeastIs ==
  ASSUME NEW S, S \subseteq Value, S # {}
  PROVE  Least(S) \in S /\ \A w \in S : Least(S) <= w
<1>1. S \subseteq Nat
  BY ValueIs
<1> QED BY <1>1, LeastOfNaturals

LEMMA MostOfBounded ==
  ASSUME NEW n \in Nat, NEW S, S \subseteq 0 .. n, S # {}
  PROVE  Most(S) \in S /\ \A w \in S : w <= Most(S)
<1> DEFINE D == {n - v : v \in S}
<1>1. D \subseteq Nat
  OBVIOUS
<1>2. D # {}
  OBVIOUS
<1>3. Least(D) \in D /\ \A d \in D : Least(D) <= d
  BY <1>1, <1>2, LeastOfNaturals
<1>4. PICK v \in S : Least(D) = n - v
  BY <1>3
<1>5. ASSUME NEW w \in S PROVE w <= v
  <2>1. n - v <= n - w
    BY <1>3, <1>4
  <2>2. v \in 0 .. n /\ w \in 0 .. n
    OBVIOUS
  <2> QED BY ONLY <2>1, <2>2, n \in Nat
<1>6. \E v0 \in S : \A w \in S : w <= v0
  BY <1>5
<1> QED BY <1>6 DEF Most

LEMMA MostIs ==
  ASSUME NEW S, S \subseteq Value, S # {}
  PROVE  Most(S) \in S /\ \A w \in S : w <= Most(S)
BY MostOfBounded, ValueIs

(* What is in the hull of a set lies between two of its members.           *)
LEMMA InHull ==
  ASSUME NEW S, S \subseteq Value
  PROVE  \A v : v \in Hull(S) <=> v \in Value /\ \E a, b \in S : a <= v /\ v <= b
<1>1. CASE S = {}
  BY <1>1 DEF Hull
<1>2. CASE S # {}
  <2>1. Least(S) \in S /\ \A w \in S : Least(S) <= w
    BY <1>2, LeastIs
  <2>2. Most(S) \in S /\ \A w \in S : w <= Most(S)
    BY <1>2, MostIs
  <2>3. Hull(S) = Least(S) .. Most(S)
    BY <1>2 DEF Hull
  <2>4. Least(S) \in 0 .. Large /\ Most(S) \in 0 .. Large
    BY <2>1, <2>2, ValueIs
  <2>5. ASSUME NEW v \in Hull(S)
        PROVE  v \in Value /\ \E a, b \in S : a <= v /\ v <= b
    <3>1. v \in Int /\ Least(S) <= v /\ v <= Most(S)
      BY <2>3, <2>4
    <3>2. v \in 0 .. Large
      BY ONLY <3>1, <2>4, ValueIs
    <3> QED BY <3>1, <3>2, <2>1, <2>2, ValueIs
  <2>6. ASSUME NEW v \in Value, NEW a \in S, NEW b \in S, a <= v, v <= b
        PROVE  v \in Hull(S)
    <3>1. Least(S) <= a /\ b <= Most(S)
      BY <2>1, <2>2
    <3>2. v \in 0 .. Large /\ a \in 0 .. Large /\ b \in 0 .. Large
      BY ValueIs
    <3>3. Least(S) <= v /\ v <= Most(S)
      BY ONLY <3>1, <3>2, <2>4, <2>6, ValueIs
    <3> QED BY ONLY <3>2, <3>3, <2>3, <2>4, ValueIs
  <2> QED BY <2>5, <2>6
<1> QED BY <1>1, <1>2

LEMMA HullFacts ==
  ASSUME NEW S, S \subseteq Value
  PROVE  /\ Hull(S) \subseteq Value
         /\ S \subseteq Hull(S)
         /\ Hull(Hull(S)) = Hull(S)
         /\ S = {} <=> Hull(S) = {}
<1>1. Hull(S) \subseteq Value
  BY InHull
<1>2. ASSUME NEW v \in S PROVE v \in Hull(S)
  <2>1. v <= v
    BY ValueIs
  <2> QED BY <2>1, InHull
<1>3. \A v : v \in Hull(Hull(S)) <=> v \in Value /\ \E a, b \in Hull(S) : a <= v /\ v <= b
  BY <1>1, InHull
<1>4. Hull(Hull(S)) \subseteq Hull(S)
  <2> SUFFICES ASSUME NEW v \in Hull(Hull(S)) PROVE v \in Hull(S)
    OBVIOUS
  <2>1. PICK a \in Hull(S), b \in Hull(S) : v \in Value /\ a <= v /\ v <= b
    BY <1>3
  <2>2. PICK a1 \in S : a1 <= a
    BY <2>1, InHull
  <2>3. PICK b1 \in S : b <= b1
    BY <2>1, InHull
  <2>4. a1 <= v /\ v <= b1
    BY <2>1, <2>2, <2>3, <1>1, ValueIs
  <2> QED BY <2>1, <2>4, InHull
<1>5. Hull(S) \subseteq Hull(Hull(S))
  BY <1>1, <1>3, ValueIs
<1>6. S = {} <=> Hull(S) = {}
  BY <1>2 DEF Hull
<1> QED BY <1>1, <1>2, <1>4, <1>5, <1>6

LEMMA HullMonotone ==
  ASSUME NEW T, T \subseteq Value, NEW S, S \subseteq T
  PROVE  Hull(S) \subseteq Hull(T)
<1>1. S \subseteq Value
  OBVIOUS
<1> QED BY <1>1, InHull

(* An interval is a set without holes.                                     *)
LEMMA NoHoles ==
  ASSUME NEW S, S \subseteq Value
  PROVE  S = Hull(S) <=> \A a, b \in S : \A v \in Value : a <= v /\ v <= b => v \in S
<1>1. S \subseteq Hull(S)
  BY HullFacts
<1> QED BY <1>1, InHull

LEMMA HullWithin ==
  ASSUME NEW T, T \subseteq Value, T = Hull(T), NEW S, S \subseteq T
  PROVE  Hull(S) \subseteq T
BY HullMonotone

LEMMA IntersectionOfIntervals ==
  ASSUME NEW S, S \subseteq Value, S = Hull(S), NEW T, T \subseteq Value, T = Hull(T)
  PROVE  S \intersect T = Hull(S \intersect T)
<1>1. S \intersect T \subseteq Value
  OBVIOUS
<1>2. \A a, b \in S \intersect T : \A v \in Value : a <= v /\ v <= b => v \in S \intersect T
  BY NoHoles
<1> QED BY <1>1, <1>2, NoHoles

(* Widening covers both states, and an interval that had to grow has a     *)
(* bound less to give up.                                                  *)
LEMMA WideningCovers ==
  ASSUME NEW S, S \subseteq Value, S = Hull(S), NEW T, T \subseteq Value, T = Hull(T)
  PROVE  /\ Widened(S, T) \subseteq Value /\ Widened(S, T) = Hull(Widened(S, T))
         /\ S \subseteq Widened(S, T) /\ T \subseteq Widened(S, T)
         /\ ~ (T \subseteq S) => Rank(Widened(S, T)) < Rank(S)
<1>1. CASE S = {} \/ T = {}
  <2>1. Widened(S, T) = S \union T
    BY <1>1 DEF Widened
  <2>2. Widened(S, T) = S \/ Widened(S, T) = T
    BY <1>1, <2>1
  <2>3. ~ (T \subseteq S) => S = {} /\ T # {} /\ Widened(S, T) = T
    BY <1>1, <2>1
  <2> QED BY <2>1, <2>2, <2>3 DEF Rank
<1>2. CASE S # {} /\ T # {}
  <2>1. Least(S) \in S /\ \A w \in S : Least(S) <= w
    BY <1>2, LeastIs
  <2>2. Most(S) \in S /\ \A w \in S : w <= Most(S)
    BY <1>2, MostIs
  <2>3. Least(T) \in T /\ \A w \in T : Least(T) <= w
    BY <1>2, LeastIs
  <2>4. Most(T) \in T /\ \A w \in T : w <= Most(T)
    BY <1>2, MostIs
  <2> DEFINE low == IF Least(T) < Least(S) THEN 0 ELSE Least(S)
  <2> DEFINE high == IF Most(T) > Most(S) THEN Large ELSE Most(S)
  <2>5. Widened(S, T) = low .. high
    BY <1>2 DEF Widened
  <2>6. 0 \in Value /\ Large \in Value
    BY ValueIs
  <2>7. low \in Value /\ high \in Value
    BY <2>1, <2>2, <2>6
  <2>8. ASSUME NEW v PROVE v \in low .. high <=> v \in Value /\ low <= v /\ v <= high
    BY <2>7, ValueIs
  <2>9. low <= Least(S) /\ low <= Least(T) /\ Most(S) <= high /\ Most(T) <= high
    <3>1. /\ Least(S) \in 0 .. Large /\ Most(S) \in 0 .. Large
          /\ Least(T) \in 0 .. Large /\ Most(T) \in 0 .. Large
      BY <2>1, <2>2, <2>3, <2>4, ValueIs
    <3> QED BY ONLY <3>1, ValueIs
  <2>10. /\ Least(T) < Least(S) => low = 0
         /\ Most(T) > Most(S) => high = Large
    OBVIOUS
  <2> HIDE DEF low, high
  <2>11. \A a, b \in low .. high : \A v \in Value : a <= v /\ v <= b => v \in low .. high
    <3> SUFFICES ASSUME NEW a \in low .. high, NEW b \in low .. high, NEW v \in Value, a <= v, v <= b
                 PROVE  v \in low .. high
      OBVIOUS
    <3>1. a \in Value /\ b \in Value /\ low <= a /\ b <= high
      BY <2>8
    <3>2. low <= v /\ v <= high
      BY ONLY <3>1, <2>7, ValueIs, v \in Value, a <= v, v <= b
    <3> QED BY <2>8, <3>2
  <2>12. ASSUME NEW v \in S PROVE v \in low .. high
    <3>1. Least(S) <= v /\ v <= Most(S) /\ v \in Value /\ Least(S) \in Value /\ Most(S) \in Value
      BY <2>1, <2>2
    <3>2. low <= v /\ v <= high
      BY ONLY <3>1, <2>9, <2>7, ValueIs
    <3> QED BY <3>1, <3>2, <2>8
  <2>13. ASSUME NEW v \in T PROVE v \in low .. high
    <3>1. Least(T) <= v /\ v <= Most(T) /\ v \in Value /\ Least(T) \in Value /\ Most(T) \in Value
      BY <2>3, <2>4
    <3>2. low <= v /\ v <= high
      BY ONLY <3>1, <2>9, <2>7, ValueIs
    <3> QED BY <3>1, <3>2, <2>8
  <2>14. ASSUME ~ (T \subseteq S) PROVE Rank(low .. high) < Rank(S)
    <3>1. Least(T) < Least(S) \/ Most(T) > Most(S)
      <4>1. PICK t \in T : t \notin S
        BY <2>14
      <4>2. t \in Value /\ Least(T) <= t /\ t <= Most(T)
        BY <2>3, <2>4
      <4>3. ~ (Least(S) <= t /\ t <= Most(S))
        BY <4>1, <4>2, <2>1, <2>2, NoHoles
      <4>4. Least(S) \in Value /\ Most(S) \in Value /\ Least(T) \in Value /\ Most(T) \in Value
        BY <2>1, <2>2, <2>3, <2>4
      <4> QED BY ONLY <4>2, <4>3, <4>4, ValueIs
    <3>2. ASSUME Least(T) < Least(S) PROVE 0 \in low .. high /\ 0 \notin S
      <4>1. 0 \in low .. high
        BY <3>2, <2>10, <2>8, <2>6, <2>7, ValueIs
      <4>2. 0 \in S => Least(S) <= 0
        BY <2>1
      <4>3. Least(S) \in 0 .. Large /\ Least(T) \in 0 .. Large
        BY <2>1, <2>3, ValueIs
      <4> QED BY ONLY <4>1, <4>2, <4>3, <3>2, ValueIs
    <3>3. ASSUME Most(T) > Most(S) PROVE Large \in low .. high /\ Large \notin S
      <4>1. Large \in low .. high
        BY <3>3, <2>10, <2>8, <2>6, <2>7, ValueIs
      <4>2. Large \in S => Large <= Most(S)
        BY <2>2
      <4>3. Most(S) \in 0 .. Large /\ Most(T) \in 0 .. Large
        BY <2>2, <2>4, ValueIs
      <4> QED BY ONLY <4>1, <4>2, <4>3, <3>3, ValueIs
    <3>4. (0 \in S => 0 \in low .. high) /\ (Large \in S => Large \in low .. high)
      BY <2>12
    <3>5. low .. high # {}
      BY <1>2, <2>12
    <3> QED BY <1>2, <3>1, <3>2, <3>3, <3>4, <3>5 DEF Rank
  <2>15. low .. high \subseteq Value /\ low .. high = Hull(low .. high)
    BY <2>11, <2>8, NoHoles
  <2> QED BY <2>5, <2>15, <2>12, <2>13, <2>14
<1> QED BY <1>1, <1>2

LEMMA RankFacts ==
  ASSUME NEW S
  PROVE  /\ Rank(S) \in 0 .. 3
         /\ S # {} => Rank(S) <= 2
BY DEF Rank

-----------------------------------------------------------------------------
(* Blocks.                                                                 *)

LEMMA ChangedFacts ==
  ASSUME NEW c, FunctionOK(c), NEW b \in DOMAIN c, NEW v \in Value
  PROVE  /\ Changed(c[b].does, v) \in Value
         /\ \A w \in Value : v <= w => Changed(c[b].does, v) <= Changed(c[b].does, w)
<1>1. c[b].does \in {"inc", "zero", "keep"}
  BY DEF FunctionOK
<1> QED BY <1>1, ValueIs DEF Changed

LEMMA ThroughFacts ==
  ASSUME NEW c, FunctionOK(c), NEW b \in DOMAIN c, NEW S, S \subseteq Value
  PROVE  /\ Through(c, b, S) \subseteq Value
         /\ S = {} <=> Through(c, b, S) = {}
<1>1. \A v \in S : Changed(c[b].does, v) \in Value
  BY ChangedFacts
<1> QED BY <1>1 DEF Through

(* What a block maps into an interval is an interval.                      *)
LEMMA PreimageOfInterval ==
  ASSUME NEW c, FunctionOK(c), NEW b \in DOMAIN c, NEW T, T \subseteq Value, T = Hull(T)
  PROVE  {v \in Value : Changed(c[b].does, v) \in T} = Hull({v \in Value : Changed(c[b].does, v) \in T})
<1> DEFINE W == {v \in Value : Changed(c[b].does, v) \in T}
<1>1. ASSUME NEW x \in W, NEW y \in W, NEW v \in Value, x <= v, v <= y
      PROVE  v \in W
  <2>1. Changed(c[b].does, x) <= Changed(c[b].does, v) /\ Changed(c[b].does, v) <= Changed(c[b].does, y)
    BY <1>1, ChangedFacts
  <2>2. Changed(c[b].does, v) \in Value
    BY ChangedFacts
  <2>3. Changed(c[b].does, x) \in T /\ Changed(c[b].does, y) \in T
    OBVIOUS
  <2> QED BY <2>1, <2>2, <2>3, NoHoles
<1>2. W \subseteq Value
  OBVIOUS
<1>3. \A x, y \in W : \A v \in Value : x <= v /\ v <= y => v \in W
  BY <1>1
<1> HIDE DEF W
<1>4. W = Hull(W)
  BY <1>2, <1>3, NoHoles
<1> QED BY <1>4 DEF W

LEMMA NextFacts ==
  ASSUME NEW c, FunctionOK(c), NEW b \in DOMAIN c
  PROVE  /\ Leads(c, b) \subseteq DOMAIN c
         /\ DOMAIN c[b].next = 1 .. Len(c[b].next) /\ Len(c[b].next) \in Nat
         /\ DOMAIN c[b].cases = 1 .. Len(c[b].cases) /\ Len(c[b].cases) \in Nat
         /\ \A i \in DOMAIN c[b].cases : c[b].cases[i] \subseteq Value
         /\ Switches(c, b) => Len(c[b].next) = Len(c[b].cases) + 1
<1>1. c[b].cases \in Seq(SUBSET Value) /\ c[b].next \in Seq(DOMAIN c)
  BY DEF FunctionOK
<1>2. Switches(c, b) => Len(c[b].next) = Len(c[b].cases) + 1
  BY DEF FunctionOK, Switches
<1> QED BY <1>1, <1>2 DEF Leads

LEMMA BranchFacts ==
  ASSUME NEW c, NEW b, NEW t \in Leads(c, b)
  PROVE  BranchTo(c, b, t) \in DOMAIN c[b].next /\ c[b].next[BranchTo(c, b, t)] = t
BY DEF BranchTo, Leads

LEMMA ConditionType ==
  ASSUME NEW c, FunctionOK(c), NEW b \in DOMAIN c, Switches(c, b), NEW t \in Leads(c, b)
  PROVE  Condition(c, b, t) \subseteq Value
<1> DEFINE i == BranchTo(c, b, t)
<1>1. i \in 1 .. Len(c[b].next)
  BY BranchFacts, NextFacts
<1>2. i <= Len(c[b].cases) => c[b].cases[i] \subseteq Value
  BY <1>1, NextFacts
<1>3. ~ (i <= Len(c[b].cases)) => BranchTaken(c, b, i) \subseteq Value
  BY DEF BranchTaken
<1> QED BY <1>2, <1>3 DEF Condition

LEMMA SayFacts ==
  ASSUME NEW c, FunctionOK(c), NEW b \in DOMAIN c, NEW t \in Leads(c, b),
         NEW S, S \subseteq Value, S = Hull(S)
  PROVE  /\ Say(c, b, t, S) \subseteq S
         /\ Say(c, b, t, S) = Hull(Say(c, b, t, S))
<1>1. CASE ~ Switches(c, b)
  BY <1>1 DEF Say
<1>2. CASE Switches(c, b)
  <2>1. S \intersect Condition(c, b, t) \subseteq S /\ S \intersect Condition(c, b, t) \subseteq Value
    OBVIOUS
  <2>2. Say(c, b, t, S) = Hull(S \intersect Condition(c, b, t))
    BY <1>2 DEF Say
  <2> QED BY <2>1, <2>2, HullWithin, HullFacts
<1> QED BY <1>1, <1>2

LEMMA SayMonotone ==
  ASSUME NEW c, NEW b, NEW t, NEW T, T \subseteq Value, NEW S, S \subseteq T
  PROVE  Say(c, b, t, S) \subseteq Say(c, b, t, T)
<1>1. S \intersect Condition(c, b, t) \subseteq T \intersect Condition(c, b, t)
  OBVIOUS
<1>2. T \intersect Condition(c, b, t) \subseteq Value
  OBVIOUS
<1> QED BY <1>1, <1>2, HullMonotone DEF Say

(* A value that takes a branch is among those its target is told of.       *)
LEMMA TakenIsSaid ==
  ASSUME NEW c, FunctionOK(c), NoStray(c), NEW b \in DOMAIN c, NEW i \in DOMAIN c[b].next,
         NEW S, S \subseteq Value, NEW v \in S, v \in BranchTaken(c, b, i)
  PROVE  v \in Say(c, b, c[b].next[i], S)
<1>1. CASE ~ Switches(c, b)
  BY <1>1 DEF Say
<1>2. CASE Switches(c, b)
  <2> DEFINE t == c[b].next[i]
  <2>1. t \in Leads(c, b)
    BY DEF Leads
  <2>2. BranchTo(c, b, t) = i
    BY <1>2, <2>1, BranchFacts DEF NoStray
  <2>3. v \in Condition(c, b, t)
    BY <2>2 DEF Condition, BranchTaken
  <2>4. S \intersect Condition(c, b, t) \subseteq Value
    OBVIOUS
  <2> QED BY <1>2, <2>3, <2>4, HullFacts DEF Say
<1> QED BY <1>1, <1>2

-----------------------------------------------------------------------------
(* What blocks lead to, and the order.                                     *)

LEMMA FromFacts ==
  ASSUME NEW c, NEW S, NEW M
  PROVE  /\ From(c, S, M) \subseteq M
         /\ S \intersect M \subseteq From(c, S, M)
         /\ \A d \in From(c, S, M) : Leads(c, d) \intersect M \subseteq From(c, S, M)
BY DEF From

LEMMA FromIsLeastSet ==
  ASSUME NEW c, NEW S, NEW M, NEW R \in SUBSET M, S \intersect M \subseteq R,
         \A d \in R : Leads(c, d) \intersect M \subseteq R
  PROVE  From(c, S, M) \subseteq R
BY DEF From

LEMMA NoStrayOfCode == NoStrayCondition <=> NoStray(code)
BY DEF NoStrayCondition, NoStray, Succ, Switches, Blocks

LEMMA OrderFacts ==
  ASSUME NEW c, FunctionOK(c), NEW o, WeakOrder(c, o)
  PROVE  OrderOK(c, o)
<1>1. o \in Seq([block : DOMAIN c, loop : BOOLEAN, size : Nat])
  BY DEF WeakOrder
<1>2. DOMAIN o = 1 .. Len(o) /\ Len(o) \in Nat
  BY <1>1
<1>3. \A i \in DOMAIN o : o[i] \in [block : DOMAIN c, loop : BOOLEAN, size : Nat]
  BY <1>1, <1>2, ElementOfSeq
<1>4. \A i \in DOMAIN o : o[i].block \in DOMAIN c /\ o[i].size \in Nat
  BY <1>3
<1>5. {o[i].block : i \in DOMAIN o} = From(c, {0}, DOMAIN c)
  BY DEF WeakOrder
<1>6. 0 \in DOMAIN c
  BY DEF FunctionOK
<1>7. 0 \in {o[i].block : i \in DOMAIN o}
  BY <1>5, <1>6, FromFacts
<1>8. 1 \in DOMAIN o
  BY <1>2, <1>7
<1>9. \A j \in DOMAIN o :
        IF j = 1 THEN o[j].block = 0 ELSE \E i \in 1 .. j - 1 : Edge(c, o, i, j)
  BY DEF WeakOrder, Edge
<1>10. ASSUME NEW i \in DOMAIN o, NEW t \in Leads(c, o[i].block)
      PROVE  \E j \in DOMAIN o : o[j].block = t
  <2>1. o[i].block \in DOMAIN c
    BY <1>4
  <2>2. t \in DOMAIN c
    BY <2>1, NextFacts
  <2>3. t \in From(c, {0}, DOMAIN c)
    BY <1>5, <2>2, FromFacts
  <2> QED BY <1>5, <2>3
<1>11. ASSUME NEW i \in Loops(o)
      PROVE  \E j \in Within(o, i) : Edge(c, o, j, i)
  <2> DEFINE h == o[i].block
             M == Members(o, i)
             R == {x \in M : \E j \in Within(o, i) : x \in Leads(c, o[j].block)}
  <2>1. i \in DOMAIN o /\ i \in Within(o, i)
    BY <1>2, <1>4 DEF Loops, Within
  <2>2. M = {o[j].block : j \in Within(o, i)}
    BY DEF Members, Within
  <2>3. h \in M
    BY <2>1, <2>2
  <2>4. h \in From(c, Leads(c, h), M)
    <3>1. o[i].loop
      BY DEF Loops
    <3> QED BY <2>1, <2>3, <3>1 DEF WeakOrder
  <2>5. Leads(c, h) \intersect M \subseteq R
    BY <2>1
  <2>6. ASSUME NEW d \in R PROVE Leads(c, d) \intersect M \subseteq R
    BY <2>2
  <2> HIDE DEF h, M, R
  <2>7. R \in SUBSET M
    BY DEF R
  <2>8. h \in R
    BY <2>4, <2>5, <2>6, <2>7, FromIsLeastSet
  <2> QED BY <2>8 DEF R, h, Edge
<1>12. \A i, j \in DOMAIN o : o[i].block = o[j].block => i = j
  BY DEF WeakOrder
<1>13. \A i \in DOMAIN o : i + o[i].size <= Len(o) /\ (o[i].loop \/ o[i].size = 0)
  BY DEF WeakOrder
<1>14. \A i, j \in DOMAIN o : j \in Within(o, i) => j + o[j].size <= i + o[i].size
  BY DEF WeakOrder, Within
<1>15. \A i, j \in DOMAIN o :
         Edge(c, o, i, j) /\ j <= i => o[j].loop /\ i \in Within(o, j)
  <2> SUFFICES ASSUME NEW i \in DOMAIN o, NEW j \in DOMAIN o,
                      Edge(c, o, i, j), j <= i
               PROVE  o[j].loop /\ i \in Within(o, j)
    OBVIOUS
  <2>1. o[j].loop /\ i <= j + o[j].size
    BY DEF WeakOrder, Edge
  <2>2. o[j].size \in Nat
    BY <1>4
  <2> QED BY <1>2, <2>1, <2>2 DEF Within
<1> QED
  BY <1>1, <1>8, <1>9, <1>10, <1>11, <1>12, <1>13, <1>14, <1>15 DEF OrderOK

(* Places of the order.                                                    *)
LEMMA PlaceFacts ==
  ASSUME NEW c, NEW o, OrderOK(c, o)
  PROVE  /\ DOMAIN o = 1 .. Len(o) /\ Len(o) \in Nat
         /\ \A i \in DOMAIN o : /\ o[i] \in [block : DOMAIN c, loop : BOOLEAN, size : Nat]
                                /\ o[i].block \in DOMAIN c /\ o[i].loop \in BOOLEAN
                                /\ o[i].size \in Nat
                                /\ Within(o, i) \subseteq DOMAIN o /\ i \in Within(o, i)
         /\ Loops(o) \subseteq DOMAIN o
<1>1. o \in Seq([block : DOMAIN c, loop : BOOLEAN, size : Nat])
  BY DEF OrderOK
<1>2. DOMAIN o = 1 .. Len(o) /\ Len(o) \in Nat
  BY <1>1
<1>3. \A i \in DOMAIN o : o[i] \in [block : DOMAIN c, loop : BOOLEAN, size : Nat]
  BY <1>1, <1>2, ElementOfSeq
<1>4. \A i \in DOMAIN o : o[i].block \in DOMAIN c /\ o[i].loop \in BOOLEAN /\ o[i].size \in Nat
  BY <1>3
<1>5. \A i \in DOMAIN o : i + o[i].size <= Len(o)
  BY DEF OrderOK
<1>6. \A i \in DOMAIN o : Within(o, i) \subseteq DOMAIN o /\ i \in Within(o, i)
  BY <1>2, <1>4, <1>5 DEF Within
<1> QED BY <1>2, <1>3, <1>4, <1>6 DEF Loops

-----------------------------------------------------------------------------
(* What the function really does.                                          *)

LEMMA StepsStayInside ==
  ASSUME FunctionOK(code), NEW R \in SUBSET (Blocks \X Value)
  PROVE  MoreOf(R) \in SUBSET (Blocks \X Value)
<1> SUFFICES ASSUME NEW p \in R, NEW q \in StepsFrom(p)
             PROVE  q \in Blocks \X Value
  BY DEF MoreOf
<1>1. p[1] \in DOMAIN code /\ p[2] \in Value
  BY DEF Blocks
<1>2. Changed(code[p[1]].does, p[2]) \in Value
  BY <1>1, ChangedFacts
<1>3. \A i \in DOMAIN code[p[1]].next : code[p[1]].next[i] \in DOMAIN code
  BY <1>1, NextFacts DEF Leads
<1> QED BY <1>2, <1>3 DEF StepsFrom, Blocks

LEMMA ClosureUnfolds ==
  ASSUME FunctionOK(code), NEW R \in SUBSET (Blocks \X Value)
  PROVE  Closure[R] = IF MoreOf(R) = R THEN R ELSE Closure[MoreOf(R)]
<1> DEFINE X == Blocks \X Value
           F(f) == [Q \in SUBSET X |-> IF MoreOf(Q) = Q THEN Q ELSE f[MoreOf(Q)]]
           least(Q) == {x \in X : \A T \in SUBSET X : Q \subseteq T /\ MoreOf(T) = T => x \in T}
           g == [Q \in SUBSET X |-> least(Q)]
<1>1. ASSUME NEW Q \in SUBSET X, MoreOf(Q) = Q PROVE least(Q) = Q
  BY <1>1
<1>2. ASSUME NEW Q \in SUBSET X PROVE least(Q) = least(MoreOf(Q))
  <2>1. ASSUME NEW T \in SUBSET X, MoreOf(T) = T
        PROVE  Q \subseteq T <=> MoreOf(Q) \subseteq T
    BY <2>1 DEF MoreOf
  <2> QED BY <2>1
<1>3. \A Q \in SUBSET X : MoreOf(Q) \in SUBSET X
  BY StepsStayInside
<1>4. g = F(g)
  <2> HIDE DEF X, least
  <2>1. \A Q \in SUBSET X : g[Q] = IF MoreOf(Q) = Q THEN Q ELSE g[MoreOf(Q)]
    BY <1>1, <1>2, <1>3
  <2> QED BY <2>1
<1>5. Closure = CHOOSE f : f = F(f)
  BY DEF Closure
<1> HIDE DEF F, g
<1>6. Closure = F(Closure)
  BY <1>4, <1>5
<1> QED BY <1>6 DEF F

(* Whatever holds at the start and is kept by all steps.                   *)
LEMMA ReachableWithin ==
  ASSUME FunctionOK(code), NEW P \in SUBSET (Blocks \X Value), {0} \X InitVals \subseteq P,
         \A p \in P : StepsFrom(p) \subseteq P
  PROVE  Reachable \subseteq P
<1> DEFINE Bad == {R \in SUBSET P : ~ (Closure[R] \subseteq P)}
           Left == {Cardinality(P \ R) : R \in Bad}
<1>1. IsFiniteSet(P)
  <2>1. IsFiniteSet(DOMAIN code) /\ IsFiniteSet(Value)
    BY ValueIs, FS_Interval DEF FunctionOK
  <2>2. IsFiniteSet(Blocks \X Value)
    BY <2>1, FS_Product DEF Blocks
  <2> QED BY <2>2, FS_Subset
<1>2. ASSUME NEW R \in Bad
      PROVE  \E T \in Bad : Cardinality(P \ T) < Cardinality(P \ R)
  <2>1. R \in SUBSET (Blocks \X Value) /\ R \subseteq P
    OBVIOUS
  <2>2. Closure[R] = IF MoreOf(R) = R THEN R ELSE Closure[MoreOf(R)]
    BY <2>1, ClosureUnfolds
  <2>3. MoreOf(R) \subseteq P /\ R \subseteq MoreOf(R)
    BY DEF MoreOf
  <2>4. MoreOf(R) # R /\ MoreOf(R) \in Bad
    BY <2>2, <2>3
  <2>5. PICK x \in P \ R : x \notin P \ MoreOf(R)
    BY <2>3, <2>4
  <2>6. P \ MoreOf(R) \subseteq P \ R /\ P \ MoreOf(R) # P \ R
    BY <2>3, <2>5
  <2>7. IsFiniteSet(P \ R)
    BY <1>1, FS_Subset
  <2>8. Cardinality(P \ MoreOf(R)) < Cardinality(P \ R)
    <3>1. /\ Cardinality(P \ MoreOf(R)) <= Cardinality(P \ R)
          /\ Cardinality(P \ MoreOf(R)) # Cardinality(P \ R)
      BY <2>6, <2>7, FS_Subset
    <3>2. Cardinality(P \ MoreOf(R)) \in Nat /\ Cardinality(P \ R) \in Nat
      BY <2>6, <2>7, FS_Subset, FS_CardinalityType
    <3> QED BY ONLY <3>1, <3>2
  <2> QED BY <2>4, <2>8
<1>3. Left \subseteq Nat
  <2>1. \A R \in SUBSET P : Cardinality(P \ R) \in Nat
    BY <1>1, FS_Subset, FS_CardinalityType
  <2> QED BY <2>1
<1>4. Bad = {}
  <2> SUFFICES ASSUME Bad # {} PROVE FALSE
    OBVIOUS
  <2>1. Left # {}
    OBVIOUS
  <2>2. \A l \in Left : \E k \in Left : k < l
    BY <1>2
  <2> HIDE DEF Left
  <2>3. Least(Left) \in Left /\ \A k \in Left : Least(Left) <= k
    BY <1>3, <2>1, LeastOfNaturals
  <2>4. PICK k \in Left : k < Least(Left)
    BY <2>2, <2>3
  <2>5. k \in Nat /\ Least(Left) \in Nat /\ Least(Left) <= k
    BY <1>3, <2>3
  <2> QED BY ONLY <2>4, <2>5
<1>5. {0} \X InitVals \in SUBSET P
  OBVIOUS
<1> QED BY <1>4, <1>5 DEF Reachable

-----------------------------------------------------------------------------
(* States, and the analysis of one block.                                  *)

LEMMA StateFacts ==
  ASSUME NEW c, NEW s \in States(c)
  PROVE  /\ s = [val |-> s.val, exits |-> s.exits]
         /\ s.val \subseteq Value /\ s.val = Hull(s.val)
         /\ s.exits \in ExitsOf(c)
BY DEF States

LEMMA ExitsFacts ==
  ASSUME NEW c, NEW e \in ExitsOf(c)
  PROVE  /\ DOMAIN e \subseteq DOMAIN c
         /\ e \in [DOMAIN e -> SUBSET Value]
BY DEF ExitsOf

LEMMA MakeState ==
  ASSUME NEW c, NEW S, S \subseteq Value, S = Hull(S), NEW e \in ExitsOf(c)
  PROVE  [val |-> S, exits |-> e] \in States(c)
BY DEF States

LEMMA PlainState ==
  ASSUME NEW c, NEW S, S \subseteq Value, S = Hull(S)
  PROVE  /\ Plain(S) \in States(c)
         /\ Plain(S).val = S
         /\ DOMAIN Plain(S).exits = {}
<1>1. NoExits \in [{} -> SUBSET Value] /\ DOMAIN NoExits = {}
  BY DEF NoExits
<1>2. NoExits \in ExitsOf(c)
  BY <1>1 DEF ExitsOf
<1> QED BY <1>1, <1>2, MakeState DEF Plain

LEMMA InsertedFacts ==
  ASSUME FunctionOK(code), NEW b \in Blocks, code[b].cases # << >>, NEW t \in Succ(b)
  PROVE  /\ Inserted(b, t) \subseteq Value
         /\ NoStray(code) => Inserted(b, t) = Condition(code, b, t)
<1> DEFINE J == {j \in DOMAIN code[b].next : code[b].next[j] = t}
           i == Most(J)
<1>1. /\ DOMAIN code[b].next = 1 .. Len(code[b].next) /\ Len(code[b].next) \in Nat
      /\ DOMAIN code[b].cases = 1 .. Len(code[b].cases) /\ Len(code[b].cases) \in Nat
      /\ \A k \in DOMAIN code[b].cases : code[b].cases[k] \subseteq Value
      /\ Len(code[b].next) = Len(code[b].cases) + 1
  BY NextFacts DEF Blocks, Switches
<1>2. J \subseteq 0 .. Len(code[b].next)
  BY <1>1
<1>3. J # {}
  BY DEF Succ, Leads
<1>4. i \in J
  BY <1>1, <1>2, <1>3, MostOfBounded
<1>5. Inserted(b, t) = IF i <= Len(code[b].cases) THEN code[b].cases[i] ELSE Taken(b, i)
  BY <1>3 DEF Inserted
<1>6. i <= Len(code[b].cases) => code[b].cases[i] \subseteq Value
  <2>1. i \in 1 .. Len(code[b].next)
    BY <1>1, <1>4
  <2> HIDE DEF i
  <2> QED BY ONLY <1>1, <2>1
<1>7. Taken(b, i) = BranchTaken(code, b, i)
  BY DEF Taken, BranchTaken
<1>8. ~ (i <= Len(code[b].cases)) => Taken(b, i) \subseteq Value
  BY <1>7 DEF BranchTaken
<1>9. ASSUME NoStray(code) PROVE Inserted(b, t) = Condition(code, b, t)
  <2>1. t \in Leads(code, b)
    BY DEF Succ, Leads
  <2>2. BranchTo(code, b, t) \in J
    BY <2>1, BranchFacts
  <2>3. BranchTo(code, b, t) = i
    BY <1>4, <1>9, <2>2 DEF NoStray, Switches, Blocks
  <2> QED BY <1>5, <1>7, <2>3 DEF Condition
<1> QED BY <1>5, <1>6, <1>8, <1>9

LEMMA PostFacts ==
  ASSUME FunctionOK(code), NEW b \in Blocks, NEW pre \in States(code)
  PROVE  /\ PostOf(b, pre) \in States(code)
         /\ PostOf(b, pre).val = Hull(Through(code, b, pre.val))
         /\ NoStray(code) /\ CarriedBefore(code, b, pre) => CarriedAfter(code, b, PostOf(b, pre))
<1>1. b \in DOMAIN code /\ pre.val \subseteq Value /\ pre.exits \in ExitsOf(code)
  BY StateFacts DEF Blocks
<1>2. CASE pre.val = {}
  <2>1. PostOf(b, pre) = pre
    BY <1>2 DEF PostOf, IsBottom
  <2>2. Through(code, b, pre.val) = {} /\ Hull({}) = {}
    BY <1>2 DEF Through, Hull
  <2> QED BY <1>2, <2>1, <2>2 DEF CarriedBefore, CarriedAfter
<1>3. CASE pre.val # {}
  <2> DEFINE S == Hull(Through(code, b, pre.val))
             e == SwitchInt(b, pre.exits)
  <2>1. PostOf(b, pre) = [val |-> S, exits |-> e]
    BY <1>3 DEF PostOf, IsBottom, Image, Through
  <2>2. S \subseteq Value /\ S = Hull(S)
    BY <1>1, ThroughFacts, HullFacts
  <2>3. Succ(b) = Leads(code, b) /\ Succ(b) \subseteq DOMAIN code
    BY <1>1, NextFacts DEF Succ, Leads
  <2>4. DOMAIN pre.exits \subseteq DOMAIN code /\ pre.exits \in [DOMAIN pre.exits -> SUBSET Value]
    BY <1>1, ExitsFacts
  <2>5. CASE code[b].cases = << >>
    <3>1. e = pre.exits
      BY <2>5 DEF SwitchInt
    <3>2. ~ Switches(code, b)
      BY <2>5 DEF Switches
    <3> HIDE DEF S, e
    <3>3. PostOf(b, pre) \in States(code)
      BY <1>1, <2>1, <2>2, <3>1, MakeState
    <3>4. PostOf(b, pre).val = S /\ PostOf(b, pre).exits = pre.exits
      BY <2>1, <3>1
    <3>5. CarriedBefore(code, b, pre) => CarriedAfter(code, b, PostOf(b, pre))
      BY <3>2, <3>4 DEF CarriedBefore, CarriedAfter
    <3> QED BY <3>3, <3>4, <3>5 DEF S
  <2>6. CASE code[b].cases # << >>
    <3>1. Switches(code, b)
      BY <2>6 DEF Switches
    <3>2. e = [t \in DOMAIN pre.exits \union Succ(b) |->
                 IF t \in Succ(b) THEN Inserted(b, t) ELSE pre.exits[t]]
      BY <2>6 DEF SwitchInt
    <3>3. \A t \in Succ(b) : Inserted(b, t) \subseteq Value
      BY <2>6, InsertedFacts
    <3>4. DOMAIN e = DOMAIN pre.exits \union Succ(b)
      BY <3>2
    <3>5. e \in [DOMAIN pre.exits \union Succ(b) -> SUBSET Value]
      BY <2>4, <3>2, <3>3
    <3>6. e \in ExitsOf(code)
      BY <2>3, <2>4, <3>5 DEF ExitsOf
    <3>7. ASSUME NoStray(code), NEW t \in Succ(b) PROVE t \in DOMAIN e /\ e[t] = Condition(code, b, t)
      BY <2>6, <3>2, <3>4, <3>7, InsertedFacts
    <3> HIDE DEF S, e
    <3>8. PostOf(b, pre) \in States(code) /\ PostOf(b, pre).val = S
      BY <2>1, <2>2, <3>6, MakeState
    <3>9. PostOf(b, pre).exits = e
      BY <2>1
    <3>10. ASSUME NoStray(code), CarriedBefore(code, b, pre)
           PROVE  CarriedAfter(code, b, PostOf(b, pre))
      <4>1. \A t \in DOMAIN e : Carried(code, b, t) \/ t \in Leads(code, b)
        BY <2>3, <3>4, <3>10 DEF CarriedBefore
      <4>2. \A t \in Leads(code, b) : t \in DOMAIN e /\ e[t] = Condition(code, b, t)
        BY <2>3, <3>7, <3>10
      <4> QED BY <3>1, <3>9, <4>1, <4>2 DEF CarriedAfter
    <3> QED BY <3>8, <3>10 DEF S
  <2> QED BY <2>5, <2>6
<1> QED BY <1>2, <1>3

-----------------------------------------------------------------------------
(* The state from the predecessors.                                        *)

KnownStates(c, P) == DOMAIN P \subseteq DOMAIN c /\ P \in [DOMAIN P -> States(c)]

LEMMA RefinedType ==
  ASSUME NEW s \in States(code), NEW b
  PROVE  /\ Refined(s, b) \in States(code)
         /\ Refined(s, b).exits = s.exits
         /\ Refined(s, b).val = IF b \in DOMAIN s.exits THEN Hull(s.val \intersect s.exits[b]) ELSE s.val
<1>1. s = [val |-> s.val, exits |-> s.exits] /\ s.val \subseteq Value /\ s.exits \in ExitsOf(code)
  BY StateFacts
<1>2. CASE b \in DOMAIN s.exits
  <2> DEFINE S == Hull(s.val \intersect s.exits[b])
  <2>1. s.val \intersect s.exits[b] \subseteq Value
    BY <1>1
  <2>2. S \subseteq Value /\ S = Hull(S)
    BY <2>1, HullFacts
  <2>3. Refined(s, b) = [s EXCEPT !.val = S]
    BY <1>2 DEF Refined
  <2> HIDE DEF S
  <2>4. Refined(s, b) = [val |-> S, exits |-> s.exits]
    BY <1>1, <2>3
  <2> QED BY <1>1, <1>2, <2>2, <2>4, MakeState DEF S
<1>3. CASE b \notin DOMAIN s.exits
  BY <1>3 DEF Refined
<1> QED BY <1>2, <1>3

LEMMA RefinedSays ==
  ASSUME FunctionOK(code), NoStray(code), NEW u \in Blocks, NEW s \in States(code),
         CarriedAfter(code, u, s), NEW b \in Leads(code, u)
  PROVE  /\ Refined(s, b).val = Say(code, u, b, s.val)
         /\ CarriedBefore(code, b, Refined(s, b))
<1>0. u \in DOMAIN code /\ b \in DOMAIN code
  BY NextFacts DEF Blocks
<1>1. Refined(s, b).exits = s.exits
  BY RefinedType
<1>2. Refined(s, b).val = IF b \in DOMAIN s.exits THEN Hull(s.val \intersect s.exits[b]) ELSE s.val
  BY RefinedType
<1>3. ASSUME Switches(code, u) PROVE Refined(s, b).val = Say(code, u, b, s.val)
  <2>1. Say(code, u, b, s.val) = Hull(s.val \intersect Condition(code, u, b))
    BY <1>3 DEF Say
  <2>2. CASE s.val = {}
    <3>1. s.val \intersect Condition(code, u, b) = {} /\ \A E : s.val \intersect E = {}
      BY <2>2
    <3>2. Hull({}) = {}
      BY DEF Hull
    <3> QED BY <1>2, <2>1, <2>2, <3>1, <3>2
  <2>3. CASE s.val # {}
    <3>1. b \in DOMAIN s.exits /\ s.exits[b] = Condition(code, u, b)
      BY <1>3, <2>3 DEF CarriedAfter
    <3> QED BY <1>2, <2>1, <3>1
  <2> QED BY <2>2, <2>3
<1>4. ASSUME ~ Switches(code, u) PROVE Refined(s, b).val = Say(code, u, b, s.val)
  <2>1. b \notin DOMAIN s.exits
    <3> SUFFICES ASSUME b \in DOMAIN s.exits PROVE FALSE
      OBVIOUS
    <3>1. Carried(code, u, b)
      BY <1>4 DEF CarriedAfter
    <3>2. PICK w \in DOMAIN code : /\ Switches(code, w) /\ b \in Leads(code, w)
                                   /\ u \in From(code, Leads(code, w), DOMAIN code)
      BY <3>1 DEF Carried
    <3>3. u # w
      BY <1>4, <3>2
    <3> QED BY <3>2, <3>3 DEF NoStray
  <2> QED BY <1>2, <1>4, <2>1 DEF Say
<1>5. ASSUME NEW t \in DOMAIN s.exits PROVE Carried(code, b, t)
  <2>1. CASE Carried(code, u, t)
    <3>1. PICK w \in DOMAIN code : /\ Switches(code, w) /\ t \in Leads(code, w)
                                   /\ u \in From(code, Leads(code, w), DOMAIN code)
      BY <2>1 DEF Carried
    <3>2. b \in From(code, Leads(code, w), DOMAIN code)
      BY <1>0, <3>1, FromFacts
    <3> QED BY <3>1, <3>2 DEF Carried
  <2>2. CASE Switches(code, u) /\ t \in Leads(code, u)
    <3>1. b \in From(code, Leads(code, u), DOMAIN code)
      BY <1>0, FromFacts
    <3> QED BY <1>0, <2>2, <3>1 DEF Carried
  <2> QED BY <2>1, <2>2 DEF CarriedAfter
<1> QED BY <1>1, <1>3, <1>4, <1>5 DEF CarriedBefore

LEMMA EdgeFacts ==
  ASSUME NEW b
  PROVE  /\ \A e \in EdgesInto(b) : e[1] \in DOMAIN post /\ b \in Leads(code, e[1])
         /\ \A u \in DOMAIN post : b \in Leads(code, u) => \E e \in EdgesInto(b) : e[1] = u
<1>1. ASSUME NEW e \in EdgesInto(b) PROVE e[1] \in DOMAIN post /\ b \in Leads(code, e[1])
  <2>1. PICK u \in DOMAIN post : e \in {<<u, i>> : i \in {i \in DOMAIN code[u].next : code[u].next[i] = b}}
    BY DEF EdgesInto
  <2>2. PICK i \in DOMAIN code[u].next : e = <<u, i>> /\ code[u].next[i] = b
    BY <2>1
  <2> QED BY <2>2 DEF Leads
<1>2. ASSUME NEW u \in DOMAIN post, b \in Leads(code, u) PROVE \E e \in EdgesInto(b) : e[1] = u
  <2>1. PICK i \in DOMAIN code[u].next : code[u].next[i] = b
    BY <1>2 DEF Leads
  <2>2. <<u, i>> \in EdgesInto(b)
    BY <2>1 DEF EdgesInto
  <2> QED BY <2>2
<1> QED BY <1>1, <1>2

LEMMA PredType ==
  ASSUME KnownStates(code, post), NEW b
  PROVE  /\ FromPredecessors(b) \in States(code)
         /\ \A e \in EdgesInto(b) : Refined(post[e[1]], b).val \subseteq FromPredecessors(b).val
         /\ \A T \in SUBSET Value :
              T = Hull(T) /\ (\A e \in EdgesInto(b) : Refined(post[e[1]], b).val \subseteq T)
                => FromPredecessors(b).val \subseteq T
         /\ \/ \E e \in EdgesInto(b) : FromPredecessors(b) = Refined(post[e[1]], b)
            \/ DOMAIN FromPredecessors(b).exits = {}
<1> DEFINE states == {Refined(post[e[1]], b) : e \in EdgesInto(b)}
           all == UNION {s.val : s \in states}
<1>1. ASSUME NEW e \in EdgesInto(b)
      PROVE  Refined(post[e[1]], b) \in States(code) /\ Refined(post[e[1]], b).val \subseteq Value
  <2>1. post[e[1]] \in States(code)
    BY EdgeFacts DEF KnownStates
  <2> QED BY <2>1, RefinedType, StateFacts
<1>2. CASE \E e \in EdgesInto(b) : EdgesInto(b) = {e}
  <2>1. PICK e \in EdgesInto(b) : EdgesInto(b) = {e}
    BY <1>2
  <2>2. states = {Refined(post[e[1]], b)}
    BY <2>1
  <2>3. FromPredecessors(b) = CHOOSE s \in states : TRUE
    BY <1>2 DEF FromPredecessors
  <2> HIDE DEF states
  <2>4. FromPredecessors(b) = Refined(post[e[1]], b)
    BY <2>2, <2>3
  <2> QED BY <1>1, <2>1, <2>4
<1>3. CASE ~ \E e \in EdgesInto(b) : EdgesInto(b) = {e}
  <2>1. FromPredecessors(b) = Plain(Hull(all))
    BY <1>3 DEF FromPredecessors
  <2>2. all \subseteq Value
    BY <1>1
  <2>3. \A e \in EdgesInto(b) : Refined(post[e[1]], b).val \subseteq all
    OBVIOUS
  <2>4. \A T : (\A e \in EdgesInto(b) : Refined(post[e[1]], b).val \subseteq T) => all \subseteq T
    OBVIOUS
  <2> HIDE DEF all
  <2>5. Hull(all) \subseteq Value /\ Hull(all) = Hull(Hull(all)) /\ all \subseteq Hull(all)
    BY <2>2, HullFacts
  <2>6. /\ FromPredecessors(b) \in States(code)
        /\ FromPredecessors(b).val = Hull(all)
        /\ DOMAIN FromPredecessors(b).exits = {}
    BY <2>1, <2>5, PlainState
  <2>7. ASSUME NEW T \in SUBSET Value, T = Hull(T),
               \A e \in EdgesInto(b) : Refined(post[e[1]], b).val \subseteq T
        PROVE  Hull(all) \subseteq T
    BY <2>4, <2>7, HullWithin
  <2> QED BY <2>3, <2>5, <2>6, <2>7
<1> QED BY <1>2, <1>3

LEMMA PredFacts ==
  ASSUME FunctionOK(code), NoStray(code), KnownStates(code, post), AllCarried(code, post), NEW b
  PROVE  Gathers(code, post, b, FromPredecessors(b))
<1>1. ASSUME NEW e \in EdgesInto(b)
      PROVE  /\ Refined(post[e[1]], b).val = Say(code, e[1], b, post[e[1]].val)
             /\ CarriedBefore(code, b, Refined(post[e[1]], b))
  <2>1. /\ e[1] \in DOMAIN post /\ e[1] \in Blocks /\ b \in Leads(code, e[1])
        /\ post[e[1]] \in States(code)
    BY EdgeFacts DEF KnownStates, Blocks
  <2>2. CarriedAfter(code, e[1], post[e[1]])
    BY <2>1 DEF AllCarried
  <2> QED BY <2>1, <2>2, RefinedSays
<1>2. FromPredecessors(b) \in States(code)
  BY PredType
<1>3. ASSUME NEW u \in DOMAIN post, b \in Leads(code, u)
      PROVE  Say(code, u, b, post[u].val) \subseteq FromPredecessors(b).val
  <2>1. PICK e \in EdgesInto(b) : e[1] = u
    BY <1>3, EdgeFacts
  <2> QED BY <1>1, <2>1, PredType
<1>4. ASSUME NEW T \in SUBSET Value, T = Hull(T),
             \A u \in DOMAIN post : b \in Leads(code, u) => Say(code, u, b, post[u].val) \subseteq T
      PROVE  FromPredecessors(b).val \subseteq T
  <2>1. \A e \in EdgesInto(b) : Refined(post[e[1]], b).val \subseteq T
    BY <1>1, <1>4, EdgeFacts
  <2> QED BY <1>4, <2>1, PredType
<1>5. CarriedBefore(code, b, FromPredecessors(b))
  <2>1. CASE \E e \in EdgesInto(b) : FromPredecessors(b) = Refined(post[e[1]], b)
    BY <1>1, <2>1
  <2>2. CASE DOMAIN FromPredecessors(b).exits = {}
    BY <2>2 DEF CarriedBefore
  <2> QED BY <2>1, <2>2, PredType
<1> QED BY <1>2, <1>3, <1>4, <1>5 DEF Gathers

-----------------------------------------------------------------------------
(* The post conditions, place by place.                                    *)

Put(P, b, s) == [d \in DOMAIN P \union {b} |-> IF d = b THEN s ELSE P[d]]

LEMMA PutFacts ==
  ASSUME NEW c, NEW o, OrderOK(c, o), NEW P, Placed(c, o, P), NEW x \in DOMAIN o,
         NEW s \in States(c)
  PROVE  LET Q == Put(P, o[x].block, s)
         IN /\ Placed(c, o, Q)
            /\ \A i \in DOMAIN o : Has(o, Q, i) <=> i = x \/ Has(o, P, i)
            /\ Q[o[x].block] = s
            /\ \A i \in DOMAIN o : i # x /\ Has(o, P, i) => Q[o[i].block] = P[o[i].block]
<1> DEFINE Q == Put(P, o[x].block, s)
<1>1. /\ DOMAIN Q = DOMAIN P \union {o[x].block}
      /\ \A d \in DOMAIN Q : Q[d] = IF d = o[x].block THEN s ELSE P[d]
  BY DEF Put
<1>2. Q \in [DOMAIN Q -> States(c)]
  BY <1>1 DEF Placed, Put
<1>3. \A i \in DOMAIN o : o[i].block = o[x].block => i = x
  BY DEF OrderOK
<1> HIDE DEF Q
<1>4. Placed(c, o, Q)
  BY <1>1, <1>2 DEF Placed
<1>5. \A i \in DOMAIN o : Has(o, Q, i) <=> i = x \/ Has(o, P, i)
  BY <1>1, <1>3 DEF Has
<1>6. Q[o[x].block] = s
  BY <1>1
<1>7. \A i \in DOMAIN o : i # x /\ Has(o, P, i) => Q[o[i].block] = P[o[i].block]
  BY <1>1, <1>3 DEF Has
<1> QED BY <1>4, <1>5, <1>6, <1>7 DEF Q

LEMMA PostAtPlace ==
  ASSUME NEW c, NEW o, OrderOK(c, o), NEW P, Placed(c, o, P), NEW i \in DOMAIN o, Has(o, P, i)
  PROVE  /\ P[o[i].block] \in States(c)
         /\ P[o[i].block].val \subseteq Value /\ P[o[i].block].val = Hull(P[o[i].block].val)
<1>1. P[o[i].block] \in States(c)
  BY DEF Placed, Has
<1> QED BY <1>1, StateFacts

LEMMA SaysToType ==
  ASSUME NEW c, FunctionOK(c), NEW o, OrderOK(c, o), NEW P, Placed(c, o, P),
         NEW i \in DOMAIN o, NEW j \in DOMAIN o, Has(o, P, i), Edge(c, o, i, j)
  PROVE  SaysTo(c, o, P, i, j) \subseteq Value
<1>1. o[i].block \in DOMAIN c /\ o[j].block \in Leads(c, o[i].block)
  BY PlaceFacts DEF Edge
<1>2. P[o[i].block].val \subseteq Value /\ P[o[i].block].val = Hull(P[o[i].block].val)
  BY PostAtPlace
<1>3. Say(c, o[i].block, o[j].block, P[o[i].block].val) \subseteq P[o[i].block].val
  BY <1>1, <1>2, SayFacts
<1> QED BY <1>2, <1>3 DEF SaysTo

(* All that the blocks before x say of it is in S.                         *)
Heard(c, o, P, x, S) ==
  \A i \in DOMAIN o : Has(o, P, i) /\ Edge(c, o, i, x) => SaysTo(c, o, P, i, x) \subseteq S

LEMMA GathersAtPlace ==
  ASSUME NEW c, NEW o, NEW P, Placed(c, o, P), NEW x \in DOMAIN o, NEW s,
         Gathers(c, P, o[x].block, s)
  PROVE  /\ Heard(c, o, P, x, s.val)
         /\ \A T \in SUBSET Value : T = Hull(T) /\ Heard(c, o, P, x, T) => s.val \subseteq T
<1>1. Heard(c, o, P, x, s.val)
  BY DEF Gathers, Heard, Has, Edge, SaysTo
<1>2. ASSUME NEW T \in SUBSET Value, T = Hull(T), Heard(c, o, P, x, T)
      PROVE  s.val \subseteq T
  <2>1. ASSUME NEW u \in DOMAIN P, o[x].block \in Leads(c, u)
        PROVE  Say(c, u, o[x].block, P[u].val) \subseteq T
    <3>1. PICK i \in DOMAIN o : o[i].block = u
      BY DEF Placed
    <3> QED BY <1>2, <2>1, <3>1 DEF Heard, Has, Edge, SaysTo
  <2> QED BY <1>2, <2>1 DEF Gathers
<1> QED BY <1>1, <1>2

(* What a block is told stays allowed for when it is analysed with it.     *)
LEMMA HeardIsCovered ==
  ASSUME NEW c, NEW b, NEW S, S \subseteq Value, FunctionOK(c), b \in DOMAIN c, NEW T, T \subseteq S
  PROVE  Through(c, b, T) \subseteq Hull(Through(c, b, S))
<1>1. Through(c, b, T) \subseteq Through(c, b, S)
  BY DEF Through
<1>2. Through(c, b, S) \subseteq Hull(Through(c, b, S))
  BY ThroughFacts, HullFacts
<1> QED BY <1>1, <1>2

(* If what a block is told was allowed for, its post condition shrinks.    *)
LEMMA AnalysedAgain ==
  ASSUME NEW c, FunctionOK(c), NEW o, OrderOK(c, o), NEW P, Placed(c, o, P),
         NEW x \in DOMAIN o, Has(o, P, x), NEW s, Gathers(c, P, o[x].block, s),
         \A i \in DOMAIN o : Has(o, P, i) /\ Edge(c, o, i, x) => Covers(c, o, P, i, x)
  PROVE  Hull(Through(c, o[x].block, s.val)) \subseteq P[o[x].block].val
<1> DEFINE b == o[x].block
           V == P[o[x].block].val
           W == {v \in Value : Changed(c[b].does, v) \in V}
<1>1. b \in DOMAIN c
  BY PlaceFacts
<1>2. V \subseteq Value /\ V = Hull(V)
  BY PostAtPlace
<1>3. W = Hull(W)
  BY <1>1, <1>2, PreimageOfInterval
<1>4. Heard(c, o, P, x, W)
  <2> SUFFICES ASSUME NEW i \in DOMAIN o, Has(o, P, i), Edge(c, o, i, x)
               PROVE  SaysTo(c, o, P, i, x) \subseteq W
    BY DEF Heard
  <2>1. SaysTo(c, o, P, i, x) \subseteq Value
    BY SaysToType
  <2>2. Through(c, b, SaysTo(c, o, P, i, x)) \subseteq V
    BY DEF Covers
  <2> QED BY <2>1, <2>2 DEF Through
<1>5. W \in SUBSET Value
  OBVIOUS
<1> HIDE DEF W
<1>6. s.val \subseteq W
  BY <1>3, <1>4, <1>5, GathersAtPlace
<1>7. Through(c, b, s.val) \subseteq V
  BY <1>6 DEF W, Through
<1> QED BY <1>2, <1>7, HullWithin

(* The post condition of one block shrinks: what it says does, and what    *)
(* was allowed for elsewhere still is.                                     *)
LEMMA ShrinkKeeps ==
  ASSUME NEW c, FunctionOK(c), NEW o, OrderOK(c, o), NEW P, Placed(c, o, P),
         NEW x \in DOMAIN o, Has(o, P, x), NEW s \in States(c), s.val \subseteq P[o[x].block].val
  PROVE  LET Q == Put(P, o[x].block, s)
         IN \A i, j \in DOMAIN o :
              Has(o, P, i) => /\ SaysTo(c, o, Q, i, j) \subseteq SaysTo(c, o, P, i, j)
                              /\ j # x /\ Has(o, P, j) /\ Covers(c, o, P, i, j) => Covers(c, o, Q, i, j)
<1> DEFINE Q == Put(P, o[x].block, s)
<1>0. /\ Q[o[x].block] = s
      /\ \A i \in DOMAIN o : i # x /\ Has(o, P, i) => Q[o[i].block] = P[o[i].block]
  BY PutFacts
<1> HIDE DEF Q
<1>1. ASSUME NEW i \in DOMAIN o, NEW j \in DOMAIN o, Has(o, P, i)
      PROVE  SaysTo(c, o, Q, i, j) \subseteq SaysTo(c, o, P, i, j)
  <2>1. CASE i # x
    BY <1>0, <1>1, <2>1 DEF SaysTo
  <2>2. CASE i = x
    <3>1. P[o[x].block].val \subseteq Value
      BY PostAtPlace
    <3> QED BY <1>0, <2>2, <3>1, SayMonotone DEF SaysTo
  <2> QED BY <2>1, <2>2
<1>2. ASSUME NEW i \in DOMAIN o, NEW j \in DOMAIN o, Has(o, P, i), j # x, Has(o, P, j),
             Covers(c, o, P, i, j)
      PROVE  Covers(c, o, Q, i, j)
  <2>1. SaysTo(c, o, Q, i, j) \subseteq SaysTo(c, o, P, i, j)
    BY <1>1, <1>2
  <2>2. Through(c, o[j].block, SaysTo(c, o, Q, i, j)) \subseteq Through(c, o[j].block, SaysTo(c, o, P, i, j))
    BY <2>1 DEF Through
  <2>3. Q[o[j].block] = P[o[j].block]
    BY <1>0, <1>2
  <2> QED BY <1>2, <2>2, <2>3 DEF Covers
<1> QED BY <1>1, <1>2 DEF Q

-----------------------------------------------------------------------------
(* The active circles.                                                     *)

AllButLast(A) == SubSeq(A, 1, Len(A) - 1)
Renewed(A, r) == Append(AllButLast(A), r)

LEMMA AppendFacts ==
  ASSUME NEW S, NEW A \in Seq(S), NEW r \in S
  PROVE  /\ Append(A, r) \in Seq(S)
         /\ DOMAIN Append(A, r) = 1 .. Len(A) + 1
         /\ Append(A, r)[Len(A) + 1] = r
         /\ \A k \in DOMAIN A : Append(A, r)[k] = A[k]
         /\ DOMAIN A = 1 .. Len(A) /\ Len(A) \in Nat
BY AppendProperties

LEMMA AllButLastFacts ==
  ASSUME NEW S, NEW A \in Seq(S), A # << >>
  PROVE  /\ AllButLast(A) \in Seq(S)
         /\ DOMAIN AllButLast(A) = 1 .. Len(A) - 1 /\ Len(AllButLast(A)) = Len(A) - 1
         /\ \A k \in 1 .. Len(A) - 1 : AllButLast(A)[k] = A[k]
         /\ DOMAIN A = 1 .. Len(A) /\ Len(A) \in Nat \ {0}
<1>1. Len(A) \in Nat \ {0} /\ DOMAIN A = 1 .. Len(A)
  BY EmptySeq
<1>2. \A k \in 1 .. Len(A) - 1 : k \in 1 .. Len(A)
  BY <1>1
<1>3. \A k \in 1 .. Len(A) - 1 : A[k] \in S
  BY <1>2, ElementOfSeq
<1>4. /\ AllButLast(A) \in Seq(S)
      /\ Len(AllButLast(A)) = Len(A) - 1
      /\ \A k \in 1 .. Len(A) - 1 : AllButLast(A)[k] = A[k]
  BY <1>1, <1>3, SubSeqProperties DEF AllButLast
<1>5. DOMAIN AllButLast(A) = 1 .. Len(A) - 1
  BY <1>4
<1> QED BY <1>1, <1>4, <1>5

LEMMA RenewedFacts ==
  ASSUME NEW S, NEW A \in Seq(S), A # << >>, NEW r \in S
  PROVE  /\ Renewed(A, r) \in Seq(S)
         /\ DOMAIN Renewed(A, r) = DOMAIN A
         /\ Renewed(A, r)[Len(A)] = r
         /\ \A k \in DOMAIN A : k # Len(A) => Renewed(A, r)[k] = A[k]
<1>1. /\ AllButLast(A) \in Seq(S)
      /\ DOMAIN AllButLast(A) = 1 .. Len(A) - 1 /\ Len(AllButLast(A)) = Len(A) - 1
      /\ \A k \in 1 .. Len(A) - 1 : AllButLast(A)[k] = A[k]
      /\ DOMAIN A = 1 .. Len(A) /\ Len(A) \in Nat \ {0}
  BY AllButLastFacts
<1>2. /\ Renewed(A, r) \in Seq(S)
      /\ DOMAIN Renewed(A, r) = 1 .. Len(AllButLast(A)) + 1
      /\ Renewed(A, r)[Len(AllButLast(A)) + 1] = r
      /\ \A k \in DOMAIN AllButLast(A) : Renewed(A, r)[k] = AllButLast(A)[k]
  BY <1>1, AppendFacts DEF Renewed
<1>3. (Len(A) - 1) + 1 = Len(A) /\ \A k \in 1 .. Len(A) : k # Len(A) => k \in 1 .. Len(A) - 1
  BY <1>1
<1> QED BY <1>1, <1>2, <1>3

LEMMA CircleFacts ==
  ASSUME NEW c, NEW o, OrderOK(c, o), NEW A \in Seq(Circles(c, o))
  PROVE  /\ DOMAIN A = 1 .. Len(A) /\ Len(A) \in Nat
         /\ A # << >> => Len(A) \in DOMAIN A
         /\ \A k \in DOMAIN A :
              /\ A[k] \in Circles(c, o)
              /\ A[k].at \in Loops(o) /\ A[k].at \in DOMAIN o /\ A[k].at \in Nat \ {0}
              /\ o[A[k].at].loop /\ o[A[k].at].size \in Nat
              /\ A[k].pre \in States(c) /\ A[k].narrowing \in BOOLEAN /\ A[k].round \in Nat
<1>1. DOMAIN A = 1 .. Len(A) /\ Len(A) \in Nat /\ (A # << >> => Len(A) \in DOMAIN A)
  BY EmptySeq
<1>2. ASSUME NEW k \in DOMAIN A
      PROVE  A[k] \in Circles(c, o)
  BY <1>1, ElementOfSeq
<1>3. \A k \in DOMAIN A : /\ A[k].at \in Loops(o) /\ A[k].pre \in States(c)
                          /\ A[k].narrowing \in BOOLEAN /\ A[k].round \in Nat
  BY <1>2 DEF Circles
<1>4. \A i \in Loops(o) : i \in DOMAIN o /\ o[i].loop /\ o[i].size \in Nat /\ i \in Nat \ {0}
  BY PlaceFacts DEF Loops
<1> QED BY <1>1, <1>2, <1>3, <1>4

(* The place that is visited, and what is left of the innermost circle.    *)
Open(o, p, A) == p \in DOMAIN o /\ (A # << >> => p \in Within(o, A[Len(A)].at))
Ended(o, p, A) == A # << >> /\ p = A[Len(A)].at + o[A[Len(A)].at].size + 1

LEMMA OpenEverywhere ==
  ASSUME NEW c, NEW o, OrderOK(c, o), NEW A \in Seq(Circles(c, o)), NEW p, Around(o, p, A),
         Open(o, p, A), NEW k \in DOMAIN A
  PROVE  p \in Within(o, A[k].at) /\ A[k].at < p /\ A[k].at # p
<1> DEFINE n == Len(A)
<1>1. n \in DOMAIN A /\ k \in 1 .. n /\ n \in Nat
  BY CircleFacts
<1>2. p \in Within(o, A[n].at)
  BY <1>1 DEF Open
<1>3. k = n \/ k < n
  BY <1>1
<1>4. CASE k = n
  BY <1>2, <1>4, CircleFacts, PlaceFacts DEF Around, Open
<1>5. CASE k < n
  <2>1. A[k].at < A[n].at /\ A[n].at \in Within(o, A[k].at)
    BY <1>1, <1>5 DEF Around
  <2>2. A[k].at \in DOMAIN o /\ A[n].at \in DOMAIN o
    BY <1>1, CircleFacts
  <2>3. A[n].at + o[A[n].at].size <= A[k].at + o[A[k].at].size
    BY <2>1, <2>2 DEF OrderOK
  <2>4. /\ A[k].at \in Nat /\ A[n].at \in Nat
        /\ o[A[k].at].size \in Nat /\ o[A[n].at].size \in Nat
    BY <1>1, CircleFacts
  <2> QED BY <1>2, <2>1, <2>3, <2>4 DEF Within
<1> QED BY <1>3, <1>4, <1>5

(* The circle of the innermost record is the latest.                       *)
LEMMA InnermostIsLast ==
  ASSUME NEW c, NEW o, OrderOK(c, o), NEW A \in Seq(Circles(c, o)), A # << >>, NEW p,
         Around(o, p, A), NEW k \in DOMAIN A, k # Len(A)
  PROVE  k < Len(A) /\ A[k].at < A[Len(A)].at /\ A[Len(A)].at \in Within(o, A[k].at)
<1>1. Len(A) \in DOMAIN A /\ k \in 1 .. Len(A) /\ Len(A) \in Nat
  BY CircleFacts
<1>2. k < Len(A)
  BY <1>1
<1> QED BY <1>1, <1>2 DEF Around

-----------------------------------------------------------------------------
(* The circles around the place stay the active ones.                      *)

LEMMA AroundVertex ==
  ASSUME NEW c, NEW o, OrderOK(c, o), NEW A \in Seq(Circles(c, o)), NEW p, Around(o, p, A),
         Open(o, p, A), ~ o[p].loop
  PROVE  Around(o, p + 1, A)
<1>1. p \in DOMAIN o /\ p \in Nat
  BY PlaceFacts DEF Open
<1>2. ASSUME NEW k \in DOMAIN A PROVE A[k].at < p + 1 /\ p + 1 <= A[k].at + o[A[k].at].size + 1
  <2>1. p \in Within(o, A[k].at) /\ A[k].at < p
    BY OpenEverywhere
  <2>2. A[k].at \in Nat /\ o[A[k].at].size \in Nat
    BY CircleFacts
  <2> QED BY <1>1, <2>1, <2>2 DEF Within
<1>3. ASSUME NEW i \in Loops(o), i < p + 1, p + 1 \in Within(o, i)
      PROVE  \E k \in DOMAIN A : A[k].at = i
  <2>1. i \in DOMAIN o /\ o[i].loop /\ i \in Nat /\ o[i].size \in Nat
    BY PlaceFacts DEF Loops
  <2>2. i # p
    BY <2>1
  <2>3. i < p /\ p \in Within(o, i)
    BY <1>1, <1>3, <2>1, <2>2 DEF Within
  <2> QED BY <2>3 DEF Around
<1> QED BY <1>2, <1>3 DEF Around

LEMMA AroundCircle ==
  ASSUME NEW c, NEW o, OrderOK(c, o), NEW A \in Seq(Circles(c, o)), NEW p, Around(o, p, A),
         Open(o, p, A), o[p].loop, NEW r \in Circles(c, o), r.at = p
  PROVE  Around(o, p + 1, Append(A, r))
<1> DEFINE B == Append(A, r)
           n == Len(A) + 1
<1>1. p \in DOMAIN o /\ p \in Nat /\ o[p].size \in Nat
  BY PlaceFacts DEF Open
<1>2. /\ DOMAIN B = 1 .. n /\ B[n].at = p /\ \A k \in DOMAIN A : B[k] = A[k]
      /\ DOMAIN A = 1 .. Len(A) /\ Len(A) \in Nat
  BY AppendFacts
<1> HIDE DEF B
<1>3. \A k \in DOMAIN B : k = n \/ k \in DOMAIN A
  BY <1>2
<1>4. \A k \in DOMAIN A : k # n /\ k < n /\ k \in DOMAIN B
  BY <1>2
<1>5. ASSUME NEW k \in DOMAIN A
      PROVE  A[k].at < p /\ p \in Within(o, A[k].at) /\ A[k].at \in Nat /\ o[A[k].at].size \in Nat
  BY OpenEverywhere, CircleFacts
<1>6. ASSUME NEW k \in DOMAIN B PROVE B[k].at < p + 1 /\ p + 1 <= B[k].at + o[B[k].at].size + 1
  <2>1. CASE k = n
    BY <1>1, <1>2, <2>1
  <2>2. CASE k \in DOMAIN A
    <3>1. B[k] = A[k]
      BY <1>2, <2>2
    <3> QED BY <1>1, <1>5, <2>2, <3>1 DEF Within
  <2> QED BY <1>3, <2>1, <2>2
<1>7. ASSUME NEW j \in DOMAIN B, NEW k \in DOMAIN B, j < k
      PROVE  B[j].at < B[k].at /\ B[k].at \in Within(o, B[j].at)
  <2>1. j \in DOMAIN A /\ B[j] = A[j]
    BY <1>2, <1>7
  <2>2. CASE k = n
    BY <1>2, <1>5, <2>1, <2>2
  <2>3. CASE k \in DOMAIN A
    BY <1>2, <1>7, <2>1, <2>3 DEF Around
  <2> QED BY <1>3, <2>2, <2>3
<1>8. ASSUME NEW i \in Loops(o), i < p + 1, p + 1 \in Within(o, i)
      PROVE  \E k \in DOMAIN B : B[k].at = i
  <2>1. i \in DOMAIN o /\ o[i].loop /\ i \in Nat /\ o[i].size \in Nat
    BY PlaceFacts DEF Loops
  <2>2. CASE i = p
    BY <1>2, <2>2
  <2>3. CASE i # p
    <3>1. i < p /\ p \in Within(o, i)
      BY <1>1, <1>8, <2>1, <2>3 DEF Within
    <3>2. PICK k \in DOMAIN A : A[k].at = i
      BY <3>1 DEF Around
    <3> QED BY <1>2, <1>4, <3>2
  <2> QED BY <2>2, <2>3
<1>9. ASSUME NEW k \in DOMAIN B, NEW i \in Loops(o), i < B[k].at, B[k].at \in Within(o, i)
      PROVE  \E j \in DOMAIN B : B[j].at = i
  <2>1. \E j \in DOMAIN A : A[j].at = i
    <3>1. CASE k = n
      BY <1>2, <1>9, <3>1 DEF Around
    <3>2. CASE k \in DOMAIN A
      BY <1>2, <1>9, <3>2 DEF Around
    <3> QED BY <1>3, <3>1, <3>2
  <2> QED BY <1>2, <1>4, <2>1
<1> QED BY <1>6, <1>7, <1>8, <1>9 DEF Around, B

LEMMA AroundAgain ==
  ASSUME NEW c, NEW o, OrderOK(c, o), NEW A \in Seq(Circles(c, o)), NEW p, Around(o, p, A),
         Ended(o, p, A), NEW r \in Circles(c, o), r.at = A[Len(A)].at
  PROVE  Around(o, r.at + 1, Renewed(A, r))
<1> DEFINE B == Renewed(A, r)
           n == Len(A)
           x == A[n].at
<1>0. A # << >>
  BY DEF Ended
<1>1. DOMAIN B = DOMAIN A /\ B[n] = r /\ \A k \in DOMAIN A : k # n => B[k] = A[k]
  BY <1>0, RenewedFacts
<1> HIDE DEF B
<1>2. \A k \in DOMAIN A : B[k].at = A[k].at
  BY <1>1
<1>3. n \in DOMAIN A /\ x \in Nat /\ x \in DOMAIN o /\ o[x].size \in Nat
  BY <1>0, CircleFacts
<1> HIDE DEF x, n
<1>4. ASSUME NEW k \in DOMAIN A PROVE A[k].at < x + 1 /\ x + 1 <= A[k].at + o[A[k].at].size + 1
  <2>1. A[k].at \in Nat /\ o[A[k].at].size \in Nat
    BY CircleFacts
  <2>2. CASE k = n
    BY <1>3, <2>1, <2>2 DEF x
  <2>3. CASE k # n
    <3>1. A[k].at < x /\ x \in Within(o, A[k].at)
      BY <1>0, <2>3, InnermostIsLast DEF x, n
    <3> QED BY <1>3, <2>1, <3>1 DEF Within
  <2> QED BY <2>2, <2>3
<1>5. ASSUME NEW i \in Loops(o), i < x + 1, x + 1 \in Within(o, i)
      PROVE  \E k \in DOMAIN A : A[k].at = i
  <2>1. i \in DOMAIN o /\ i \in Nat /\ o[i].size \in Nat
    BY PlaceFacts DEF Loops
  <2>2. CASE i = x
    BY <1>3, <2>2 DEF x
  <2>3. CASE i # x
    <3>1. i < x /\ x \in Within(o, i)
      BY <1>3, <1>5, <2>1, <2>3 DEF Within
    <3> QED BY <1>3, <3>1 DEF Around, x
  <2> QED BY <2>2, <2>3
<1>6. r.at = x
  BY DEF x, n
<1> QED BY <1>1, <1>2, <1>4, <1>5, <1>6 DEF Around, B

LEMMA AroundLeft ==
  ASSUME NEW c, NEW o, OrderOK(c, o), NEW A \in Seq(Circles(c, o)), NEW p, Around(o, p, A),
         Ended(o, p, A)
  PROVE  Around(o, p, AllButLast(A))
<1> DEFINE B == AllButLast(A)
           n == Len(A)
<1>0. A # << >>
  BY DEF Ended
<1>1. /\ DOMAIN B = 1 .. n - 1 /\ n \in Nat \ {0} /\ DOMAIN A = 1 .. n
      /\ \A k \in 1 .. n - 1 : B[k] = A[k]
  BY <1>0, AllButLastFacts
<1> HIDE DEF B
<1>2. \A k \in DOMAIN B : k \in DOMAIN A /\ B[k] = A[k] /\ k # n /\ k < n
  BY <1>1
<1>3. \A k \in DOMAIN A : k # n => k \in DOMAIN B
  BY <1>1
<1>4. ASSUME NEW i \in Loops(o), i < p, p \in Within(o, i)
      PROVE  \E k \in DOMAIN B : B[k].at = i
  <2>1. PICK k \in DOMAIN A : A[k].at = i
    BY <1>4 DEF Around
  <2>2. k # n
    BY <1>4, <2>1, CircleFacts DEF Ended, Within
  <2> QED BY <1>2, <1>3, <2>1, <2>2
<1>5. ASSUME NEW k \in DOMAIN B, NEW i \in Loops(o), i < B[k].at, B[k].at \in Within(o, i)
      PROVE  \E j \in DOMAIN B : B[j].at = i
  <2>1. PICK j \in DOMAIN A : A[j].at = i
    BY <1>2, <1>5 DEF Around
  <2>2. j # n
    <3>1. A[k].at < A[n].at
      BY <1>0, <1>2, InnermostIsLast
    <3>2. k \in DOMAIN A /\ B[k] = A[k] /\ n \in DOMAIN A
      BY <1>0, <1>2, CircleFacts
    <3>3. A[k].at \in Nat /\ A[n].at \in Nat
      BY <3>2, CircleFacts
    <3> QED BY <1>5, <2>1, <3>1, <3>2, <3>3
  <2> QED BY <1>2, <1>3, <2>1, <2>2
<1>6. \A k \in DOMAIN B : B[k].at < p /\ p <= B[k].at + o[B[k].at].size + 1
  BY <1>2 DEF Around
<1>7. \A j, k \in DOMAIN B : j < k => B[j].at < B[k].at /\ B[k].at \in Within(o, B[j].at)
  BY <1>2 DEF Around
<1> QED BY <1>4, <1>5, <1>6, <1>7 DEF Around, B

-----------------------------------------------------------------------------
(* What is allowed for stays so: when a place is visited, when the head of *)
(* the innermost circle is analysed again, and when the circle is left.    *)

Analysed(c, o, x, pre, s) ==
  /\ pre \in States(c) /\ CarriedBefore(c, o[x].block, pre)
  /\ s \in States(c) /\ CarriedAfter(c, o[x].block, s)
  /\ s.val = Hull(Through(c, o[x].block, pre.val))

LEMMA AnalysedCovers ==
  ASSUME NEW c, FunctionOK(c), NEW o, OrderOK(c, o), NEW x \in DOMAIN o, NEW pre, NEW s,
         Analysed(c, o, x, pre, s), NEW T, T \subseteq pre.val
  PROVE  Through(c, o[x].block, T) \subseteq s.val
<1>1. o[x].block \in DOMAIN c /\ pre.val \subseteq Value
  BY PlaceFacts, StateFacts DEF Analysed
<1> QED BY <1>1, HeardIsCovered DEF Analysed

LEMMA ConditionsKept ==
  ASSUME NEW c, NEW o, OrderOK(c, o), NEW P, AllCarried(c, P), NEW x \in DOMAIN o,
         NEW pre, NEW s, Analysed(c, o, x, pre, s)
  PROVE  AllCarried(c, Put(P, o[x].block, s))
BY DEF AllCarried, Put, Analysed

NewCircle(p, pre) == [at |-> p, pre |-> pre, narrowing |-> FALSE, round |-> 1]

LEMMA NewCircleFacts ==
  ASSUME NEW p, NEW pre
  PROVE  /\ NewCircle(p, pre).at = p
         /\ NewCircle(p, pre).pre = pre
         /\ ~ NewCircle(p, pre).narrowing
         /\ NewCircle(p, pre).round = 1
BY DEF NewCircle

(* The circles that are active after a visit at place p.                   *)
Opened(o, p, A, B, pre) ==
  \/ ~ o[p].loop /\ B = A
  \/ o[p].loop /\ B = Append(A, NewCircle(p, pre))

LEMMA OpenedFacts ==
  ASSUME NEW c, NEW o, OrderOK(c, o), NEW p \in DOMAIN o, NEW A \in Seq(Circles(c, o)),
         NEW pre \in States(c), NEW B, Opened(o, p, A, B, pre)
  PROVE  /\ B \in Seq(Circles(c, o))
         /\ \A k \in DOMAIN A : k \in DOMAIN B /\ B[k] = A[k]
         /\ \A k \in DOMAIN B : k \in DOMAIN A \/ B[k] = NewCircle(p, pre)
         /\ o[p].loop => \E k \in DOMAIN B : B[k] = NewCircle(p, pre)
<1>1. CASE ~ o[p].loop /\ B = A
  BY <1>1
<1>2. CASE o[p].loop /\ B = Append(A, NewCircle(p, pre))
  <2>1. NewCircle(p, pre) \in Circles(c, o)
    BY <1>2 DEF Circles, Loops, NewCircle
  <2>2. /\ B \in Seq(Circles(c, o)) /\ DOMAIN B = 1 .. Len(A) + 1
        /\ B[Len(A) + 1] = NewCircle(p, pre)
        /\ \A k \in DOMAIN A : B[k] = A[k]
        /\ DOMAIN A = 1 .. Len(A) /\ Len(A) \in Nat
    BY <1>2, <2>1, AppendFacts
  <2>3. /\ \A k \in DOMAIN A : k \in DOMAIN B
        /\ \A k \in DOMAIN B : k \in DOMAIN A \/ k = Len(A) + 1
        /\ Len(A) + 1 \in DOMAIN B
    BY <2>2
  <2> QED BY <2>2, <2>3
<1> QED BY <1>1, <1>2 DEF Opened

LEMMA FlowVisit ==
  ASSUME NEW c, NEW o, NEW p, NEW A, NEW I, NEW P, WalkTypes(c, o, p, A, I, P), Around(o, p, A),
         Known(c, o, p, A, P), NoStray(c), Flow(c, o, p, A, P), Open(o, p, A),
         NEW pre, NEW s, Analysed(c, o, p, pre, s),
         IF p = 1 THEN InitVals \subseteq pre.val ELSE Gathers(c, P, o[p].block, pre),
         NEW B, Opened(o, p, A, B, pre)
  PROVE  Flow(c, o, p + 1, B, Put(P, o[p].block, s))
<1> DEFINE Q == Put(P, o[p].block, s)
<1>1. /\ FunctionOK(c) /\ OrderOK(c, o) /\ A \in Seq(Circles(c, o)) /\ Placed(c, o, P)
      /\ p \in DOMAIN o /\ p \in Nat \ {0} /\ pre \in States(c) /\ s \in States(c)
  <2>1. FunctionOK(c) /\ OrderOK(c, o) /\ A \in Seq(Circles(c, o)) /\ Placed(c, o, P)
    BY DEF WalkTypes
  <2>2. p \in DOMAIN o /\ pre \in States(c) /\ s \in States(c)
    BY DEF Open, Analysed
  <2> QED BY <2>1, <2>2, PlaceFacts
<1>2. /\ \A k \in DOMAIN A : k \in DOMAIN B /\ B[k] = A[k]
      /\ \A k \in DOMAIN B : k \in DOMAIN A \/ B[k] = NewCircle(p, pre)
      /\ o[p].loop => \E k \in DOMAIN B : B[k] = NewCircle(p, pre)
  BY <1>1, OpenedFacts
<1>3. /\ \A i \in DOMAIN o : Has(o, Q, i) <=> i = p \/ Has(o, P, i)
      /\ Q[o[p].block] = s
      /\ \A i \in DOMAIN o : i # p /\ Has(o, P, i) => Q[o[i].block] = P[o[i].block]
  BY <1>1, PutFacts
<1>4. AllCarried(c, Q)
  BY <1>1, ConditionsKept DEF Flow, Conditions
<1> HIDE DEF Q
<1>5. Heard(c, o, P, p, pre.val)
  <2>1. CASE p = 1
    <3>1. o[p].block = 0
      BY <2>1 DEF OrderOK, WalkTypes
    <3>2. \A i \in DOMAIN o : ~ Edge(c, o, i, p)
      BY <1>1, <3>1, PlaceFacts DEF NoStray, Edge
    <3> QED BY <3>2 DEF Heard
  <2>2. CASE p # 1
    BY <1>1, <2>2, GathersAtPlace
  <2> QED BY <2>1, <2>2
<1>6. ASSUME NEW i \in DOMAIN o, Has(o, P, i), Edge(c, o, i, p), NEW T, T \subseteq SaysTo(c, o, P, i, p)
      PROVE  Through(c, o[p].block, T) \subseteq s.val
  <2>1. T \subseteq pre.val
    BY <1>5, <1>6 DEF Heard
  <2> QED BY <1>1, <2>1, AnalysedCovers
<1>7. Conditions(c, o, B, Q)
  <2>1. ASSUME NEW k \in DOMAIN B PROVE CarriedBefore(c, HeadAt(o, B, k), B[k].pre)
    <3>1. CASE k \in DOMAIN A
      BY <1>2, <3>1 DEF Flow, Conditions, HeadAt
    <3>2. CASE B[k] = NewCircle(p, pre)
      BY <3>2, NewCircleFacts DEF HeadAt, Analysed
    <3> QED BY <1>2, <3>1, <3>2
  <2> QED BY <1>4, <2>1 DEF Conditions
<1>8. Through(c, 0, InitVals) \subseteq Q[0].val
  <2>1. 1 \in DOMAIN o /\ o[1].block = 0
    BY <1>1 DEF OrderOK
  <2>2. CASE p = 1
    <3>1. InitVals \subseteq pre.val
      BY <2>2
    <3>2. Through(c, o[p].block, InitVals) \subseteq s.val
      BY <1>1, <3>1, AnalysedCovers
    <3> QED BY <1>3, <2>1, <2>2, <3>2
  <2>3. CASE p # 1
    <3>1. p > 1 /\ 1 \in 1 .. p - 1
      BY <1>1, <2>3
    <3>2. Has(o, P, 1)
      BY <3>1 DEF Known, Has
    <3>3. Q[0] = P[0]
      BY <1>3, <2>1, <2>3, <3>2
    <3> QED BY <3>1, <3>3 DEF Flow
  <2> QED BY <2>2, <2>3
<1>9. CoveredBehind(c, o, p + 1, B, Q)
  <2> SUFFICES ASSUME NEW i \in DOMAIN o, NEW j \in DOMAIN o, j < p + 1, Has(o, Q, i),
                      Edge(c, o, i, j), i < j \/ \A k \in DOMAIN B : B[k].at # j
               PROVE  Covers(c, o, Q, i, j)
    BY DEF CoveredBehind
  <2>0. i \in Nat /\ j \in Nat
    BY <1>1, PlaceFacts
  <2>2. CASE i = p
    <3>1. j <= i
      BY <1>1, <2>0, <2>2
    <3>2. o[j].loop /\ i \in Within(o, j)
      BY <1>1, <3>1 DEF OrderOK
    <3>3. \A k \in DOMAIN B : B[k].at # j
      BY <2>0, <3>1
    <3>4. j # p
      BY <1>2, <3>2, <3>3, NewCircleFacts
    <3>5. j < p /\ j \in Loops(o)
      BY <2>0, <2>2, <3>1, <3>2, <3>4 DEF Loops
    <3>6. \E k \in DOMAIN A : A[k].at = j
      BY <2>2, <3>2, <3>5 DEF Around
    <3> QED BY <1>2, <3>3, <3>6
  <2>3. CASE i # p
    <3>1. Has(o, P, i) /\ Q[o[i].block] = P[o[i].block]
      BY <1>3, <2>3
    <3>2. SaysTo(c, o, Q, i, j) = SaysTo(c, o, P, i, j)
      BY <3>1 DEF SaysTo
    <3>3. CASE j = p
      BY <1>3, <1>6, <3>1, <3>2, <3>3 DEF Covers
    <3>4. CASE j # p
      <4>1. j < p /\ j \in 1 .. p - 1
        BY <1>1, <2>0, <3>4, PlaceFacts
      <4>2. Has(o, P, j)
        BY <4>1 DEF Known, Has
      <4>3. i < j \/ \A k \in DOMAIN A : A[k].at # j
        BY <1>2
      <4>4. Covers(c, o, P, i, j)
        BY <3>1, <4>1, <4>3 DEF Flow, CoveredBehind
      <4>5. Q[o[j].block] = P[o[j].block]
        BY <1>3, <3>4, <4>2
      <4> QED BY <3>2, <4>4, <4>5 DEF Covers
    <3> QED BY <3>3, <3>4
  <2> QED BY <2>2, <2>3
<1>10. ASSUME NEW k \in DOMAIN B, B[k].narrowing
       PROVE  Narrowing(c, o, B, Q, k)
  <2>1. k \in DOMAIN A /\ B[k] = A[k]
    BY <1>2, <1>10, NewCircleFacts
  <2>2. Narrowing(c, o, A, P, k)
    BY <1>10, <2>1 DEF Flow
  <2>3. p \in Within(o, A[k].at) /\ A[k].at < p /\ A[k].at \in Nat \ {0} /\ A[k].at \in DOMAIN o
    BY <1>1, <2>1, OpenEverywhere, CircleFacts
  <2>4. p # 1
    BY <1>1, <2>3
  <2>5. Has(o, P, p)
    BY <2>2, <2>3 DEF Narrowing
  <2>6. \A i \in DOMAIN o : Has(o, P, i) /\ Edge(c, o, i, p) => Covers(c, o, P, i, p)
    BY <2>2, <2>3 DEF Narrowing
  <2>7. s.val \subseteq P[o[p].block].val
    BY <1>1, <2>4, <2>5, <2>6, AnalysedAgain DEF Analysed
  <2>8. \A i, j \in DOMAIN o :
          Has(o, P, i) => /\ SaysTo(c, o, Q, i, j) \subseteq SaysTo(c, o, P, i, j)
                          /\ j # p /\ Has(o, P, j) /\ Covers(c, o, P, i, j) => Covers(c, o, Q, i, j)
    BY <1>1, <2>5, <2>7, ShrinkKeeps DEF Q
  <2>9. \A i \in DOMAIN o : Has(o, Q, i) <=> Has(o, P, i)
    BY <1>3, <2>5
  <2>10. Within(o, A[k].at) \subseteq DOMAIN o
    BY <1>1, <2>3, PlaceFacts
  <2>11. ASSUME NEW j \in Within(o, A[k].at), NEW i \in DOMAIN o, Has(o, Q, i), Edge(c, o, i, j)
         PROVE  Covers(c, o, Q, i, j)
    <3>1. Has(o, P, i) /\ j \in DOMAIN o /\ Has(o, P, j) /\ Covers(c, o, P, i, j)
      BY <2>2, <2>9, <2>10, <2>11 DEF Narrowing
    <3>2. CASE j = p
      BY <1>3, <1>6, <2>8, <2>11, <3>1, <3>2 DEF Covers
    <3>3. CASE j # p
      BY <2>8, <3>1, <3>3
    <3> QED BY <3>2, <3>3
  <2>12. ASSUME NEW m \in DOMAIN B, m >= k, NEW i \in DOMAIN o, Has(o, Q, i), Edge(c, o, i, B[m].at)
         PROVE  SaysTo(c, o, Q, i, B[m].at) \subseteq B[m].pre.val
    <3>1. Has(o, P, i)
      BY <2>9, <2>12
    <3>2. CASE m \in DOMAIN A
      <4>1. B[m] = A[m] /\ A[m].at \in DOMAIN o
        BY <1>1, <1>2, <3>2, CircleFacts
      <4>2. SaysTo(c, o, P, i, A[m].at) \subseteq A[m].pre.val
        BY <2>2, <2>12, <3>1, <3>2, <4>1 DEF Narrowing
      <4> QED BY <2>8, <3>1, <4>1, <4>2
    <3>3. CASE B[m] = NewCircle(p, pre)
      <4>1. B[m].at = p /\ B[m].pre = pre
        BY <3>3, NewCircleFacts
      <4>2. SaysTo(c, o, P, i, p) \subseteq pre.val
        BY <1>5, <2>12, <3>1, <4>1 DEF Heard
      <4> QED BY <1>1, <2>8, <3>1, <4>1, <4>2
    <3> QED BY <1>2, <3>2, <3>3
  <2>13. \A j \in Within(o, A[k].at) : Has(o, Q, j)
    BY <2>2, <2>9, <2>10 DEF Narrowing
  <2> QED BY <2>1, <2>11, <2>12, <2>13 DEF Narrowing
<1> QED BY <1>7, <1>8, <1>9, <1>10 DEF Flow, Q

(* The head of the innermost circle is analysed again.  While some circle  *)
(* is narrowed, or is to be, the state before the head must not grow.      *)
LEMMA FlowAgain ==
  ASSUME NEW c, NEW o, NEW p, NEW A, NEW I, NEW P, WalkTypes(c, o, p, A, I, P), Around(o, p, A),
         Known(c, o, p, A, P), NoStray(c), Flow(c, o, p, A, P), Ended(o, p, A),
         NEW r \in Circles(c, o), r.at = A[Len(A)].at,
         NEW s, Analysed(c, o, r.at, r.pre, s),
         Heard(c, o, P, r.at, r.pre.val),
         r.narrowing \/ (\E k \in DOMAIN A : A[k].narrowing) => r.pre.val \subseteq A[Len(A)].pre.val
  PROVE  Flow(c, o, r.at + 1, Renewed(A, r), Put(P, o[r.at].block, s))
<1> DEFINE n == Len(A)
           x == r.at
           Q == Put(P, o[x].block, s)
           B == Renewed(A, r)
<1>1. FunctionOK(c) /\ OrderOK(c, o) /\ A \in Seq(Circles(c, o)) /\ Placed(c, o, P)
  BY DEF WalkTypes
<1>2. /\ A # << >> /\ n \in DOMAIN A /\ n \in Nat /\ x = A[n].at /\ x \in Loops(o) /\ x \in DOMAIN o
      /\ x \in Nat \ {0} /\ o[x].loop /\ o[x].size \in Nat /\ p = x + o[x].size + 1
      /\ DOMAIN A = 1 .. n
  BY <1>1, CircleFacts DEF Ended
<1>3. DOMAIN B = DOMAIN A /\ B[n] = r /\ \A k \in DOMAIN A : k # n => B[k] = A[k]
  BY <1>1, <1>2, RenewedFacts
<1>4. s \in States(c) /\ s.val = Hull(Through(c, o[x].block, r.pre.val))
  BY DEF Analysed
<1>5. /\ \A i \in DOMAIN o : Has(o, Q, i) <=> i = x \/ Has(o, P, i)
      /\ Q[o[x].block] = s
      /\ \A i \in DOMAIN o : i # x /\ Has(o, P, i) => Q[o[i].block] = P[o[i].block]
  BY <1>1, <1>2, <1>4, PutFacts
<1>6. AllCarried(c, Q)
  BY <1>1, <1>2, ConditionsKept DEF Flow, Conditions
<1> HIDE DEF n, x, Q, B
<1>7. \A k \in DOMAIN A : B[k].at = A[k].at
  BY <1>2, <1>3 DEF x
<1>8. 1 .. p - 1 \subseteq DOMAIN o /\ \A j \in 1 .. p - 1 : Has(o, P, j)
  <2>1. p \in 1 .. Len(o) + 1
    BY DEF WalkTypes
  <2> QED BY <1>1, <2>1, PlaceFacts DEF Known, Has
<1>9. Has(o, P, x) /\ \A j \in Within(o, x) : j \in 1 .. p - 1
  BY <1>2, <1>8 DEF Within
<1>10. ASSUME NEW i \in DOMAIN o, Has(o, P, i), Edge(c, o, i, x), NEW T, T \subseteq SaysTo(c, o, P, i, x)
       PROVE  Through(c, o[x].block, T) \subseteq s.val
  <2>1. T \subseteq r.pre.val
    BY <1>10 DEF Heard, x
  <2> QED BY <1>1, <1>2, <2>1, AnalysedCovers DEF x
<1>11. Conditions(c, o, B, Q)
  <2>1. ASSUME NEW k \in DOMAIN B PROVE CarriedBefore(c, HeadAt(o, B, k), B[k].pre)
    <3>1. CASE k = n
      BY <1>3, <3>1 DEF HeadAt, Analysed, x
    <3>2. CASE k # n
      BY <1>3, <3>2 DEF Flow, Conditions, HeadAt
    <3> QED BY <3>1, <3>2
  <2> QED BY <1>6, <2>1 DEF Conditions
<1>12. Through(c, 0, InitVals) \subseteq Q[0].val
  <2>1. 1 \in DOMAIN o /\ o[1].block = 0
    BY <1>1 DEF OrderOK
  <2>2. x # 1
    <3>1. \E j \in Within(o, x) : Edge(c, o, j, x)
      BY <1>1, <1>2 DEF OrderOK
    <3>2. Within(o, x) \subseteq DOMAIN o
      BY <1>1, <1>2, PlaceFacts
    <3>3. \A j \in DOMAIN o : o[j].block \in DOMAIN c
      BY <1>1, PlaceFacts
    <3> QED BY <2>1, <3>1, <3>2, <3>3 DEF NoStray, Edge
  <2>3. p > 1 /\ 1 \in 1 .. p - 1
    BY <1>2
  <2>4. Q[0] = P[0]
    BY <1>5, <1>8, <2>1, <2>2, <2>3
  <2> QED BY <2>3, <2>4 DEF Flow
<1>13. CoveredBehind(c, o, x + 1, B, Q)
  <2> SUFFICES ASSUME NEW i \in DOMAIN o, NEW j \in DOMAIN o, j < x + 1, Has(o, Q, i),
                      Edge(c, o, i, j), i < j \/ \A k \in DOMAIN B : B[k].at # j
               PROVE  Covers(c, o, Q, i, j)
    BY DEF CoveredBehind
  <2>0. i \in Nat \ {0} /\ j \in Nat \ {0}
    BY <1>1, PlaceFacts
  <2>1. i # x
    <3> SUFFICES ASSUME i = x PROVE FALSE
      OBVIOUS
    <3>1. j <= i
      BY <1>2, <2>0
    <3>2. o[j].loop /\ i \in Within(o, j)
      BY <1>1, <3>1 DEF OrderOK
    <3>3. \A k \in DOMAIN B : B[k].at # j
      BY <2>0, <3>1
    <3>4. j # x
      BY <1>2, <1>3, <3>3 DEF x
    <3>5. j < x /\ j \in Loops(o)
      BY <1>2, <2>0, <3>1, <3>2, <3>4 DEF Loops
    <3>6. \E k \in DOMAIN A : A[k].at = j
      BY <1>2, <3>2, <3>5 DEF Around
    <3> QED BY <1>3, <1>7, <3>3, <3>6
  <2>2. Has(o, P, i) /\ SaysTo(c, o, Q, i, j) = SaysTo(c, o, P, i, j)
    BY <1>5, <2>1 DEF SaysTo
  <2>3. CASE j = x
    BY <1>5, <1>10, <2>2, <2>3 DEF Covers
  <2>4. CASE j # x
    <3>1. j < p /\ j \in 1 .. p - 1
      BY <1>2, <2>0
    <3>2. i < j \/ \A k \in DOMAIN A : A[k].at # j
      BY <1>3, <1>7
    <3>3. Covers(c, o, P, i, j)
      BY <2>2, <3>1, <3>2 DEF Flow, CoveredBehind
    <3>4. Q[o[j].block] = P[o[j].block]
      BY <1>5, <1>8, <2>4, <3>1
    <3> QED BY <2>2, <3>3, <3>4 DEF Covers
  <2> QED BY <2>3, <2>4
<1>14. ASSUME NEW k \in DOMAIN B, B[k].narrowing
       PROVE  Narrowing(c, o, B, Q, k)
  <2>1. k \in DOMAIN A /\ A[k].at \in DOMAIN o /\ k \in Nat
    BY <1>1, <1>2, <1>3, CircleFacts
  <2>2. k # n => B[k] = A[k] /\ Narrowing(c, o, A, P, k)
    BY <1>3, <1>14, <2>1 DEF Flow
  <2>3. r.pre.val \subseteq A[n].pre.val
    BY <1>3, <1>14, <2>1 DEF n
  <2>4. s.val \subseteq P[o[x].block].val
    <3>1. P[o[x].block].val = Hull(Through(c, o[x].block, A[n].pre.val))
      BY <1>2 DEF Known, HeadAt
    <3>2. A[n].pre.val \subseteq Value /\ o[x].block \in DOMAIN c
      BY <1>1, <1>2, CircleFacts, PlaceFacts, StateFacts
    <3>3. Through(c, o[x].block, A[n].pre.val) \subseteq Value
      BY <1>1, <3>2, ThroughFacts
    <3>4. Through(c, o[x].block, r.pre.val) \subseteq Through(c, o[x].block, A[n].pre.val)
      BY <2>3 DEF Through
    <3> QED BY <1>4, <3>1, <3>3, <3>4, HullMonotone
  <2>5. \A i, j \in DOMAIN o :
          Has(o, P, i) => /\ SaysTo(c, o, Q, i, j) \subseteq SaysTo(c, o, P, i, j)
                          /\ j # x /\ Has(o, P, j) /\ Covers(c, o, P, i, j) => Covers(c, o, Q, i, j)
    BY <1>1, <1>2, <1>4, <1>9, <2>4, ShrinkKeeps DEF Q
  <2>6. \A i \in DOMAIN o : Has(o, Q, i) <=> Has(o, P, i)
    BY <1>5, <1>9
  <2>7. Within(o, A[k].at) \subseteq DOMAIN o
    BY <1>1, <2>1, PlaceFacts
  <2>8. \A j \in Within(o, A[k].at) : Has(o, P, j)
    <3>1. CASE k = n
      BY <1>2, <1>8, <1>9, <3>1
    <3>2. CASE k # n
      BY <2>2, <3>2 DEF Narrowing
    <3> QED BY <3>1, <3>2
  <2>9. ASSUME NEW j \in Within(o, A[k].at), j # x, NEW i \in DOMAIN o, Has(o, P, i), Edge(c, o, i, j)
        PROVE  Covers(c, o, P, i, j)
    <3>1. CASE k = n
      <4>1. j \in Within(o, x) /\ j \in 1 .. p - 1
        BY <1>2, <1>9, <2>9, <3>1
      <4>2. j < p /\ x < j /\ j \in DOMAIN o
        BY <1>2, <1>8, <2>9, <4>1 DEF Within
      <4>3. ASSUME NEW m \in DOMAIN A PROVE A[m].at # j
        <5>1. m # n => A[m].at < x
          BY <1>1, <1>2, InnermostIsLast DEF n
        <5>2. A[m].at \in Nat
          BY <1>1, CircleFacts
        <5> QED BY <1>2, <4>2, <5>1, <5>2
      <4> QED BY <2>9, <4>2, <4>3 DEF Flow, CoveredBehind
    <3>2. CASE k # n
      BY <2>2, <2>9, <3>2 DEF Narrowing
    <3> QED BY <3>1, <3>2
  <2>10. ASSUME NEW j \in Within(o, A[k].at), NEW i \in DOMAIN o, Has(o, Q, i), Edge(c, o, i, j)
         PROVE  Covers(c, o, Q, i, j)
    <3>1. Has(o, P, i) /\ j \in DOMAIN o /\ Has(o, P, j)
      BY <2>6, <2>7, <2>8, <2>10
    <3>2. CASE j = x
      BY <1>2, <1>5, <1>10, <2>5, <2>10, <3>1, <3>2 DEF Covers
    <3>3. CASE j # x
      BY <2>5, <2>9, <2>10, <3>1, <3>3
    <3> QED BY <3>2, <3>3
  <2>11. ASSUME NEW m \in DOMAIN B, m >= k, NEW i \in DOMAIN o, Has(o, Q, i), Edge(c, o, i, B[m].at)
         PROVE  SaysTo(c, o, Q, i, B[m].at) \subseteq B[m].pre.val
    <3>1. Has(o, P, i)
      BY <2>6, <2>11
    <3>2. CASE m = n
      <4>1. B[m].at = x /\ B[m].pre = r.pre
        BY <1>3, <3>2 DEF x
      <4>2. SaysTo(c, o, P, i, x) \subseteq r.pre.val
        BY <2>11, <3>1, <4>1 DEF Heard, x
      <4> QED BY <1>2, <2>5, <3>1, <4>1, <4>2
    <3>3. CASE m # n
      <4>1. m \in DOMAIN A /\ B[m] = A[m] /\ A[m].at \in DOMAIN o
        BY <1>1, <1>3, <3>3, CircleFacts
      <4>2. k # n
        BY <1>2, <2>1, <2>11, <3>3, <4>1
      <4>3. SaysTo(c, o, P, i, A[m].at) \subseteq A[m].pre.val
        BY <2>2, <2>11, <3>1, <4>1, <4>2 DEF Narrowing
      <4> QED BY <2>5, <3>1, <4>1, <4>3
    <3> QED BY <3>2, <3>3
  <2>12. \A j \in Within(o, A[k].at) : Has(o, Q, j)
    BY <2>6, <2>7, <2>8
  <2>13. B[k].at = A[k].at
    BY <1>7, <2>1
  <2> QED BY <2>10, <2>11, <2>12, <2>13 DEF Narrowing
<1> QED BY <1>11, <1>12, <1>13, <1>14 DEF Flow, Q, B, x

(* A circle is left when all that its head is told is allowed for.         *)
LEMMA FlowLeft ==
  ASSUME NEW c, NEW o, NEW p, NEW A, NEW I, NEW P, WalkTypes(c, o, p, A, I, P), Around(o, p, A),
         Flow(c, o, p, A, P), Ended(o, p, A),
         \A i \in DOMAIN o : Has(o, P, i) /\ Edge(c, o, i, A[Len(A)].at)
                               => Covers(c, o, P, i, A[Len(A)].at)
  PROVE  Flow(c, o, p, AllButLast(A), P)
<1> DEFINE B == AllButLast(A)
           n == Len(A)
<1>1. /\ DOMAIN B = 1 .. n - 1 /\ n \in Nat \ {0} /\ DOMAIN A = 1 .. n
      /\ \A k \in 1 .. n - 1 : B[k] = A[k]
  BY AllButLastFacts DEF WalkTypes, Ended
<1> HIDE DEF B, n
<1>2. \A k \in DOMAIN B : k \in DOMAIN A /\ B[k] = A[k]
  BY <1>1
<1>3. \A k \in DOMAIN A : k # n => k \in DOMAIN B
  BY <1>1
<1>4. Conditions(c, o, B, P)
  BY <1>2 DEF Flow, Conditions, HeadAt
<1>5. CoveredBehind(c, o, p, B, P)
  <2> SUFFICES ASSUME NEW i \in DOMAIN o, NEW j \in DOMAIN o, j < p, Has(o, P, i),
                      Edge(c, o, i, j), i < j \/ \A k \in DOMAIN B : B[k].at # j
               PROVE  Covers(c, o, P, i, j)
    BY DEF CoveredBehind
  <2>1. CASE j = A[n].at
    BY <2>1 DEF n
  <2>2. CASE j # A[n].at
    <3>1. i < j \/ \A k \in DOMAIN A : A[k].at # j
      BY <1>2, <1>3, <2>2
    <3> QED BY <3>1 DEF Flow, CoveredBehind
  <2> QED BY <2>1, <2>2
<1>6. ASSUME NEW k \in DOMAIN B, B[k].narrowing PROVE Narrowing(c, o, B, P, k)
  <2>1. Narrowing(c, o, A, P, k) /\ B[k].at = A[k].at
    BY <1>2, <1>6 DEF Flow
  <2> QED BY <1>2, <2>1 DEF Narrowing
<1> QED BY <1>4, <1>5, <1>6 DEF Flow, B

-----------------------------------------------------------------------------
(* Post conditions and ranks from step to step.                            *)

LEMMA Caps ==
  /\ WideningDelay \in Nat /\ NarrowingIteration \in Nat
  /\ IterCap \in Nat /\ IterCap > WideningDelay /\ IterCap >= 1
  /\ RoundCap \in Nat
BY MirFixpointAssumption DEF IterCap, RoundCap

LEMMA UpToFacts ==
  ASSUME NEW cap \in Nat, NEW n \in Nat
  PROVE  /\ UpTo(cap, n) \in 0 .. cap /\ UpTo(cap, n) <= n
         /\ n <= cap => UpTo(cap, n) = n
         /\ n > cap => UpTo(cap, n) = cap
BY DEF UpTo

LEMMA KnownVisit ==
  ASSUME NEW c, NEW o, NEW p, NEW A, NEW I, NEW P, WalkTypes(c, o, p, A, I, P), Around(o, p, A),
         Known(c, o, p, A, P), Open(o, p, A),
         NEW pre \in States(c), NEW s \in States(c), s.val = Hull(Through(c, o[p].block, pre.val)),
         NEW B, Opened(o, p, A, B, pre)
  PROVE  Known(c, o, p + 1, B, Put(P, o[p].block, s))
<1> DEFINE Q == Put(P, o[p].block, s)
<1>1. FunctionOK(c) /\ OrderOK(c, o) /\ A \in Seq(Circles(c, o)) /\ Placed(c, o, P)
  BY DEF WalkTypes
<1>2. p \in DOMAIN o /\ p \in 1 .. Len(o) /\ Len(o) \in Nat /\ DOMAIN o = 1 .. Len(o)
  BY <1>1, PlaceFacts DEF Open
<1>3. /\ \A i \in DOMAIN o : Has(o, Q, i) <=> i = p \/ Has(o, P, i)
      /\ Q[o[p].block] = s
      /\ \A i \in DOMAIN o : i # p /\ Has(o, P, i) => Q[o[i].block] = P[o[i].block]
  BY <1>1, <1>2, PutFacts
<1>4. /\ \A k \in DOMAIN A : k \in DOMAIN B /\ B[k] = A[k]
      /\ \A k \in DOMAIN B : k \in DOMAIN A \/ B[k] = NewCircle(p, pre)
  BY <1>1, <1>2, OpenedFacts
<1> HIDE DEF Q
<1>5. ASSUME NEW i \in 1 .. p PROVE Has(o, Q, i)
  <2>1. i \in DOMAIN o /\ (i = p \/ i \in 1 .. p - 1)
    BY <1>2
  <2> QED BY <1>3, <2>1 DEF Known, Has
<1>6. ASSUME NEW k \in DOMAIN B
      PROVE  Q[HeadAt(o, B, k)].val = Hull(Through(c, HeadAt(o, B, k), B[k].pre.val))
  <2>1. CASE k \in DOMAIN A
    <3>1. A[k].at \in DOMAIN o /\ A[k].at < p /\ A[k].at # p /\ A[k].at \in 1 .. p - 1
      BY <1>1, <1>2, <2>1, OpenEverywhere, CircleFacts
    <3>2. Q[o[A[k].at].block] = P[o[A[k].at].block]
      BY <1>3, <3>1 DEF Known, Has
    <3> QED BY <1>4, <2>1, <3>2 DEF Known, HeadAt
  <2>2. CASE B[k] = NewCircle(p, pre)
    BY <1>3, <2>2, NewCircleFacts DEF HeadAt
  <2> QED BY <1>4, <2>1, <2>2
<1>7. 1 .. (p + 1) - 1 = 1 .. p
  BY <1>2
<1> QED BY <1>5, <1>6, <1>7 DEF Known, Has, Q

LEMMA KnownAgain ==
  ASSUME NEW c, NEW o, NEW p, NEW A, NEW I, NEW P, WalkTypes(c, o, p, A, I, P), Around(o, p, A),
         Known(c, o, p, A, P), Ended(o, p, A), NEW r \in Circles(c, o), r.at = A[Len(A)].at,
         NEW s \in States(c), s.val = Hull(Through(c, o[r.at].block, r.pre.val))
  PROVE  Known(c, o, r.at + 1, Renewed(A, r), Put(P, o[r.at].block, s))
<1> DEFINE n == Len(A)
           x == r.at
           Q == Put(P, o[x].block, s)
           B == Renewed(A, r)
<1>1. FunctionOK(c) /\ OrderOK(c, o) /\ A \in Seq(Circles(c, o)) /\ Placed(c, o, P)
  BY DEF WalkTypes
<1>2. /\ A # << >> /\ n \in DOMAIN A /\ x = A[n].at /\ x \in DOMAIN o /\ x \in Nat \ {0}
      /\ o[x].size \in Nat /\ p = x + o[x].size + 1
      /\ DOMAIN o = 1 .. Len(o) /\ Len(o) \in Nat
  BY <1>1, CircleFacts, PlaceFacts DEF Ended
<1>3. DOMAIN B = DOMAIN A /\ B[n] = r /\ \A k \in DOMAIN A : k # n => B[k] = A[k]
  BY <1>1, <1>2, RenewedFacts
<1>4. /\ \A i \in DOMAIN o : Has(o, Q, i) <=> i = x \/ Has(o, P, i)
      /\ Q[o[x].block] = s
      /\ \A i \in DOMAIN o : i # x /\ Has(o, P, i) => Q[o[i].block] = P[o[i].block]
  <2>1. s \in States(c) /\ x \in DOMAIN o
    BY <1>2
  <2> HIDE DEF x
  <2> QED BY ONLY <1>1, <2>1, PutFacts DEF Q
<1> HIDE DEF n, x, Q, B
<1>5. ASSUME NEW i \in 1 .. x PROVE Has(o, Q, i)
  <2>1. i \in DOMAIN o /\ i \in 1 .. p - 1
    BY <1>2
  <2> QED BY <1>4, <2>1 DEF Known, Has
<1>6. ASSUME NEW k \in DOMAIN B
      PROVE  Q[HeadAt(o, B, k)].val = Hull(Through(c, HeadAt(o, B, k), B[k].pre.val))
  <2>1. CASE k = n
    BY <1>3, <1>4, <2>1 DEF HeadAt, x
  <2>2. CASE k # n
    <3>1. A[k].at < x /\ A[k].at \in DOMAIN o /\ A[k].at \in Nat \ {0}
      BY <1>1, <1>2, <1>3, <2>2, InnermostIsLast, CircleFacts DEF n
    <3>2. A[k].at # x /\ A[k].at \in 1 .. p - 1
      BY <1>2, <3>1
    <3>3. Q[o[A[k].at].block] = P[o[A[k].at].block]
      BY <1>4, <3>1, <3>2 DEF Known, Has
    <3> QED BY <1>3, <2>2, <3>3 DEF Known, HeadAt
  <2> QED BY <2>1, <2>2
<1>7. 1 .. (x + 1) - 1 = 1 .. x
  BY <1>2
<1> QED BY <1>5, <1>6, <1>7 DEF Known, Has, Q, B, x

LEMMA KnownLeft ==
  ASSUME NEW c, NEW o, NEW p, NEW A, A # << >>, A \in Seq(Circles(c, o)), NEW P,
         Known(c, o, p, A, P)
  PROVE  Known(c, o, p, AllButLast(A), P)
<1>1. \A k \in DOMAIN AllButLast(A) : k \in DOMAIN A /\ AllButLast(A)[k] = A[k]
  BY AllButLastFacts
<1> QED BY <1>1 DEF Known, HeadAt

(* A circle that grows by a join has a round left for it, and one that is  *)
(* widened a bound to give up.                                             *)
RankedAs(r, n) ==
  ~ r.narrowing =>
    /\ r.round + Rank(r.pre.val) <= (IF WideningDelay = 0 THEN 1 ELSE WideningDelay) + 3
    /\ n <= WideningDelay => r.round <= n

LEMMA RankedIs ==
  ASSUME NEW A, NEW I
  PROVE  Ranked(A, I) <=> \A k \in DOMAIN A : RankedAs(A[k], I[A[k].at])
BY DEF Ranked, RankedAs

LEMMA RankedVisit ==
  ASSUME NEW c, NEW o, NEW p, NEW A, NEW I, NEW P, WalkTypes(c, o, p, A, I, P), Around(o, p, A),
         Ranked(A, I), Open(o, p, A), o[p].loop, NEW pre \in States(c),
         NEW J, J = [I EXCEPT ![p] = UpTo(IterCap, @ + 1)]
  PROVE  /\ Ranked(Append(A, NewCircle(p, pre)), J)
         /\ J \in [Loops(o) -> 0 .. IterCap]
<1> DEFINE B == Append(A, NewCircle(p, pre))
<1>1. OrderOK(c, o) /\ A \in Seq(Circles(c, o)) /\ I \in [Loops(o) -> 0 .. IterCap]
  BY DEF WalkTypes
<1>2. p \in DOMAIN o /\ p \in Loops(o)
  BY DEF Open, Loops
<1>3. /\ \A k \in DOMAIN B : k \in DOMAIN A \/ B[k] = NewCircle(p, pre)
      /\ \A k \in DOMAIN A : B[k] = A[k]
  BY <1>1, <1>2, OpenedFacts DEF Opened
<1>4. I[p] \in 0 .. IterCap /\ I[p] + 1 \in Nat \ {0}
  BY <1>1, <1>2, Caps
<1>5. UpTo(IterCap, I[p] + 1) \in 0 .. IterCap /\ UpTo(IterCap, I[p] + 1) >= 1
  BY <1>4, Caps DEF UpTo
<1>6. J \in [Loops(o) -> 0 .. IterCap] /\ J[p] >= 1 /\ J[p] \in Nat
      /\ \A i \in Loops(o) : i # p => J[i] = I[i]
  BY <1>1, <1>2, <1>5, Caps
<1> HIDE DEF B
<1>7. ASSUME NEW k \in DOMAIN B PROVE RankedAs(B[k], J[B[k].at])
  <2>1. CASE k \in DOMAIN A
    <3>1. A[k].at # p /\ A[k].at \in Loops(o)
      BY <1>1, <2>1, OpenEverywhere, CircleFacts
    <3>2. J[A[k].at] = I[A[k].at]
      BY <1>6, <3>1
    <3> QED BY <1>3, <2>1, <3>2, RankedIs
  <2>2. CASE B[k] = NewCircle(p, pre)
    <3>1. B[k].at = p /\ B[k].round = 1 /\ B[k].pre = pre
      BY <2>2, NewCircleFacts
    <3>2. 1 + Rank(pre.val) <= (IF WideningDelay = 0 THEN 1 ELSE WideningDelay) + 3
      BY RankFacts, Caps
    <3> QED BY <1>6, <3>1, <3>2, Caps DEF RankedAs
  <2> QED BY <1>3, <2>1, <2>2
<1> QED BY <1>6, <1>7, RankedIs DEF B

LEMMA RankedAgain ==
  ASSUME NEW c, NEW o, NEW A \in Seq(Circles(c, o)), A # << >>, NEW I, NEW J, Ranked(A, I),
         NEW r \in Circles(c, o), RankedAs(r, J[r.at]),
         \A k \in DOMAIN A : k # Len(A) => J[A[k].at] = I[A[k].at]
  PROVE  Ranked(Renewed(A, r), J)
<1>1. /\ DOMAIN Renewed(A, r) = DOMAIN A /\ Renewed(A, r)[Len(A)] = r
      /\ \A k \in DOMAIN A : k # Len(A) => Renewed(A, r)[k] = A[k]
  BY RenewedFacts
<1>2. ASSUME NEW k \in DOMAIN A PROVE RankedAs(Renewed(A, r)[k], J[Renewed(A, r)[k].at])
  <2>1. CASE k = Len(A)
    BY <1>1, <2>1
  <2>2. CASE k # Len(A)
    BY <1>1, <2>2, RankedIs
  <2> QED BY <2>1, <2>2
<1> QED BY <1>1, <1>2, RankedIs

LEMMA RankedLeft ==
  ASSUME NEW S, NEW A \in Seq(S), A # << >>, NEW I, Ranked(A, I)
  PROVE  Ranked(AllButLast(A), I)
<1>1. \A k \in DOMAIN AllButLast(A) : k \in DOMAIN A /\ AllButLast(A)[k] = A[k]
  BY AllButLastFacts
<1> QED BY <1>1, RankedIs

LEMMA GrowthIsRanked ==
  ASSUME NEW c, NEW q \in States(c), NEW t \in States(c), ~ (t.val \subseteq q.val),
         NEW round \in Nat, NEW n \in 0 .. IterCap, NEW r, ~ r.narrowing,
         r.round = UpTo(RoundCap, round + 1),
         round + Rank(q.val) <= (IF WideningDelay = 0 THEN 1 ELSE WideningDelay) + 3,
         n <= WideningDelay => round <= n,
         r.pre = IF n <= WideningDelay THEN Join(q, t) ELSE WideningWith(q, t)
  PROVE  /\ r.pre \in States(c) /\ DOMAIN r.pre.exits = {}
         /\ q.val \subseteq r.pre.val /\ t.val \subseteq r.pre.val
         /\ RankedAs(r, UpTo(IterCap, n + 1))
<1>1. /\ q.val \subseteq Value /\ q.val = Hull(q.val)
      /\ t.val \subseteq Value /\ t.val = Hull(t.val)
  BY StateFacts
<1>2. r.round \in Nat /\ r.round <= round + 1
  BY Caps, UpToFacts
<1> DEFINE m == UpTo(IterCap, n + 1)
<1>3. n \in Nat /\ m \in Nat /\ (n <= WideningDelay => m = n + 1) /\ (n > WideningDelay => m > WideningDelay)
  BY Caps DEF UpTo
<1> HIDE DEF m
<1>4. CASE n <= WideningDelay
  <2> DEFINE U == q.val \union t.val
  <2>1. r.pre = Plain(Hull(U))
    BY <1>4 DEF Join
  <2>2. U \subseteq Value /\ q.val \subseteq U /\ t.val \subseteq U
    BY <1>1
  <2>3. U # {}
    OBVIOUS
  <2> HIDE DEF U
  <2>4. Hull(U) \subseteq Value /\ Hull(U) = Hull(Hull(U)) /\ U \subseteq Hull(U) /\ Hull(U) # {}
    BY <2>2, <2>3, HullFacts
  <2>5. r.pre \in States(c) /\ r.pre.val = Hull(U) /\ DOMAIN r.pre.exits = {}
    BY <2>1, <2>4, PlainState
  <2>6. Rank(r.pre.val) \in 0 .. 2
    BY <2>4, <2>5, RankFacts
  <2>7. RankedAs(r, m)
    BY <1>2, <1>3, <1>4, <2>6, Caps DEF RankedAs
  <2> QED BY <2>2, <2>4, <2>5, <2>7 DEF m
<1>5. CASE ~ (n <= WideningDelay)
  <2>1. r.pre = Plain(Widened(q.val, t.val))
    BY <1>5 DEF WideningWith
  <2> DEFINE W == Widened(q.val, t.val)
  <2>2. /\ W \subseteq Value /\ W = Hull(W)
        /\ q.val \subseteq W /\ t.val \subseteq W /\ Rank(W) < Rank(q.val)
    BY <1>1, WideningCovers
  <2> HIDE DEF W
  <2>3. r.pre \in States(c) /\ r.pre.val = W /\ DOMAIN r.pre.exits = {}
    BY <2>1, <2>2, PlainState DEF W
  <2>4. Rank(W) \in 0 .. 3 /\ Rank(q.val) \in 0 .. 3
    BY RankFacts
  <2>5. RankedAs(r, m)
    BY <1>2, <1>3, <1>5, <2>2, <2>3, <2>4, Caps DEF RankedAs
  <2> QED BY <2>2, <2>3, <2>5 DEF m
<1> QED BY <1>4, <1>5

-----------------------------------------------------------------------------
(* The steps of the iterator.                                              *)

LEMMA WalkParts ==
  ASSUME WalkInv
  PROVE  /\ WalkTypes(code, order, pos, active, iter, post)
         /\ Around(order, pos, active)
         /\ Known(code, order, pos, active, post)
         /\ Ranked(active, iter)
         /\ NoStray(code) => Flow(code, order, pos, active, post)
         /\ FunctionOK(code) /\ OrderOK(code, order)
         /\ pos \in 1 .. Len(order) + 1 /\ pos \in Nat \ {0} /\ Len(order) \in Nat
         /\ active \in Seq(Circles(code, order))
         /\ iter \in [Loops(order) -> 0 .. IterCap]
         /\ Placed(code, order, post) /\ KnownStates(code, post)
<1>1. /\ WalkTypes(code, order, pos, active, iter, post)
      /\ Around(order, pos, active)
      /\ Known(code, order, pos, active, post)
      /\ Ranked(active, iter)
      /\ NoStray(code) => Flow(code, order, pos, active, post)
  BY DEF WalkInv, WalkInvOf
<1>2. /\ FunctionOK(code) /\ OrderOK(code, order)
      /\ pos \in 1 .. Len(order) + 1
      /\ active \in Seq(Circles(code, order))
      /\ iter \in [Loops(order) -> 0 .. IterCap]
      /\ Placed(code, order, post)
  BY <1>1 DEF WalkTypes
<1>3. Len(order) \in Nat /\ \A i \in DOMAIN order : order[i].block \in DOMAIN code
  BY <1>2, PlaceFacts
<1>4. pos \in Nat \ {0}
  BY <1>2, <1>3
<1>5. KnownStates(code, post)
  BY <1>2, <1>3 DEF Placed, KnownStates
<1> QED BY <1>1, <1>2, <1>3, <1>4, <1>5

LEMMA VisitingIsOpen ==
  ASSUME WalkInv, Visiting
  PROVE  Open(order, pos, active)
<1>1. pos \in DOMAIN order
  BY WalkParts, PlaceFacts DEF Visiting
<1>2. ASSUME active # << >> PROVE pos \in Within(order, active[Len(active)].at)
  <2>1. /\ Len(active) \in DOMAIN active
        /\ active[Len(active)].at \in Nat /\ order[active[Len(active)].at].size \in Nat
    BY <1>2, WalkParts, CircleFacts
  <2>2. active[Len(active)].at < pos
    BY <2>1, WalkParts DEF Around
  <2>3. pos <= active[Len(active)].at + order[active[Len(active)].at].size
    BY <1>2 DEF Visiting, CircleEnds, InCircle, Circle
  <2>4. pos \in Nat
    BY WalkParts
  <2> QED BY <2>1, <2>2, <2>3, <2>4 DEF Within
<1> QED BY <1>1, <1>2 DEF Open

LEMMA CircleHasEnded ==
  ASSUME WalkInv, CircleEnds
  PROVE  /\ Ended(order, pos, active) /\ active # << >>
         /\ Len(active) \in DOMAIN active /\ Len(active) \in Nat
         /\ Circle = active[Len(active)] /\ Circle \in Circles(code, order)
         /\ Circle.at \in DOMAIN order /\ Circle.at \in Loops(order) /\ Circle.at \in Nat \ {0}
         /\ Circle.pre \in States(code) /\ Circle.narrowing \in BOOLEAN /\ Circle.round \in Nat
         /\ pos # 1
<1>1. active # << >> /\ Circle = active[Len(active)]
  BY DEF CircleEnds, Circle
<1>2. /\ Len(active) \in DOMAIN active /\ Len(active) \in Nat /\ Circle \in Circles(code, order)
      /\ Circle.at \in DOMAIN order /\ Circle.at \in Loops(order) /\ Circle.at \in Nat \ {0}
      /\ order[Circle.at].size \in Nat
      /\ Circle.pre \in States(code) /\ Circle.narrowing \in BOOLEAN /\ Circle.round \in Nat
  BY <1>1, WalkParts, CircleFacts
<1>3. pos <= Circle.at + order[Circle.at].size + 1
  BY <1>1, <1>2, WalkParts DEF Around
<1>4. ~ (pos <= Circle.at + order[Circle.at].size)
  BY <1>1 DEF CircleEnds, InCircle
<1>5. pos \in Nat
  BY WalkParts
<1>6. pos = Circle.at + order[Circle.at].size + 1 /\ pos # 1
  BY ONLY <1>2, <1>3, <1>4, <1>5
<1> QED BY <1>1, <1>2, <1>6 DEF Ended

LEMMA AnalysisPuts ==
  ASSUME NEW b, NEW pre
  PROVE  AnalyzeBasicBlock(b, pre) = Put(post, b, PostOf(b, pre))
BY DEF AnalyzeBasicBlock, Put

LEMMA AnalysisFacts ==
  ASSUME FunctionOK(code), OrderOK(code, order), NEW x \in DOMAIN order, NEW pre \in States(code)
  PROVE  LET s == PostOf(order[x].block, pre)
         IN /\ s \in States(code)
            /\ s.val = Hull(Through(code, order[x].block, pre.val))
            /\ NoStray(code) /\ CarriedBefore(code, order[x].block, pre) => Analysed(code, order, x, pre, s)
<1>1. order[x].block \in Blocks
  BY PlaceFacts DEF Blocks
<1> QED BY <1>1, PostFacts DEF Analysed

LEMMA PreFacts ==
  ASSUME WalkInv, Open(order, pos, active)
  PROVE  LET b == order[pos].block
         IN /\ PreOf(b) \in States(code)
            /\ NoStray(code) => /\ CarriedBefore(code, b, PreOf(b))
                                /\ IF pos = 1 THEN InitVals \subseteq PreOf(b).val
                                   ELSE Gathers(code, post, b, PreOf(b))
<1>1. pos \in DOMAIN order /\ 1 \in DOMAIN order /\ order[1].block = 0
  BY WalkParts DEF Open, OrderOK
<1>2. order[pos].block = 0 <=> pos = 1
  BY <1>1, WalkParts DEF OrderOK
<1>3. CASE pos = 1
  <2>1. PreOf(order[pos].block) = Plain(Hull(InitVals))
    BY <1>1, <1>3 DEF PreOf
  <2>2. Hull(InitVals) \subseteq Value /\ Hull(InitVals) = Hull(Hull(InitVals)) /\ InitVals \subseteq Hull(InitVals)
    BY MirFixpointAssumption, HullFacts
  <2>3. /\ Plain(Hull(InitVals)) \in States(code) /\ Plain(Hull(InitVals)).val = Hull(InitVals)
        /\ DOMAIN Plain(Hull(InitVals)).exits = {}
    BY <2>2, PlainState
  <2> QED BY <1>3, <2>1, <2>2, <2>3 DEF CarriedBefore
<1>4. CASE pos # 1
  <2>1. PreOf(order[pos].block) = FromPredecessors(order[pos].block)
    BY <1>2, <1>4 DEF PreOf
  <2>2. FromPredecessors(order[pos].block) \in States(code)
    BY WalkParts, PredType
  <2>3. ASSUME NoStray(code)
        PROVE  Gathers(code, post, order[pos].block, FromPredecessors(order[pos].block))
    <3>1. AllCarried(code, post)
      BY <2>3, WalkParts DEF Flow, Conditions
    <3> QED BY <2>3, <3>1, WalkParts, PredFacts
  <2> QED BY <1>4, <2>1, <2>2, <2>3 DEF Gathers
<1> QED BY <1>3, <1>4

LEMMA NewPreFacts ==
  ASSUME WalkInv, CircleEnds
  PROVE  /\ NewPre \in States(code)
         /\ NoStray(code) =>
              /\ Heard(code, order, post, Circle.at, NewPre.val)
              /\ \A T \in SUBSET Value : T = Hull(T) /\ Heard(code, order, post, Circle.at, T)
                                           => NewPre.val \subseteq T
<1>1. NewPre \in States(code)
  BY WalkParts, PredType DEF NewPre
<1>2. ASSUME NoStray(code)
      PROVE  Gathers(code, post, order[Circle.at].block, NewPre)
  <2>1. AllCarried(code, post)
    BY <1>2, WalkParts DEF Flow, Conditions
  <2> QED BY <1>2, <2>1, WalkParts, PredFacts DEF NewPre, HeadBlock
<1> QED BY <1>1, <1>2, WalkParts, CircleHasEnded, GathersAtPlace

(* A block, or the head of a circle, is visited.                           *)
LEMMA VisitKeeps ==
  ASSUME WalkInv, Open(order, pos, active),
         NEW pre, pre = PreOf(order[pos].block), NEW B, Opened(order, pos, active, B, pre),
         NEW J \in [Loops(order) -> 0 .. IterCap], Ranked(B, J)
  PROVE  WalkInvOf(code, order, pos + 1, B, J, AnalyzeBasicBlock(order[pos].block, pre))
<1> DEFINE s == PostOf(order[pos].block, pre)
           Q == Put(post, order[pos].block, s)
<1>1. pos \in DOMAIN order /\ pos \in 1 .. Len(order) /\ Len(order) \in Nat
  BY WalkParts, PlaceFacts DEF Open
<1>2. pre \in States(code)
  BY PreFacts
<1>3. s \in States(code) /\ s.val = Hull(Through(code, order[pos].block, pre.val))
  BY <1>1, <1>2, WalkParts, AnalysisFacts
<1>4. AnalyzeBasicBlock(order[pos].block, pre) = Q
  BY AnalysisPuts
<1> HIDE DEF s
<1>5. WalkTypes(code, order, pos + 1, B, J, Q)
  <2>1. B \in Seq(Circles(code, order))
    BY <1>1, <1>2, WalkParts, OpenedFacts
  <2>2. Placed(code, order, Q)
    BY <1>1, <1>3, WalkParts, PutFacts
  <2>3. pos + 1 \in 1 .. Len(order) + 1
    BY <1>1
  <2> HIDE DEF Q
  <2> QED BY <2>1, <2>2, <2>3, WalkParts DEF WalkTypes
<1>6. Around(order, pos + 1, B)
  <2>1. CASE ~ order[pos].loop /\ B = active
    BY <2>1, WalkParts, AroundVertex
  <2>2. CASE order[pos].loop /\ B = Append(active, NewCircle(pos, pre))
    <3>1. NewCircle(pos, pre) \in Circles(code, order) /\ NewCircle(pos, pre).at = pos
      BY <1>1, <1>2, <2>2 DEF Circles, Loops, NewCircle
    <3> QED BY <2>2, <3>1, WalkParts, AroundCircle
  <2> QED BY <2>1, <2>2 DEF Opened
<1>7. Known(code, order, pos + 1, B, Q)
  BY <1>2, <1>3, WalkParts, KnownVisit
<1>8. ASSUME NoStray(code) PROVE Flow(code, order, pos + 1, B, Q)
  <2>1. Analysed(code, order, pos, pre, s)
    BY <1>1, <1>2, <1>8, WalkParts, PreFacts, AnalysisFacts DEF s
  <2>2. IF pos = 1 THEN InitVals \subseteq pre.val ELSE Gathers(code, post, order[pos].block, pre)
    BY <1>8, PreFacts
  <2> QED BY <1>8, <2>1, <2>2, WalkParts, FlowVisit
<1> HIDE DEF Q
<1> QED BY <1>4, <1>5, <1>6, <1>7, <1>8 DEF WalkInvOf

(* The head of the innermost circle is analysed again.                     *)
LEMMA AgainKeeps ==
  ASSUME WalkInv, CircleEnds, NEW r \in Circles(code, order), r.at = Circle.at,
         NEW J \in [Loops(order) -> 0 .. IterCap], RankedAs(r, J[r.at]),
         \A i \in Loops(order) : i # r.at => J[i] = iter[i],
         NoStray(code) =>
           /\ CarriedBefore(code, HeadBlock, r.pre)
           /\ Heard(code, order, post, r.at, r.pre.val)
           /\ r.narrowing \/ (\E k \in DOMAIN active : active[k].narrowing)
                => r.pre.val \subseteq Circle.pre.val
  PROVE  WalkInvOf(code, order, r.at + 1, Renewed(active, r), J, AnalyzeBasicBlock(HeadBlock, r.pre))
<1> DEFINE s == PostOf(order[r.at].block, r.pre)
           Q == Put(post, order[r.at].block, s)
           B == Renewed(active, r)
<1>1. /\ r.at = active[Len(active)].at /\ Circle = active[Len(active)]
      /\ r.at \in DOMAIN order /\ r.at \in Nat \ {0} /\ r.pre \in States(code)
      /\ active # << >> /\ Ended(order, pos, active) /\ HeadBlock = order[r.at].block
  BY CircleHasEnded DEF HeadBlock, Circles
<1>2. s \in States(code) /\ s.val = Hull(Through(code, order[r.at].block, r.pre.val))
  BY <1>1, WalkParts, AnalysisFacts
<1>3. AnalyzeBasicBlock(HeadBlock, r.pre) = Q
  BY <1>1, AnalysisPuts
<1> HIDE DEF s
<1>4. WalkTypes(code, order, r.at + 1, B, J, Q)
  <2>1. B \in Seq(Circles(code, order))
    BY <1>1, WalkParts, RenewedFacts
  <2>2. Placed(code, order, Q)
    BY <1>1, <1>2, WalkParts, PutFacts
  <2>3. r.at + 1 \in 1 .. Len(order) + 1
    BY <1>1, WalkParts, PlaceFacts
  <2> HIDE DEF Q, B
  <2> QED BY <2>1, <2>2, <2>3, WalkParts DEF WalkTypes
<1>5. Around(order, r.at + 1, B)
  BY <1>1, WalkParts, AroundAgain
<1>6. Known(code, order, r.at + 1, B, Q)
  BY <1>1, <1>2, WalkParts, KnownAgain
<1>7. Ranked(B, J)
  <2>1. ASSUME NEW k \in DOMAIN active, k # Len(active) PROVE J[active[k].at] = iter[active[k].at]
    <3>1. active[k].at < active[Len(active)].at
      BY <1>1, <2>1, WalkParts, InnermostIsLast
    <3>2. active[k].at \in Loops(order) /\ active[k].at \in Nat
      BY WalkParts, CircleFacts
    <3>3. active[k].at # r.at
      BY <1>1, <3>1, <3>2
    <3> QED BY <3>2, <3>3
  <2> QED BY <1>1, <2>1, WalkParts, RankedAgain
<1>8. ASSUME NoStray(code) PROVE Flow(code, order, r.at + 1, B, Q)
  <2>1. Analysed(code, order, r.at, r.pre, s)
    BY <1>1, <1>8, WalkParts, AnalysisFacts DEF s
  <2> QED BY <1>1, <1>8, <2>1, WalkParts, FlowAgain
<1> HIDE DEF Q, B
<1> QED BY <1>3, <1>4, <1>5, <1>6, <1>7, <1>8 DEF WalkInvOf, B

(* The innermost circle is left.                                           *)
LEMMA LeavingKeeps ==
  ASSUME WalkInv, CircleEnds,
         NoStray(code) => \A i \in DOMAIN order : Has(order, post, i) /\ Edge(code, order, i, Circle.at)
                                                    => Covers(code, order, post, i, Circle.at)
  PROVE  WalkInvOf(code, order, pos, AllButLast(active), iter, post)
<1>1. active # << >> /\ Ended(order, pos, active) /\ Circle = active[Len(active)]
  BY CircleHasEnded
<1>2. WalkTypes(code, order, pos, AllButLast(active), iter, post)
  <2>1. AllButLast(active) \in Seq(Circles(code, order))
    BY <1>1, WalkParts, AllButLastFacts
  <2> QED BY <2>1, WalkParts DEF WalkTypes
<1>3. Around(order, pos, AllButLast(active))
  BY <1>1, WalkParts, AroundLeft
<1>4. Known(code, order, pos, AllButLast(active), post)
  BY <1>1, WalkParts, KnownLeft
<1>5. Ranked(AllButLast(active), iter)
  BY <1>1, WalkParts, RankedLeft
<1>6. ASSUME NoStray(code) PROVE Flow(code, order, pos, AllButLast(active), post)
  BY <1>1, <1>6, WalkParts, FlowLeft
<1> QED BY <1>2, <1>3, <1>4, <1>5, <1>6 DEF WalkInvOf

-----------------------------------------------------------------------------
(* One step of each kind.                                                  *)

LEMMA OrderStays ==
  ASSUME WalkNext
  PROVE  code' = code /\ order' = order
BY DEF WalkNext, VisitVertex, VisitCircle, Grow, Stabilise, Narrow, EndNarrowing, Again, LeaveCircle

LEMMA VertexStep ==
  ASSUME WalkInv, VisitVertex
  PROVE  WalkInvOf(code, order, pos', active', iter', post') /\ pos' # 1
<1> DEFINE pre == PreOf(order[pos].block)
<1>1. Open(order, pos, active)
  BY VisitingIsOpen DEF VisitVertex
<1>2. /\ ~ order[pos].loop /\ pos' = pos + 1 /\ active' = active /\ iter' = iter
      /\ post' = AnalyzeBasicBlock(order[pos].block, pre)
  BY DEF VisitVertex
<1>3. Opened(order, pos, active, active, pre)
  BY <1>2 DEF Opened
<1> HIDE DEF pre
<1>4. WalkInvOf(code, order, pos + 1, active, iter, AnalyzeBasicBlock(order[pos].block, pre))
  BY <1>1, <1>3, WalkParts, VisitKeeps DEF pre
<1>5. pos + 1 # 1
  BY WalkParts
<1> QED BY <1>2, <1>4, <1>5

LEMMA CircleStep ==
  ASSUME WalkInv, VisitCircle
  PROVE  WalkInvOf(code, order, pos', active', iter', post') /\ pos' # 1
<1> DEFINE pre == PreOf(order[pos].block)
           B == Append(active, NewCircle(pos, pre))
           J == [iter EXCEPT ![pos] = UpTo(IterCap, @ + 1)]
<1>1. Open(order, pos, active)
  BY VisitingIsOpen DEF VisitCircle
<1>2. /\ order[pos].loop /\ pos' = pos + 1 /\ iter' = J /\ active' = B
      /\ post' = AnalyzeBasicBlock(order[pos].block, pre)
  BY DEF VisitCircle, NewCircle
<1>3. Opened(order, pos, active, B, pre)
  BY <1>2 DEF Opened
<1>4. pre \in States(code)
  BY <1>1, PreFacts
<1> HIDE DEF pre
<1>5. Ranked(B, J) /\ J \in [Loops(order) -> 0 .. IterCap]
  BY <1>1, <1>2, <1>4, WalkParts, RankedVisit
<1> HIDE DEF B, J
<1>6. WalkInvOf(code, order, pos + 1, B, J, AnalyzeBasicBlock(order[pos].block, pre))
  BY <1>1, <1>3, <1>5, VisitKeeps DEF pre
<1>7. pos + 1 # 1
  BY WalkParts
<1> QED BY <1>2, <1>6, <1>7

LEMMA AgainIs ==
  ASSUME WalkInv, CircleEnds, NEW pre \in States(code), NEW narrowing \in BOOLEAN, NEW round \in Nat,
         Again(pre, narrowing, round)
  PROVE  \E r \in Circles(code, order) :
           /\ r.at = Circle.at /\ r.pre = pre /\ r.narrowing = narrowing
           /\ r.round = UpTo(RoundCap, round)
           /\ pos' = r.at + 1 /\ active' = Renewed(active, r)
           /\ post' = AnalyzeBasicBlock(HeadBlock, r.pre)
           /\ pos' # 1
<1> DEFINE r == [at |-> Circle.at, pre |-> pre, narrowing |-> narrowing, round |-> UpTo(RoundCap, round)]
<1>1. UpTo(RoundCap, round) \in Nat
  BY Caps, UpToFacts
<1>2. Circle.at \in Loops(order) /\ Circle.at \in Nat \ {0}
  BY CircleHasEnded
<1>3. r \in Circles(code, order)
  BY <1>1, <1>2 DEF Circles
<1>4. pos' = r.at + 1 /\ active' = Renewed(active, r) /\ post' = AnalyzeBasicBlock(HeadBlock, r.pre)
  BY DEF Again, Renewed, AllButLast, Outer
<1>5. pos' # 1
  BY <1>2, <1>4
<1> QED BY <1>3, <1>4, <1>5

(* While a circle is narrowed, no circle inside it grows.                  *)
LEMMA NarrowedIsHeard ==
  ASSUME WalkInv, CircleEnds, NoStray(code), \E k \in DOMAIN active : active[k].narrowing
  PROVE  Heard(code, order, post, Circle.at, Circle.pre.val) /\ Leq(NewPre, Circle.pre)
<1>1. PICK k \in DOMAIN active : active[k].narrowing
  OBVIOUS
<1>2. Narrowing(code, order, active, post, k)
  BY <1>1, WalkParts DEF Flow
<1>3. Len(active) \in DOMAIN active /\ Len(active) >= k /\ Circle = active[Len(active)]
  BY <1>1, WalkParts, CircleFacts, CircleHasEnded
<1>4. Heard(code, order, post, Circle.at, Circle.pre.val)
  BY <1>2, <1>3 DEF Narrowing, Heard
<1>5. Circle.pre.val \subseteq Value /\ Circle.pre.val = Hull(Circle.pre.val)
  BY CircleHasEnded, StateFacts
<1>6. NewPre.val \subseteq Circle.pre.val
  BY <1>4, <1>5, NewPreFacts
<1> QED BY <1>4, <1>6 DEF Leq

LEMMA GrowStep ==
  ASSUME WalkInv, Grow
  PROVE  WalkInvOf(code, order, pos', active', iter', post') /\ pos' # 1
<1> DEFINE pre == Extrapolate(Circle.at, Circle.pre, NewPre)
           J == [iter EXCEPT ![Circle.at] = UpTo(IterCap, @ + 1)]
           n == iter[Circle.at]
<1>1. /\ CircleEnds /\ ~ Circle.narrowing /\ ~ (NewPre.val \subseteq Circle.pre.val)
      /\ Again(pre, FALSE, Circle.round + 1) /\ iter' = J
  BY DEF Grow, Leq
<1>2. /\ Circle.at \in Loops(order) /\ Circle.pre \in States(code) /\ Circle.round \in Nat
      /\ Len(active) \in DOMAIN active /\ Circle = active[Len(active)]
  BY <1>1, CircleHasEnded
<1>3. n \in 0 .. IterCap
  BY <1>2, WalkParts
<1>4. RankedAs(Circle, n)
  BY <1>2, WalkParts, RankedIs
<1>5. pre = IF n <= WideningDelay THEN Join(Circle.pre, NewPre) ELSE WideningWith(Circle.pre, NewPre)
  BY DEF Extrapolate
<1>6. NewPre \in States(code)
  BY <1>1, NewPreFacts
<1> HIDE DEF pre, n
<1>7. ASSUME NEW r, ~ r.narrowing, r.round = UpTo(RoundCap, Circle.round + 1), r.pre = pre
      PROVE  /\ pre \in States(code) /\ DOMAIN pre.exits = {} /\ NewPre.val \subseteq pre.val
             /\ RankedAs(r, UpTo(IterCap, n + 1))
  <2>1. /\ Circle.round + Rank(Circle.pre.val) <= (IF WideningDelay = 0 THEN 1 ELSE WideningDelay) + 3
        /\ n <= WideningDelay => Circle.round <= n
    BY <1>1, <1>4 DEF RankedAs
  <2>2. r.pre = IF n <= WideningDelay THEN Join(Circle.pre, NewPre) ELSE WideningWith(Circle.pre, NewPre)
    BY <1>5, <1>7
  <2>3. /\ r.pre \in States(code) /\ DOMAIN r.pre.exits = {} /\ NewPre.val \subseteq r.pre.val
        /\ RankedAs(r, UpTo(IterCap, n + 1))
    BY <1>1, <1>2, <1>3, <1>6, <1>7, <2>1, <2>2, GrowthIsRanked
  <2> QED BY <1>7, <2>3
<1>8. pre \in States(code)
  <2> DEFINE r == [pre |-> pre, narrowing |-> FALSE, round |-> UpTo(RoundCap, Circle.round + 1)]
  <2>1. ~ r.narrowing /\ r.round = UpTo(RoundCap, Circle.round + 1) /\ r.pre = pre
    OBVIOUS
  <2> HIDE DEF r
  <2> QED BY <1>7, <2>1
<1>9. PICK r \in Circles(code, order) :
        /\ r.at = Circle.at /\ r.pre = pre /\ r.narrowing = FALSE
        /\ r.round = UpTo(RoundCap, Circle.round + 1)
        /\ pos' = r.at + 1 /\ active' = Renewed(active, r)
        /\ post' = AnalyzeBasicBlock(HeadBlock, r.pre)
        /\ pos' # 1
  <2>1. Circle.round + 1 \in Nat
    BY <1>2
  <2> QED BY <1>1, <1>8, <2>1, AgainIs
<1>10. /\ J \in [Loops(order) -> 0 .. IterCap] /\ J[r.at] = UpTo(IterCap, n + 1)
       /\ \A i \in Loops(order) : i # r.at => J[i] = iter[i]
  <2>1. UpTo(IterCap, n + 1) \in 0 .. IterCap
    BY <1>3, Caps, UpToFacts
  <2> QED BY <1>2, <1>9, <2>1, WalkParts DEF n
<1> HIDE DEF J
<1>11. DOMAIN pre.exits = {} /\ NewPre.val \subseteq pre.val /\ RankedAs(r, J[r.at])
  BY <1>7, <1>9, <1>10
<1>12. ASSUME NoStray(code)
       PROVE  /\ CarriedBefore(code, HeadBlock, r.pre)
              /\ Heard(code, order, post, r.at, r.pre.val)
              /\ ~ r.narrowing /\ ~ \E k \in DOMAIN active : active[k].narrowing
  <2>1. CarriedBefore(code, HeadBlock, r.pre)
    BY <1>9, <1>11 DEF CarriedBefore
  <2>2. Heard(code, order, post, r.at, r.pre.val)
    BY <1>1, <1>9, <1>11, <1>12, NewPreFacts DEF Heard
  <2>3. ~ \E k \in DOMAIN active : active[k].narrowing
    BY <1>1, <1>12, NarrowedIsHeard DEF Leq
  <2> QED BY <1>9, <2>1, <2>2, <2>3
<1>13. WalkInvOf(code, order, r.at + 1, Renewed(active, r), J, AnalyzeBasicBlock(HeadBlock, r.pre))
  BY <1>1, <1>9, <1>10, <1>11, <1>12, AgainKeeps
<1> QED BY <1>1, <1>9, <1>13

(* All that its head is told is allowed for when it is below the state     *)
(* that was last before it.                                                *)
LEMMA HeardByTheHead ==
  ASSUME WalkInv, CircleEnds, Heard(code, order, post, Circle.at, Circle.pre.val)
  PROVE  \A i \in DOMAIN order : Has(order, post, i) /\ Edge(code, order, i, Circle.at)
                                   => Covers(code, order, post, i, Circle.at)
<1>1. /\ Circle = active[Len(active)] /\ Len(active) \in DOMAIN active /\ Circle.at \in DOMAIN order
      /\ Circle.pre \in States(code)
  BY CircleHasEnded
<1>2. post[order[Circle.at].block].val = Hull(Through(code, order[Circle.at].block, Circle.pre.val))
  BY <1>1, WalkParts DEF Known, HeadAt
<1>3. Circle.pre.val \subseteq Value /\ order[Circle.at].block \in DOMAIN code
  BY <1>1, WalkParts, PlaceFacts, StateFacts
<1> SUFFICES ASSUME NEW i \in DOMAIN order, Has(order, post, i), Edge(code, order, i, Circle.at)
             PROVE  Covers(code, order, post, i, Circle.at)
  OBVIOUS
<1>4. SaysTo(code, order, post, i, Circle.at) \subseteq Circle.pre.val
  BY DEF Heard
<1>5. Through(code, order[Circle.at].block, SaysTo(code, order, post, i, Circle.at))
        \subseteq Hull(Through(code, order[Circle.at].block, Circle.pre.val))
  BY <1>3, <1>4, WalkParts, HeardIsCovered
<1> QED BY <1>2, <1>5 DEF Covers

LEMMA LeaveStep ==
  ASSUME WalkInv, CircleEnds, LeaveCircle,
         NoStray(code) => Heard(code, order, post, Circle.at, Circle.pre.val)
                            \/ \E k \in DOMAIN active : active[k].narrowing
  PROVE  WalkInvOf(code, order, pos', active', iter', post') /\ pos' # 1
<1>1. pos' = pos /\ active' = AllButLast(active) /\ iter' = iter /\ post' = post
  BY DEF LeaveCircle, Outer, AllButLast
<1>2. pos # 1
  BY CircleHasEnded
<1>3. WalkInvOf(code, order, pos, AllButLast(active), iter, post)
  BY NarrowedIsHeard, HeardByTheHead, LeavingKeeps
<1> QED BY <1>1, <1>2, <1>3

LEMMA StabiliseStep ==
  ASSUME WalkInv, Stabilise
  PROVE  WalkInvOf(code, order, pos', active', iter', post') /\ pos' # 1
<1>1. /\ CircleEnds /\ ~ Circle.narrowing /\ NewPre.val \subseteq Circle.pre.val
      /\ \/ LeaveCircle
         \/ Again(Circle.pre, TRUE, 1) /\ iter' = iter
  BY DEF Stabilise, Leq
<1>2. NoStray(code) => Heard(code, order, post, Circle.at, Circle.pre.val)
  BY <1>1, NewPreFacts DEF Heard
<1>3. CASE LeaveCircle
  BY <1>1, <1>2, <1>3, LeaveStep
<1>4. CASE Again(Circle.pre, TRUE, 1) /\ iter' = iter
  <2>1. Circle.pre \in States(code) /\ Circle = active[Len(active)] /\ Len(active) \in DOMAIN active
    BY <1>1, CircleHasEnded
  <2>2. PICK r \in Circles(code, order) :
          /\ r.at = Circle.at /\ r.pre = Circle.pre /\ r.narrowing = TRUE
          /\ r.round = UpTo(RoundCap, 1)
          /\ pos' = r.at + 1 /\ active' = Renewed(active, r)
          /\ post' = AnalyzeBasicBlock(HeadBlock, r.pre)
          /\ pos' # 1
    <3>1. 1 \in Nat /\ Again(Circle.pre, TRUE, 1)
      BY <1>4
    <3> QED BY <1>1, <2>1, <3>1, AgainIs
  <2>3. RankedAs(r, iter[r.at])
    BY <2>2 DEF RankedAs
  <2>4. NoStray(code) => CarriedBefore(code, HeadBlock, r.pre)
    BY <2>1, <2>2, WalkParts DEF Flow, Conditions, HeadAt, HeadBlock
  <2>5. WalkInvOf(code, order, r.at + 1, Renewed(active, r), iter, AnalyzeBasicBlock(HeadBlock, r.pre))
    BY <1>1, <1>2, <2>2, <2>3, <2>4, WalkParts, AgainKeeps
  <2> QED BY <1>4, <2>2, <2>5
<1> QED BY <1>1, <1>3, <1>4

LEMMA NarrowStep ==
  ASSUME WalkInv, Narrow
  PROVE  WalkInvOf(code, order, pos', active', iter', post') /\ pos' # 1
<1> DEFINE pre == Meet(Circle.pre, NewPre)
<1>1. CircleEnds /\ Circle.narrowing /\ Again(pre, TRUE, Circle.round + 1) /\ iter' = iter
  BY DEF Narrow, Refine, NarrowingWith
<1>2. /\ Circle.pre \in States(code) /\ Circle = active[Len(active)] /\ Len(active) \in DOMAIN active
      /\ Circle.round \in Nat
  BY <1>1, CircleHasEnded
<1> DEFINE S == Circle.pre.val \intersect NewPre.val
<1>3. S \subseteq Value /\ S = Hull(S)
  <2>1. Circle.pre.val \subseteq Value /\ Circle.pre.val = Hull(Circle.pre.val)
    BY <1>2, StateFacts
  <2>2. NewPre.val \subseteq Value /\ NewPre.val = Hull(NewPre.val)
    BY <1>1, NewPreFacts, StateFacts
  <2> QED BY <2>1, <2>2, IntersectionOfIntervals
<1>4. pre = Plain(S)
  BY DEF Meet
<1> HIDE DEF S
<1>5. pre \in States(code) /\ pre.val = S /\ DOMAIN pre.exits = {}
  BY <1>3, <1>4, PlainState
<1> HIDE DEF pre
<1>6. PICK r \in Circles(code, order) :
        /\ r.at = Circle.at /\ r.pre = pre /\ r.narrowing = TRUE
        /\ r.round = UpTo(RoundCap, Circle.round + 1)
        /\ pos' = r.at + 1 /\ active' = Renewed(active, r)
        /\ post' = AnalyzeBasicBlock(HeadBlock, r.pre)
        /\ pos' # 1
  <2>1. Circle.round + 1 \in Nat
    BY <1>2
  <2> QED BY <1>1, <1>5, <2>1, AgainIs
<1>7. RankedAs(r, iter[r.at])
  BY <1>6 DEF RankedAs
<1>8. ASSUME NoStray(code)
      PROVE  /\ CarriedBefore(code, HeadBlock, r.pre)
             /\ Heard(code, order, post, r.at, r.pre.val)
  <2>1. Heard(code, order, post, Circle.at, Circle.pre.val)
    BY <1>1, <1>2, <1>8, NarrowedIsHeard
  <2>2. Heard(code, order, post, Circle.at, NewPre.val)
    BY <1>1, <1>8, NewPreFacts
  <2>3. Heard(code, order, post, Circle.at, S)
    BY <2>1, <2>2 DEF Heard, S
  <2> QED BY <1>5, <1>6, <2>3 DEF CarriedBefore
<1>9. r.pre.val \subseteq Circle.pre.val
  BY <1>5, <1>6 DEF S
<1>10. WalkInvOf(code, order, r.at + 1, Renewed(active, r), iter, AnalyzeBasicBlock(HeadBlock, r.pre))
  BY <1>1, <1>6, <1>7, <1>8, <1>9, WalkParts, AgainKeeps
<1> QED BY <1>1, <1>6, <1>10

LEMMA EndStep ==
  ASSUME WalkInv, EndNarrowing
  PROVE  WalkInvOf(code, order, pos', active', iter', post') /\ pos' # 1
<1>1. CircleEnds /\ Circle.narrowing /\ LeaveCircle
  BY DEF EndNarrowing
<1>2. \E k \in DOMAIN active : active[k].narrowing
  BY <1>1, CircleHasEnded
<1> QED BY <1>1, <1>2, LeaveStep

-----------------------------------------------------------------------------
(* Every step keeps the invariant, and none returns to the first place.    *)
LEMMA WalkSteps ==
  ASSUME WalkInv, WalkNext
  PROVE  WalkInv' /\ pos' # 1
<1>1. WalkInvOf(code, order, pos', active', iter', post') /\ pos' # 1
  BY VertexStep, CircleStep, GrowStep, StabiliseStep, NarrowStep, EndStep DEF WalkNext
<1>2. code' = code /\ order' = order
  BY OrderStays
<1> QED BY <1>1, <1>2 DEF WalkInv

LEMMA WalkBegins ==
  ASSUME WalkInit, OrderIsWeak
  PROVE  WalkInv
<1>1. FunctionOK(code) /\ OrderOK(code, order)
  BY MirFixpointAssumption, OrderFacts DEF WalkInit, OrderIsWeak
<1>2. pos = 1 /\ active = << >> /\ DOMAIN active = {} /\ DOMAIN post = {}
  BY DEF WalkInit
<1>3. iter \in [Loops(order) -> 0 .. IterCap]
  BY Caps DEF WalkInit, Loops
<1>4. pos \in 1 .. Len(order) + 1
  BY <1>1, <1>2, PlaceFacts
<1>5. WalkTypes(code, order, pos, active, iter, post)
  <2>1. active \in Seq(Circles(code, order))
    BY <1>2
  <2>2. post \in [DOMAIN post -> States(code)]
    BY <1>2 DEF WalkInit
  <2>3. Placed(code, order, post)
    BY <1>2, <2>2 DEF Placed
  <2> QED BY <1>1, <1>3, <1>4, <2>1, <2>3 DEF WalkTypes
<1>6. Around(order, pos, active)
  <2>1. \A i \in Loops(order) : ~ (i < pos)
    BY <1>1, <1>2, PlaceFacts
  <2> QED BY <1>2, <2>1 DEF Around
<1>7. Known(code, order, pos, active, post) /\ Ranked(active, iter)
  BY <1>2 DEF Known, Ranked
<1>8. Flow(code, order, pos, active, post)
  <2>1. \A j \in DOMAIN order : ~ (j < pos)
    BY <1>1, <1>2, PlaceFacts
  <2> QED BY <1>2, <2>1 DEF Flow, Conditions, AllCarried, CoveredBehind
<1> QED BY <1>5, <1>6, <1>7, <1>8 DEF WalkInv, WalkInvOf

LEMMA WalkIsInvariant == WalkSpec /\ OrderIsWeak => [](WalkInv /\ OrderIsWeak)
<1>1. WalkInit /\ OrderIsWeak => WalkInv /\ OrderIsWeak
  BY WalkBegins
<1>2. WalkInv /\ OrderIsWeak /\ [WalkNext]_walkVars => (WalkInv /\ OrderIsWeak)'
  <2>1. CASE WalkInv /\ WalkNext
    BY <2>1, WalkSteps DEF OrderIsWeak
  <2>2. CASE WalkInv /\ OrderIsWeak /\ UNCHANGED walkVars
    <3>1. /\ code' = code /\ order' = order /\ pos' = pos /\ active' = active
          /\ iter' = iter /\ post' = post
      BY <2>2 DEF walkVars
    <3>2. WalkInv'
      BY <2>2, <3>1 DEF WalkInv
    <3>3. OrderIsWeak'
      BY <2>2, <3>1 DEF OrderIsWeak
    <3> QED BY <3>2, <3>3
  <2> QED BY <2>1, <2>2
<1> QED BY <1>1, <1>2, PTL DEF WalkSpec

-----------------------------------------------------------------------------
(* What the invariant is for.                                              *)

LEMMA IterationIsOK ==
  ASSUME WalkInv, OrderIsWeak
  PROVE  IterationOK
<1>1. WalkTypeOK
  <2>1. ASSUME NEW b \in DOMAIN post
        PROVE  /\ b \in Blocks /\ post[b].val \subseteq Value
               /\ post[b].val = Hull(post[b].val)
               /\ DOMAIN post[b].exits \subseteq Blocks
    <3>1. b \in DOMAIN code /\ post[b] \in States(code)
      BY WalkParts DEF KnownStates
    <3>2. post[b].val \subseteq Value /\ post[b].val = Hull(post[b].val) /\ post[b].exits \in ExitsOf(code)
      BY <3>1, StateFacts
    <3>3. DOMAIN post[b].exits \subseteq DOMAIN code
      BY <3>2, ExitsFacts
    <3> QED BY <3>1, <3>2, <3>3 DEF Blocks
  <2>2. ASSUME NEW i \in DOMAIN active
        PROVE  /\ order[active[i].at].loop
               /\ active[i].at < pos /\ pos <= active[i].at + order[active[i].at].size + 1
               /\ i > 1 => LET outer == active[i - 1].at
                           IN outer < active[i].at /\ active[i].at <= outer + order[outer].size
    <3>1. order[active[i].at].loop /\ active[i].at \in Nat /\ DOMAIN active = 1 .. Len(active) /\ Len(active) \in Nat
      BY WalkParts, CircleFacts
    <3>2. active[i].at < pos /\ pos <= active[i].at + order[active[i].at].size + 1
      BY WalkParts DEF Around
    <3>3. ASSUME i > 1
          PROVE  active[i - 1].at < active[i].at /\ active[i].at <= active[i - 1].at + order[active[i - 1].at].size
      <4>1. i - 1 \in DOMAIN active /\ i - 1 < i
        BY <3>1, <3>3
      <4>2. active[i - 1].at < active[i].at /\ active[i].at \in Within(order, active[i - 1].at)
        BY <4>1, WalkParts DEF Around
      <4>3. active[i - 1].at \in Nat /\ order[active[i - 1].at].size \in Nat
        BY <4>1, WalkParts, CircleFacts
      <4> QED BY <3>1, <4>2, <4>3 DEF Within
    <3> QED BY <3>1, <3>2, <3>3
  <2>3. iter \in [DOMAIN iter -> 0 .. IterCap]
    BY WalkParts
  <2> QED BY <2>1, <2>2, <2>3 DEF WalkTypeOK
<1>2. AlwaysAPredecessor
  <2>1. ASSUME NEW i \in 1 .. pos - 1, NEW j, order[j].block \in Leads(code, order[i].block)
        PROVE  EdgesInto(order[j].block) # {}
    <3>1. order[i].block \in DOMAIN post
      BY WalkParts DEF Known
    <3> QED BY <2>1, <3>1, EdgeFacts
  <2>2. ASSUME Visiting, order[pos].block # 0 PROVE EdgesInto(order[pos].block) # {}
    <3>1. pos \in DOMAIN order
      BY <2>2, VisitingIsOpen DEF Open
    <3>2. pos # 1
      BY <2>2, WalkParts DEF OrderOK
    <3>3. PICK i \in 1 .. pos - 1 : Edge(code, order, i, pos)
      BY <3>1, <3>2, WalkParts DEF OrderOK
    <3> QED BY <2>1, <3>3 DEF Edge
  <2>3. ASSUME CircleEnds PROVE EdgesInto(HeadBlock) # {}
    <3>1. /\ Circle.at \in Loops(order) /\ Circle.at \in Nat \ {0} /\ Circle.at \in DOMAIN order
          /\ Circle = active[Len(active)] /\ Ended(order, pos, active)
      BY <2>3, CircleHasEnded
    <3>2. PICK i \in Within(order, Circle.at) : Edge(code, order, i, Circle.at)
      BY <3>1, WalkParts DEF OrderOK
    <3>3. order[Circle.at].size \in Nat
      BY <3>1, WalkParts, PlaceFacts
    <3>4. i \in 1 .. pos - 1
      BY <3>1, <3>2, <3>3 DEF Within, Ended
    <3> QED BY <2>1, <3>2, <3>4 DEF Edge, HeadBlock
  <2> QED BY <2>2, <2>3 DEF AlwaysAPredecessor
<1>3. RoundsAreBounded
  <2> SUFFICES ASSUME NEW i \in DOMAIN active, ~ active[i].narrowing
               PROVE  active[i].round <= (IF WideningDelay = 0 THEN 1 ELSE WideningDelay) + 3
    BY DEF RoundsAreBounded
  <2>1. active[i].round + Rank(active[i].pre.val) <= (IF WideningDelay = 0 THEN 1 ELSE WideningDelay) + 3
    BY WalkParts DEF Ranked
  <2>2. Rank(active[i].pre.val) \in 0 .. 3 /\ active[i].round \in Nat
    BY WalkParts, CircleFacts, RankFacts
  <2> QED BY <2>1, <2>2, Caps
<1> QED BY <1>1, <1>2, <1>3 DEF IterationOK

LEMMA WalkIsSound ==
  ASSUME WalkInv
  PROVE  Sound
<1> SUFFICES ASSUME Done, NoStrayCondition
             PROVE  \A p \in Reachable : Changed(code[p[1]].does, p[2]) \in post[p[1]].val
  BY DEF Sound
<1> DEFINE P == {p \in Blocks \X Value :
                   p[1] \in DOMAIN post /\ Changed(code[p[1]].does, p[2]) \in post[p[1]].val}
<1>1. NoStray(code) /\ Flow(code, order, pos, active, post)
  BY NoStrayOfCode, WalkParts
<1>2. pos = Len(order) + 1 /\ DOMAIN active = {} /\ DOMAIN order = 1 .. Len(order) /\ Len(order) \in Nat
  BY WalkParts, PlaceFacts DEF Done
<1>3. 1 \in DOMAIN order /\ order[1].block = 0 /\ pos > 1
  BY <1>2, WalkParts DEF OrderOK
<1>4. \A i \in DOMAIN order : Has(order, post, i)
  BY <1>2, WalkParts DEF Known, Has
<1>5. {0} \X InitVals \subseteq P
  <2>1. InitVals \subseteq Value /\ 0 \in Blocks /\ 0 \in DOMAIN post
    BY <1>3, <1>4, WalkParts, MirFixpointAssumption DEF FunctionOK, Blocks, Has
  <2>2. Through(code, 0, InitVals) \subseteq post[0].val
    BY <1>1, <1>3 DEF Flow
  <2> QED BY <2>1, <2>2 DEF Through
<1>6. ASSUME NEW p \in P PROVE StepsFrom(p) \subseteq P
  <2> DEFINE b == p[1]
             v == Changed(code[b].does, p[2])
  <2>1. b \in Blocks /\ b \in DOMAIN post /\ v \in post[b].val
    OBVIOUS
  <2>2. post[b].val \subseteq Value
    BY <2>1, WalkParts, StateFacts DEF KnownStates
  <2>3. PICK i \in DOMAIN order : order[i].block = b
    BY <2>1, WalkParts DEF Placed
  <2> HIDE DEF b, v, P
  <2>4. ASSUME NEW k \in DOMAIN code[b].next, v \in Taken(b, k)
        PROVE  <<code[b].next[k], v>> \in P
    <3> DEFINE t == code[b].next[k]
    <3>1. v \in Say(code, b, t, post[b].val)
      <4>1. v \in BranchTaken(code, b, k)
        BY <2>4 DEF Taken, BranchTaken
      <4> QED BY <1>1, <2>1, <2>2, <4>1, WalkParts, TakenIsSaid DEF Blocks
    <3>2. t \in Leads(code, b) /\ t \in Blocks
      BY <2>1, WalkParts, NextFacts DEF Leads, Blocks
    <3> HIDE DEF t
    <3>3. PICK j \in DOMAIN order : order[j].block = t
      <4>1. OrderOK(code, order)
        BY WalkParts
      <4> QED BY <2>3, <3>2, <4>1 DEF OrderOK
    <3>4. Edge(code, order, i, j) /\ j < pos
      BY <1>2, <2>3, <3>2, <3>3 DEF Edge
    <3>5. Covers(code, order, post, i, j)
      BY <1>1, <1>2, <1>4, <3>4 DEF Flow, CoveredBehind
    <3>6. Through(code, t, Say(code, b, t, post[b].val)) \subseteq post[t].val
      BY <2>3, <3>3, <3>5 DEF Covers, SaysTo
    <3>7. Changed(code[t].does, v) \in post[t].val /\ t \in DOMAIN post
      BY <1>4, <3>1, <3>3, <3>6 DEF Through, Has
    <3> QED BY <2>1, <2>2, <3>2, <3>7 DEF P, t
  <2> QED BY <2>4 DEF StepsFrom, b, v
<1>7. P \in SUBSET (Blocks \X Value)
  OBVIOUS
<1> HIDE DEF P
<1>8. Reachable \subseteq P
  BY <1>5, <1>6, <1>7, WalkParts, ReachableWithin
<1> QED BY <1>8 DEF P

(* IterationOK: on every function, with every delay and every number of    *)
(* narrowing rounds, WtoFixPointIterator asks get_state_from_predecessors  *)
(* only for blocks that have a predecessor with a post condition, keeps    *)
(* its circles one inside the other, and analyses a circle a bounded       *)
(* number of times before its state is stable, if the order it walks is a  *)
(* weak topological order of the function.                                 *)
THEOREM IterationHolds == WalkSpec /\ OrderIsWeak => []IterationOK
<1>1. WalkInv /\ OrderIsWeak => IterationOK
  BY IterationIsOK
<1> QED BY <1>1, WalkIsInvariant, PTL

(* Sound: when the iterator has gone through the order, the post condition *)
(* of each block allows every value the function can leave the block with, *)
(* whatever widening gave up and narrowing took back, in circles inside    *)
(* circles too, for every function that carries no condition of a switch   *)
(* past the targets of the switch.                                         *)
THEOREM WalkSoundness == WalkSpec /\ OrderIsWeak => []Sound
<1>1. WalkInv => Sound
  BY WalkIsSound
<1> QED BY <1>1, WalkIsInvariant, PTL
=============================================================================
