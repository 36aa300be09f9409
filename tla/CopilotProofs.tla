----------------------------- MODULE CopilotProofs -----------------------------
(* Proofs about CopilotAgent, CopilotReview, CopilotArms and CopilotPanel, for    *)
(* every corpus, list of profiles, set of tools, budget and number of runs.       *)
EXTENDS MCCopilot, Sequences, FiniteSetTheorems, TLAPS

-----------------------------------------------------------------------------
(* Lemmas on lists                                                                *)

LEMMA AppendAdds ==
  ASSUME NEW S, NEW s \in Seq(S), NEW x \in S
  PROVE  /\ Append(s, x) \in Seq(S) /\ Range(Append(s, x)) = Range(s) \cup {x}
         /\ DOMAIN s \subseteq DOMAIN Append(s, x)
         /\ \A i \in DOMAIN s : Append(s, x)[i] = s[i]
         /\ \A i \in DOMAIN Append(s, x) : i \in DOMAIN s \/ Append(s, x)[i] = x
  <1>1. /\ Append(s, x) \in Seq(S) /\ Len(Append(s, x)) = Len(s) + 1
        /\ \A i \in 1 .. Len(s) : Append(s, x)[i] = s[i]
        /\ Append(s, x)[Len(s) + 1] = x
    OBVIOUS
  <1>2. DOMAIN s = 1 .. Len(s) /\ DOMAIN Append(s, x) = 1 .. Len(s) + 1 /\ Len(s) \in Nat
    BY <1>1
  <1>3. Range(Append(s, x)) = Range(s) \cup {x}
    BY <1>1, <1>2 DEF Range
  <1>. QED
    BY <1>1, <1>2, <1>3

LEMMA RangeFinite ==
  ASSUME NEW D, IsFiniteSet(D), NEW f, f = [x \in D |-> f[x]]
  PROVE  IsFiniteSet({f[x] : x \in D})
  <1>1. f \in Surjection(D, {f[x] : x \in D})
    BY DEF Surjection
  <1>. QED
    BY <1>1, FS_Surjection

LEMMA ListFinite ==
  ASSUME NEW S, NEW s \in Seq(S)
  PROVE  IsFiniteSet(Range(s))
  <1>1. Len(s) \in Nat /\ DOMAIN s = 1 .. Len(s) /\ s = [i \in 1 .. Len(s) |-> s[i]]
    OBVIOUS
  <1>2. IsFiniteSet(1 .. Len(s))
    <2>1. Len(s) \in Nat
      OBVIOUS
    <2>. QED
      BY <2>1, FS_Interval
  <1>. QED
    BY <1>1, <1>2, RangeFinite DEF Range

LEMMA ListMember ==
  ASSUME NEW S, NEW s \in Seq(S), NEW m \in Range(s)
  PROVE  m \in S
  BY DEF Range

LEMMA CasesFinite == IsFiniteSet(Cases)
  BY ArmsAssumption, ListFinite DEF ArmsAssumption, Cases

-----------------------------------------------------------------------------
(* The inductive invariant of the arms.  An aggregate is told by its run, and a   *)
(* directory whose run has ended is the one its aggregate speaks of; a packet     *)
(* shows the texts of two aggregates in the order of its own mapping.             *)

RunsOK(a) ==
  /\ dir[a].done => dir[a].left = <<>> /\ Aggregate(dir[a]) \in Range(made[a])
  /\ \A m \in Range(made[a]) : m.run <= dir[a].run /\ (m.run = dir[a].run => dir[a].done)
  /\ \A m, n \in Range(made[a]) : m.run = n.run => m = n

Shows(p, b, c) ==
  /\ p.packet.runs["baseline"] = b.run /\ p.packet.runs["copilot"] = c.run
  /\ p.packet.cases = Visible(b, c, p.mapping.order)
  /\ b.context = c.context /\ DOMAIN b.files = Cases /\ DOMAIN c.files = Cases
  /\ \A j, k \in Cases : b.files[j].snapshot = c.files[k].snapshot

PacketOK(p, known) ==
  /\ p.mapping.packet = p.packet /\ p.mapping.order \in Orders
  /\ \E b \in Range(known["baseline"]), c \in Range(known["copilot"]) : Shows(p, b, c)

ScoreOK ==
  score # NoFile => \E i \in DOMAIN packets :
    /\ score.runs = packets[i].packet.runs
    /\ score.ratings = Unmask(packets[i].mapping, ReviewOf(i))

ArmsInv ==
  /\ TypeOK
  /\ \A a \in Arms : RunsOK(a)
  /\ \A i \in DOMAIN packets : PacketOK(packets[i], made)
  /\ ScoreOK

Dirs == [run : Nat, context : Contexts, selected : Seq(Cases), files : Files,
         left : Seq(Cases), done : BOOLEAN]

LEMMA ArmsInit ==
  ASSUME Init
  PROVE  ArmsInv
  <1>1. Fresh(0) \in Dirs
    <2>1. <<>> \in Files
      <3>1. <<>> \in [{} -> [text : Texts, snapshot : Nat \ {0}]] /\ {} \in SUBSET Cases
        OBVIOUS
      <3>. QED
        BY <3>1 DEF Files
    <2>. QED
      BY <2>1 DEF Fresh, Dirs, Contexts
  <1>2. TypeOK
    BY <1>1 DEF Init, TypeOK, Dirs
  <1>3. \A a \in Arms : RunsOK(a)
    BY DEF Init, RunsOK, Fresh, Range
  <1>4. DOMAIN packets = {} /\ score = NoFile
    BY DEF Init
  <1>. QED
    BY <1>2, <1>3, <1>4 DEF ArmsInv, ScoreOK

LEMMA MadeMember ==
  ASSUME TypeOK, NEW a \in Arms, NEW m \in Range(made[a])
  PROVE  m \in Aggregates /\ m.run \in Nat
  <1>1. made[a] \in Seq(Aggregates)
    BY DEF TypeOK
  <1>2. m \in Aggregates
    BY <1>1, ListMember
  <1>. QED
    BY <1>2 DEF Aggregates

(* A directory, and what replacing its fields makes of it.                        *)
Made(n, c, s, f, l, d) ==
  [run |-> n, context |-> c, selected |-> s, files |-> f, left |-> l, done |-> d]

LEMMA DirLeftFiles ==
  ASSUME NEW r \in Dirs, NEW x, NEW y
  PROVE  [[r EXCEPT !.left = x] EXCEPT !.files = y] =
           Made(r.run, r.context, r.selected, y, x, r.done)
  <1>1. [r EXCEPT !.left = x] = Made(r.run, r.context, r.selected, r.files, x, r.done)
    BY DEF Dirs, Made
  <1>2. [Made(r.run, r.context, r.selected, r.files, x, r.done) EXCEPT !.files = y] =
          Made(r.run, r.context, r.selected, y, x, r.done)
    BY DEF Made
  <1>. QED
    BY <1>1, <1>2, Zenon

LEMMA DirDone ==
  ASSUME NEW r \in Dirs, NEW y
  PROVE  [r EXCEPT !.done = y] = Made(r.run, r.context, r.selected, r.files, r.left, y)
  BY DEF Dirs, Made

LEMMA FreshDir ==
  ASSUME NEW n, NEW x, NEW y
  PROVE  [Fresh(n) EXCEPT !.context = x, !.selected = y, !.left = y] =
           Made(n, x, y, <<>>, y, FALSE)
  <1>. DEFINE e == <<>>  no == FALSE  none == "none"
  <1>1. Fresh(n) = Made(n, none, e, e, e, no)
    BY DEF Fresh, Made
  <1>. HIDE DEF e, no, none
  <1>2. [Made(n, none, e, e, e, no) EXCEPT !.context = x] = Made(n, x, e, e, e, no)
    BY DEF Made
  <1>3. [Made(n, x, e, e, e, no) EXCEPT !.selected = y] = Made(n, x, y, e, e, no)
    BY DEF Made
  <1>4. [Made(n, x, y, e, e, no) EXCEPT !.left = y] = Made(n, x, y, e, y, no)
    BY DEF Made
  <1>5. [Fresh(n) EXCEPT !.context = x, !.selected = y, !.left = y] =
          [[[Fresh(n) EXCEPT !.context = x] EXCEPT !.selected = y] EXCEPT !.left = y]
    BY Zenon
  <1>6. [Fresh(n) EXCEPT !.context = x, !.selected = y, !.left = y] = Made(n, x, y, e, y, no)
    BY <1>1, <1>2, <1>3, <1>4, <1>5, Zenon
  <1>. QED
    BY <1>6 DEF e, no

(* A step that leaves packets and score, and only adds aggregates.                *)
LEMMA PacketsKeep ==
  ASSUME ArmsInv, UNCHANGED <<packets, score>>,
         \A a \in Arms : Range(made[a]) \subseteq Range(made'[a])
  PROVE  (\A i \in DOMAIN packets : PacketOK(packets[i], made))' /\ ScoreOK'
  <1>1. Range(made["baseline"]) \subseteq Range(made'["baseline"])
        /\ Range(made["copilot"]) \subseteq Range(made'["copilot"])
    BY DEF Arms
  <1>2. ASSUME NEW i \in DOMAIN packets PROVE PacketOK(packets'[i], made')
    BY <1>1 DEF ArmsInv, PacketOK
  <1>3. ScoreOK'
    BY DEF ArmsInv, ScoreOK, ReviewOf
  <1>. QED
    BY <1>2, <1>3

LEMMA StartStep ==
  ASSUME ArmsInv, NEW a \in Arms, NEW selected \in {Corpus, Tail(Corpus)},
         NEW context \in {"bare", "registry"}, Start(a, selected, context)
  PROVE  ArmsInv'
  <1>. DEFINE d == [run |-> dir[a].run + 1, context |-> context, selected |-> selected,
                    files |-> <<>>, left |-> selected, done |-> FALSE]
  <1>1. dir' = [dir EXCEPT ![a] = d] /\ UNCHANGED <<snapshot, made, packets, score>>
    <2>1. [Fresh(dir[a].run + 1) EXCEPT !.context = context, !.selected = selected,
                                        !.left = selected] = d
      BY FreshDir DEF Made
    <2>2. UNCHANGED <<snapshot, made, packets, score>>
      BY DEF Start
    <2>3. dir' = [dir EXCEPT ![a] = [Fresh(dir[a].run + 1) EXCEPT
                                       !.context = context, !.selected = selected,
                                       !.left = selected]]
      BY DEF Start
    <2>. HIDE DEF d
    <2>. QED
      BY <2>1, <2>2, <2>3, Zenon
  <1>2. d \in Dirs
    <2>1. selected \in Seq(Cases)
      BY ArmsAssumption DEF ArmsAssumption
    <2>2. <<>> \in Files
      <3>1. <<>> \in [{} -> [text : Texts, snapshot : Nat \ {0}]] /\ {} \in SUBSET Cases
        OBVIOUS
      <3>. QED
        BY <3>1 DEF Files
    <2>3. dir[a].run + 1 \in Nat
      BY DEF ArmsInv, TypeOK
    <2>. QED
      BY <2>1, <2>2, <2>3 DEF Dirs, Contexts
  <1>3. TypeOK'
    BY <1>1, <1>2 DEF ArmsInv, TypeOK, Dirs
  <1>4. d.run = dir[a].run + 1 /\ ~d.done
    OBVIOUS
  <1>. HIDE DEF d
  <1>5. ASSUME NEW x \in Arms PROVE RunsOK(x)'
    <2>1. CASE x = a
      <3>1. dir'[x] = d /\ made'[x] = made[x]
        BY <1>1, <2>1 DEF ArmsInv, TypeOK
      <3>2. \A m \in Range(made[x]) : m.run \in Nat
        BY MadeMember DEF ArmsInv
      <3>3. \A m \in Range(made[x]) : m.run <= dir[a].run /\ dir[a].run \in Nat
        BY <2>1 DEF ArmsInv, TypeOK, RunsOK
      <3>4. \A m, n \in Range(made[x]) : m.run = n.run => m = n
        BY DEF ArmsInv, RunsOK
      <3>5. \A m \in Range(made[x]) : m.run <= d.run /\ m.run # d.run
        BY <3>2, <3>3, <1>4
      <3>. QED
        BY <3>1, <3>4, <3>5, <1>4 DEF RunsOK
    <2>2. CASE x # a
      <3>1. dir'[x] = dir[x] /\ made'[x] = made[x]
        BY <1>1, <2>2 DEF ArmsInv, TypeOK
      <3>. QED
        BY <3>1 DEF ArmsInv, RunsOK
    <2>. QED
      BY <2>1, <2>2
  <1>. QED
    BY <1>1, <1>3, <1>5, PacketsKeep DEF ArmsInv

LEMMA RunCaseStep ==
  ASSUME ArmsInv, NEW a \in Arms, NEW text \in {"good", "plain", "failed"}, RunCase(a, text)
  PROVE  ArmsInv'
  <1>. DEFINE c == Head(dir[a].left)
              files1 == IF text = "failed" THEN dir[a].files
                        ELSE [k \in DOMAIN dir[a].files \cup {c} |->
                                IF k = c THEN [text |-> text, snapshot |-> snapshot]
                                ELSE dir[a].files[k]]
              d == [run |-> dir[a].run, context |-> dir[a].context,
                    selected |-> dir[a].selected, files |-> files1,
                    left |-> Tail(dir[a].left), done |-> dir[a].done]
  <1>1. /\ dir[a] \in Dirs /\ dir \in [Arms -> Dirs] /\ dir[a].left # <<>> /\ ~dir[a].done
        /\ UNCHANGED <<snapshot, made, packets, score>>
    BY DEF ArmsInv, TypeOK, Dirs, RunsOK, RunCase
  <1>2. dir' = [dir EXCEPT ![a] = d]
    <2>. DEFINE one == [dir EXCEPT ![a].left = Tail(@)]
    <2>1. one[a] = [dir[a] EXCEPT !.left = Tail(dir[a].left)] /\ one[a].files = dir[a].files
      BY <1>1 DEF Dirs
    <2>2. [one EXCEPT ![a].files = files1] =
            [dir EXCEPT ![a] = [[dir[a] EXCEPT !.left = Tail(dir[a].left)] EXCEPT !.files = files1]]
      BY <1>1, <2>1
    <2>3. dir' = [one EXCEPT ![a].files = files1]
      BY <2>1, Zenon DEF RunCase
    <2>4. [[dir[a] EXCEPT !.left = Tail(dir[a].left)] EXCEPT !.files = files1] = d
      BY <1>1, DirLeftFiles DEF Made
    <2>. HIDE DEF d, files1, one
    <2>. QED
      BY <2>2, <2>3, <2>4
  <1>3. files1 \in Files
    <2>1. c \in Cases
      BY <1>1 DEF Dirs
    <2>2. PICK D \in SUBSET Cases : dir[a].files \in [D -> [text : Texts, snapshot : Nat \ {0}]]
      BY <1>1 DEF Dirs, Files
    <2>3. CASE text = "failed"
      BY <1>1, <2>3 DEF Dirs
    <2>4. CASE text # "failed"
      <3>1. /\ [text |-> text, snapshot |-> snapshot] \in [text : Texts, snapshot : Nat \ {0}]
            /\ DOMAIN dir[a].files = D /\ D \cup {c} \in SUBSET Cases
        BY <2>1, <2>2, <2>4 DEF Texts, ArmsInv, TypeOK
      <3>2. files1 \in [D \cup {c} -> [text : Texts, snapshot : Nat \ {0}]]
        BY <2>2, <2>4, <3>1
      <3>. QED
        BY <3>1, <3>2 DEF Files
    <2>. QED
      BY <2>3, <2>4
  <1>4. d \in Dirs
    <2>1. Tail(dir[a].left) \in Seq(Cases)
      BY <1>1 DEF Dirs
    <2>. QED
      BY <1>1, <1>3, <2>1 DEF Dirs
  <1>5. d.run = dir[a].run /\ ~d.done
    BY <1>1
  <1>. HIDE DEF d
  <1>6. TypeOK'
    BY <1>1, <1>2, <1>4 DEF ArmsInv, TypeOK, Dirs
  <1>7. ASSUME NEW x \in Arms PROVE RunsOK(x)'
    <2>1. CASE x = a
      <3>1. dir'[x] = d /\ made'[x] = made[x]
        BY <1>1, <1>2, <2>1
      <3>. QED
        BY <1>1, <1>5, <2>1, <3>1 DEF ArmsInv, RunsOK
    <2>2. CASE x # a
      <3>1. dir'[x] = dir[x] /\ made'[x] = made[x]
        BY <1>1, <1>2, <2>2
      <3>. QED
        BY <3>1 DEF ArmsInv, RunsOK
    <2>. QED
      BY <2>1, <2>2
  <1>. QED
    BY <1>1, <1>6, <1>7, PacketsKeep DEF ArmsInv

LEMMA FinishStep ==
  ASSUME ArmsInv, NEW a \in Arms, Finish(a)
  PROVE  ArmsInv'
  <1>. DEFINE g == Aggregate(dir[a])
              d == [run |-> dir[a].run, context |-> dir[a].context,
                    selected |-> dir[a].selected, files |-> dir[a].files,
                    left |-> dir[a].left, done |-> TRUE]
  <1>1. /\ dir[a] \in Dirs /\ dir \in [Arms -> Dirs] /\ dir[a].left = <<>> /\ ~dir[a].done
        /\ made \in [Arms -> Seq(Aggregates)]
        /\ dir' = [dir EXCEPT ![a].done = TRUE] /\ made' = [made EXCEPT ![a] = Append(made[a], g)]
        /\ UNCHANGED <<snapshot, packets, score>>
    BY DEF ArmsInv, TypeOK, Dirs, Finish
  <1>2. dir' = [dir EXCEPT ![a] = d] /\ d \in Dirs
    <2>1. [dir[a] EXCEPT !.done = TRUE] = d
      BY <1>1, DirDone DEF Made
    <2>2. d \in Dirs
      BY <1>1 DEF Dirs
    <2>. HIDE DEF d
    <2>. QED
      BY <1>1, <2>1, <2>2
  <1>3. g \in Aggregates /\ g.run = dir[a].run
    <2>1. PICK D \in SUBSET Cases : dir[a].files \in [D -> [text : Texts, snapshot : Nat \ {0}]]
      BY <1>1 DEF Dirs, Files
    <2>. DEFINE read == {dir[a].files[k].snapshot : k \in DOMAIN dir[a].files}
    <2>2. (IF Cardinality(read) = 1 THEN CHOOSE v \in read : TRUE ELSE 0) \in Nat
      <3>1. read \subseteq Nat
        BY <2>1
      <3>2. Cardinality(read) = 1 => read # {}
        BY FS_EmptySet
      <3>. QED
        BY <3>1, <3>2
    <2>. HIDE DEF read
    <2>3. g = [run |-> dir[a].run, context |-> dir[a].context, selected |-> dir[a].selected,
               files |-> dir[a].files,
               snapshot |-> IF Cardinality(read) = 1 THEN CHOOSE v \in read : TRUE ELSE 0]
      BY DEF Aggregate, read
    <2>. QED
      BY <1>1, <2>2, <2>3 DEF Dirs, Aggregates
  <1>4. Aggregate(d) = g
    BY DEF Aggregate
  <1>5. d.run = dir[a].run /\ d.done /\ d.left = <<>>
    BY <1>1
  <1>. HIDE DEF d, g
  <1>6. /\ made'[a] \in Seq(Aggregates) /\ Range(made'[a]) = Range(made[a]) \cup {g}
        /\ made' \in [Arms -> Seq(Aggregates)]
    <2>1. /\ Append(made[a], g) \in Seq(Aggregates)
          /\ Range(Append(made[a], g)) = Range(made[a]) \cup {g}
      BY <1>1, <1>3, AppendAdds
    <2>. QED
      BY <1>1, <2>1
  <1>7. TypeOK'
    BY <1>1, <1>2, <1>6 DEF ArmsInv, TypeOK, Dirs
  <1>8. ASSUME NEW x \in Arms PROVE RunsOK(x)'
    <2>1. CASE x = a
      <3>1. dir'[x] = d
        BY <1>1, <1>2, <2>1
      <3>2. ASSUME NEW m \in Range(made[a]) PROVE m.run <= dir[a].run /\ m.run # dir[a].run
        BY <1>1 DEF ArmsInv, RunsOK
      <3>3. \A m \in Range(made'[x]) : m.run <= d.run
        <4>1. dir[a].run <= dir[a].run
          BY <1>1 DEF Dirs
        <4>. QED
          BY <1>3, <1>5, <1>6, <2>1, <3>2, <4>1
      <3>4. \A m, n \in Range(made[a]) : m.run = n.run => m = n
        BY DEF ArmsInv, RunsOK
      <3>5. \A m, n \in Range(made'[x]) : m.run = n.run => m = n
        BY <1>3, <1>6, <2>1, <3>2, <3>4
      <3>6. Aggregate(d) \in Range(made'[x])
        BY <1>4, <1>6, <2>1
      <3>. QED
        BY <1>5, <3>1, <3>3, <3>5, <3>6 DEF RunsOK
    <2>2. CASE x # a
      <3>1. dir'[x] = dir[x] /\ made'[x] = made[x]
        BY <1>1, <1>2, <2>2
      <3>. QED
        BY <3>1 DEF ArmsInv, RunsOK
    <2>. QED
      BY <2>1, <2>2
  <1>9. \A x \in Arms : Range(made[x]) \subseteq Range(made'[x])
    <2>1. \A x \in Arms : x # a => made'[x] = made[x]
      BY <1>1
    <2>. QED
      BY <1>6, <2>1
  <1>. QED
    BY <1>1, <1>7, <1>8, <1>9, PacketsKeep DEF ArmsInv

LEMMA PublishStep ==
  ASSUME ArmsInv, Publish
  PROVE  ArmsInv'
  <1>1. UNCHANGED <<dir, made, packets, score>> /\ snapshot' \in Nat \ {0}
    BY DEF Publish, ArmsInv, TypeOK
  <1>2. TypeOK'
    BY <1>1 DEF ArmsInv, TypeOK
  <1>3. \A x \in Arms : RunsOK(x)'
    BY <1>1 DEF ArmsInv, RunsOK
  <1>. QED
    BY <1>1, <1>2, <1>3, PacketsKeep DEF ArmsInv

(* An aggregate that names a snapshot had all its answers from that one.          *)
LEMMA OneSnapshot ==
  ASSUME NEW d \in Dirs, Aggregate(d).snapshot # 0, NEW k \in DOMAIN d.files
  PROVE  d.files[k].snapshot = Aggregate(d).snapshot
  <1>. DEFINE read == {d.files[c].snapshot : c \in DOMAIN d.files}
  <1>1. Aggregate(d).snapshot = IF Cardinality(read) = 1 THEN CHOOSE v \in read : TRUE ELSE 0
    BY DEF Aggregate
  <1>2. IsFiniteSet(read)
    <2>1. PICK D \in SUBSET Cases : d.files \in [D -> [text : Texts, snapshot : Nat \ {0}]]
      BY DEF Dirs, Files
    <2>2. IsFiniteSet(D) /\ DOMAIN d.files = D
      BY <2>1, CasesFinite, FS_Subset
    <2>. DEFINE f == [c \in D |-> d.files[c].snapshot]
    <2>3. IsFiniteSet({f[c] : c \in D})
      <3>1. f = [c \in D |-> f[c]]
        OBVIOUS
      <3>. HIDE DEF f
      <3>. QED
        BY <2>2, <3>1, RangeFinite
    <2>4. {f[c] : c \in D} = read
      BY <2>2
    <2>. QED
      BY <2>3, <2>4
  <1>3. d.files[k].snapshot \in read
    OBVIOUS
  <1>. HIDE DEF read
  <1>4. PICK v : read = {v}
    BY <1>1, <1>2, FS_Singleton
  <1>5. (CHOOSE u \in read : TRUE) = v
    BY <1>4
  <1>. QED
    BY <1>1, <1>3, <1>4, <1>5

LEMMA MaskStep ==
  ASSUME ArmsInv, NEW order \in Orders, Mask(order)
  PROVE  ArmsInv'
  <1>. DEFINE db == dir["baseline"]  dc == dir["copilot"]
              b == Aggregate(db)  c == Aggregate(dc)
              packet == [runs |-> [a \in Arms |-> dir[a].run],
                         cases |-> Visible(db, dc, order)]
              p == [packet |-> packet,
                    mapping |-> [packet |-> packet, order |-> order, runs |-> packet.runs]]
              Pairs == [packet : Packets, mapping : Mappings]
  <1>1. /\ Complete(db) /\ Complete(dc) /\ Matched(b, c)
        /\ packets' = Append(packets, p) /\ UNCHANGED <<snapshot, dir, made, score>>
    BY DEF Mask
  <1>2. /\ db \in Dirs /\ dc \in Dirs /\ packets \in Seq(Pairs)
        /\ dir \in [Arms -> Dirs] /\ "baseline" \in Arms /\ "copilot" \in Arms
    BY DEF ArmsInv, TypeOK, Dirs, Arms
  <1>3. DOMAIN db.files = Cases /\ DOMAIN dc.files = Cases /\ db.done /\ dc.done
    BY <1>1 DEF Complete
  <1>4. order \in [Cases -> Arms]
    BY DEF Orders
  <1>5. p \in Pairs
    <2>1. \A k \in Cases : db.files[k].text \in Texts /\ dc.files[k].text \in Texts
      BY <1>2, <1>3 DEF Dirs, Files
    <2>2. Visible(db, dc, order) \in [Cases -> [A : Texts, B : Texts]]
      BY <2>1 DEF Visible
    <2>3. [a \in Arms |-> dir[a].run] \in [Arms -> Nat]
      BY <1>2 DEF Dirs
    <2>4. packet \in Packets
      BY <2>2, <2>3 DEF Packets
    <2>. QED
      BY <1>4, <2>3, <2>4 DEF Mappings
  <1>6. /\ b.run = db.run /\ b.files = db.files /\ b.context = db.context
        /\ c.run = dc.run /\ c.files = dc.files /\ c.context = dc.context
    BY DEF Aggregate
  <1>7. b \in Range(made["baseline"]) /\ c \in Range(made["copilot"])
    BY <1>2, <1>3 DEF ArmsInv, RunsOK
  <1>8. Shows(p, b, c)
    <2>1. \A j, k \in Cases : b.files[j].snapshot = c.files[k].snapshot
      <3>1. b.snapshot # 0 /\ c.snapshot = b.snapshot
        BY <1>1 DEF Matched
      <3>2. \A j \in Cases : db.files[j].snapshot = b.snapshot
        BY <1>2, <1>3, <3>1, OneSnapshot
      <3>3. \A k \in Cases : dc.files[k].snapshot = c.snapshot
        BY <1>2, <1>3, <3>1, OneSnapshot
      <3>. QED
        BY <1>6, <3>1, <3>2, <3>3
    <2>2. b.context = c.context
      BY <1>1 DEF Matched
    <2>3. Visible(db, dc, order) = Visible(b, c, order)
      BY <1>6 DEF Visible
    <2>4. /\ p.packet.runs["baseline"] = db.run /\ p.packet.runs["copilot"] = dc.run
          /\ p.packet.cases = Visible(db, dc, order) /\ p.mapping.order = order
      BY <1>2
    <2>. QED
      BY <1>3, <1>6, <2>1, <2>2, <2>3, <2>4 DEF Shows
  <1>9. p.mapping.packet = p.packet /\ p.mapping.order \in Orders
    OBVIOUS
  <1>. HIDE DEF b, c, db, dc, packet, p, Pairs
  <1>10. /\ packets' \in Seq(Pairs) /\ DOMAIN packets \subseteq DOMAIN packets'
         /\ \A i \in DOMAIN packets : packets'[i] = packets[i]
         /\ \A i \in DOMAIN packets' : i \in DOMAIN packets \/ packets'[i] = p
    BY <1>1, <1>2, <1>5, AppendAdds
  <1>11. TypeOK'
    BY <1>1, <1>10 DEF ArmsInv, TypeOK, Pairs
  <1>12. \A x \in Arms : RunsOK(x)'
    BY <1>1 DEF ArmsInv, RunsOK
  <1>13. PacketOK(p, made)
    BY <1>1, <1>7, <1>8, <1>9 DEF PacketOK
  <1>14. ASSUME NEW i \in DOMAIN packets' PROVE PacketOK(packets'[i], made')
    <2>1. CASE i \in DOMAIN packets
      BY <1>1, <1>10, <2>1 DEF ArmsInv
    <2>2. CASE packets'[i] = p
      BY <1>1, <1>13, <2>2
    <2>. QED
      BY <1>10, <2>1, <2>2
  <1>15. ScoreOK'
    <2>1. CASE score = NoFile
      BY <1>1, <2>1 DEF ScoreOK
    <2>2. CASE score # NoFile
      <3>1. PICK i \in DOMAIN packets : /\ score.runs = packets[i].packet.runs
                                        /\ score.ratings = Unmask(packets[i].mapping, ReviewOf(i))
        BY <2>2 DEF ArmsInv, ScoreOK
      <3>2. i \in DOMAIN packets' /\ packets'[i] = packets[i]
        BY <1>10
      <3>3. ReviewOf(i)' = ReviewOf(i)
        BY <3>2 DEF ReviewOf
      <3>. QED
        BY <1>1, <3>1, <3>2, <3>3 DEF ScoreOK
    <2>. QED
      BY <2>1, <2>2
  <1>. QED
    BY <1>11, <1>12, <1>14, <1>15 DEF ArmsInv

LEMMA ScoreStep ==
  ASSUME ArmsInv, NEW i \in DOMAIN packets, NEW j \in DOMAIN packets, NEW k \in DOMAIN packets,
         Score(i, j, k)
  PROVE  ArmsInv'
  <1>1. /\ UNCHANGED <<snapshot, dir, made, packets>>
        /\ score'.runs = packets[i].packet.runs
        /\ score'.ratings = Unmask(packets[j].mapping, ReviewOf(k))
        /\ Bound(packets[i].packet, packets[j].mapping, ReviewOf(k))
    BY DEF Score
  <1>2. packets[j].packet = packets[i].packet /\ packets[k].packet = packets[i].packet
    BY <1>1 DEF Bound, ReviewOf, ArmsInv, PacketOK
  <1>3. ReviewOf(k) = ReviewOf(j)
    BY <1>2 DEF ReviewOf
  <1>4. ScoreOK'
    <2>1. /\ score'.runs = packets'[j].packet.runs
          /\ score'.ratings = Unmask(packets'[j].mapping, ReviewOf(j)')
      BY <1>1, <1>2, <1>3 DEF ReviewOf
    <2>. QED
      BY <1>1, <2>1 DEF ScoreOK
  <1>5. TypeOK' /\ (\A x \in Arms : RunsOK(x)') /\ (\A x \in DOMAIN packets' : PacketOK(packets'[x], made'))
    BY <1>1 DEF ArmsInv, TypeOK, RunsOK
  <1>. QED
    BY <1>4, <1>5 DEF ArmsInv

LEMMA ArmsStep ==
  ASSUME ArmsInv, [Next]_vars
  PROVE  ArmsInv'
  <1>1. CASE UNCHANGED vars
    <2>1. UNCHANGED <<snapshot, dir, made, packets, score>>
      BY <1>1 DEF vars
    <2>. QED
      BY <2>1 DEF ArmsInv, TypeOK, RunsOK, PacketOK, ScoreOK, ReviewOf
  <1>. QED
    BY <1>1, StartStep, RunCaseStep, FinishStep, PublishStep, MaskStep, ScoreStep DEF Next

-----------------------------------------------------------------------------
(* What the invariant of the arms gives                                           *)

LEMMA RunOfIs ==
  ASSUME ArmsInv, NEW a \in Arms, NEW m \in Range(made[a])
  PROVE  RunOf(a, m.run) = m
  <1>1. \A n \in Range(made[a]) : m.run = n.run => m = n
    BY DEF ArmsInv, RunsOK
  <1>. QED
    BY <1>1 DEF RunOf

LEMMA CreditedFromInv ==
  ASSUME ArmsInv
  PROVE  RatingsAreCredited
  <1>1. ASSUME score # NoFile, NEW a \in Arms, NEW k \in Cases
        PROVE  score.ratings[a][k] = RunOf(a, score.runs[a]).files[k].text
    <2>1. PICK i \in DOMAIN packets : /\ score.runs = packets[i].packet.runs
                                      /\ score.ratings = Unmask(packets[i].mapping, ReviewOf(i))
      BY <1>1 DEF ArmsInv, ScoreOK
    <2>2. PICK b \in Range(made["baseline"]), c \in Range(made["copilot"]) :
             Shows(packets[i], b, c)
      BY <2>1 DEF ArmsInv, PacketOK
    <2>. DEFINE order == packets[i].mapping.order
    <2>3. order[k] \in Arms
      BY <2>1 DEF ArmsInv, PacketOK, Orders
    <2>4. /\ ReviewOf(i).ratings = packets[i].packet.cases
          /\ packets[i].packet.cases = Visible(b, c, order)
      BY <2>2 DEF ReviewOf, Shows
    <2>5. ReviewOf(i).ratings[k] = IF order[k] = "baseline"
                                   THEN [A |-> b.files[k].text, B |-> c.files[k].text]
                                   ELSE [A |-> c.files[k].text, B |-> b.files[k].text]
      BY <2>4 DEF Visible
    <2>6. score.ratings[a][k] = IF order[k] = a THEN ReviewOf(i).ratings[k].A
                                ELSE ReviewOf(i).ratings[k].B
      BY <2>1 DEF Unmask
    <2>7. /\ "baseline" \in Arms /\ "copilot" \in Arms
          /\ score.runs["baseline"] = b.run /\ score.runs["copilot"] = c.run
      BY <2>1, <2>2 DEF Shows, Arms
    <2>8. RunOf("baseline", b.run) = b /\ RunOf("copilot", c.run) = c
      BY <2>7, RunOfIs
    <2>9. CASE a = "baseline"
      BY <2>5, <2>6, <2>7, <2>8, <2>9
    <2>10. CASE a = "copilot"
      <3>1. order[k] = "copilot" \/ order[k] = "baseline"
        BY <2>3 DEF Arms
      <3>. QED
        BY <3>1, <2>5, <2>6, <2>7, <2>8, <2>10
    <2>. QED
      BY <2>9, <2>10 DEF Arms
  <1>. QED
    BY <1>1 DEF RatingsAreCredited

LEMMA ComparableFromInv ==
  ASSUME ArmsInv
  PROVE  PairsAreComparable
  <1>1. ASSUME NEW i \in DOMAIN packets
        PROVE  LET b == RunOf("baseline", packets[i].packet.runs["baseline"])
                   c == RunOf("copilot", packets[i].packet.runs["copilot"])
               IN  /\ b.context = c.context /\ DOMAIN b.files = DOMAIN c.files
                   /\ \A j, k \in Cases : b.files[j].snapshot = c.files[k].snapshot
    <2>1. PICK b \in Range(made["baseline"]), c \in Range(made["copilot"]) :
             Shows(packets[i], b, c)
      BY DEF ArmsInv, PacketOK
    <2>2. RunOf("baseline", b.run) = b /\ RunOf("copilot", c.run) = c
      BY RunOfIs DEF Arms
    <2>. QED
      BY <2>1, <2>2 DEF Shows
  <1>. QED
    BY <1>1 DEF PairsAreComparable

LEMMA BalancedFromInv ==
  ASSUME ArmsInv
  PROVE  LabelsAreBalanced
  <1>1. ASSUME NEW i \in DOMAIN packets
        PROVE  LET first(a) == Cardinality({c \in Cases : packets[i].mapping.order[c] = a})
               IN  first("baseline") <= first("copilot") + 1
                   /\ first("copilot") <= first("baseline") + 1
    <2>. DEFINE order == packets[i].mapping.order
                base == {c \in Cases : order[c] = "baseline"}
                other == {c \in Cases : order[c] = "copilot"}
    <2>1. order \in Orders
      BY DEF ArmsInv, PacketOK
    <2>2. /\ order \in [Cases -> Arms]
          /\ Cardinality(base) - (Cardinality(Cases) - Cardinality(base)) \in {-1, 0, 1}
      BY <2>1 DEF Orders
    <2>3. other = Cases \ base /\ base = Cases \cap base
      BY <2>2 DEF Arms
    <2>. HIDE DEF base, other
    <2>4. Cardinality(other) = Cardinality(Cases) - Cardinality(base)
      BY <2>3, CasesFinite, FS_Difference
    <2>5. IsFiniteSet(base) /\ Cardinality(Cases) \in Nat /\ Cardinality(base) \in Nat
      <3>1. base \in SUBSET Cases
        BY <2>3
      <3>2. IsFiniteSet(base)
        BY <3>1, CasesFinite, FS_Subset
      <3>. QED
        BY <3>2, CasesFinite, FS_CardinalityType
    <2>6. /\ Cardinality(base) <= Cardinality(other) + 1
          /\ Cardinality(other) <= Cardinality(base) + 1
      BY <2>2, <2>4, <2>5
    <2>. QED
      BY <2>6 DEF base, other
  <1>. QED
    BY <1>1 DEF LabelsAreBalanced

(* Directories, aggregates, packets and the mappings sealed with them keep their  *)
(* form through every benchmark, masking and scoring command.                      *)
THEOREM TypeCorrect == Spec => []TypeOK
  <1>1. ArmsInv => TypeOK
    BY DEF ArmsInv
  <1>. QED
    BY <1>1, ArmsInit, ArmsStep, PTL DEF Spec

(* Whatever packets, mappings, reviews and reruns lie side by side, score_masked_  *)
(* review credits each rating to the arm whose run wrote the rated text, and the   *)
(* two runs of a packet read one snapshot with the same tools.                      *)
THEOREM ScoreAttributed == Spec => []ScoreIsAttributed
  <1>1. ArmsInv => ScoreIsAttributed
    BY CreditedFromInv, ComparableFromInv, BalancedFromInv DEF ScoreIsAttributed
  <1>. QED
    BY <1>1, ArmsInit, ArmsStep, PTL DEF Spec

-----------------------------------------------------------------------------
(* The panel.  While a command asks, the files of the profiles it has asked are   *)
(* its own answers, and no exit code stands.                                      *)

PanelInv ==
  /\ panelPc = "asking" =>
       /\ code = -1
       /\ \A p \in DOMAIN summaries : /\ p \in DOMAIN files /\ files[p] = summaries[p]
                                      /\ summaries[p].run = run
  /\ ZeroMeansEveryProfile

LEMMA PanelInit ==
  ASSUME Panel!Init
  PROVE  PanelInv
  BY DEF Panel!Init, PanelInv, ZeroMeansEveryProfile, Panel!ZeroMeansEveryProfile

LEMMA SelectedFinite == IsFiniteSet(Panel!Selected)
  <1>1. Profiles \in Seq(Panel!Selected)
    BY ProfilesAssumption DEF Panel!PanelAssumption
  <1>2. IsFiniteSet(Range(Profiles))
    BY <1>1, ListFinite
  <1>. QED
    BY <1>2 DEF Panel!Selected, Panel!Range, Range

LEMMA OneIdentity ==
  ASSUME NEW sums, DOMAIN sums = Panel!Selected, Panel!Boundary(sums) = "consistent",
         NEW p \in Panel!Selected, NEW q \in Panel!Selected
  PROVE  sums[p].snapshot = sums[q].snapshot
  <1>. DEFINE f == [x \in Panel!Selected |-> sums[x].snapshot]
              ids == {f[x] : x \in Panel!Selected}
  <1>1. IsFiniteSet(ids)
    <2>1. f = [x \in Panel!Selected |-> f[x]]
      OBVIOUS
    <2>. HIDE DEF f
    <2>. QED
      BY <2>1, SelectedFinite, RangeFinite
  <1>2. ids = Panel!Identities(sums)
    BY DEF Panel!Identities
  <1>3. Panel!Cardinality(ids) = Cardinality(ids)
    BY DEF Panel!Cardinality, Cardinality
  <1>4. sums[p].snapshot \in ids /\ sums[q].snapshot \in ids
    OBVIOUS
  <1>. HIDE DEF ids
  <1>5. Cardinality(ids) <= 1 /\ Cardinality(ids) \in Nat /\ Cardinality(ids) # 0
    <2>1. Cardinality(ids) <= 1
      BY <1>2, <1>3 DEF Panel!Boundary
    <2>. QED
      BY <1>1, <1>4, <2>1, FS_CardinalityType, FS_EmptySet
  <1>6. Cardinality(ids) = 1
    BY <1>5
  <1>7. \E v : ids = {v}
    BY <1>1, <1>6, FS_Singleton
  <1>. QED
    BY <1>4, <1>7

LEMMA WritePanelStep ==
  ASSUME PanelInv, Panel!WritePanel
  PROVE  PanelInv'
  <1>1. /\ panelPc = "asking" /\ panelPc' = "idle"
        /\ UNCHANGED <<run, summaries, failed, files>>
    BY DEF Panel!WritePanel
  <1>2. ASSUME code' = 0 PROVE Panel!ZeroMeansEveryProfile'
    <2>1. Panel!Verifies(Panel!Build) /\ Panel!Build.status = "complete"
      BY <1>2 DEF Panel!WritePanel
    <2>2. /\ Panel!Build.summaries = summaries /\ Panel!Build.failed = failed
          /\ Panel!Build.status = Panel!Status(summaries, failed)
      BY DEF Panel!Build
    <2>3. failed = {} /\ Panel!Boundary(summaries) = "consistent"
      BY <2>1, <2>2 DEF Panel!Status, Panel!Boundary
    <2>4. DOMAIN summaries = Panel!Selected
      BY <2>1, <2>2, <2>3 DEF Panel!Verifies
    <2>5. \A p \in Panel!Selected : /\ p \in DOMAIN files /\ files[p] = summaries[p]
                                    /\ files[p].run = run
      BY <1>1, <2>4 DEF PanelInv
    <2>6. \A p, q \in Panel!Selected : files[p].snapshot = files[q].snapshot
      BY <2>3, <2>4, <2>5, OneIdentity
    <2>. QED
      BY <1>1, <2>5, <2>6 DEF Panel!ZeroMeansEveryProfile
  <1>3. code' # 0 => Panel!ZeroMeansEveryProfile'
    BY DEF Panel!ZeroMeansEveryProfile
  <1>. QED
    BY <1>1, <1>2, <1>3 DEF PanelInv, ZeroMeansEveryProfile

LEMMA AnsweredStep ==
  ASSUME PanelInv, Panel!Answered
  PROVE  PanelInv'
  <1>. DEFINE p == Head(left)  answer == [run |-> run, snapshot |-> published]
  <1>1. /\ panelPc = "asking" /\ code = -1 /\ UNCHANGED <<panelPc, run, code>>
        /\ summaries' = [q \in DOMAIN summaries \cup {p} |-> IF q = p THEN answer ELSE summaries[q]]
        /\ files' = [q \in DOMAIN files \cup {p} |-> IF q = p THEN answer ELSE files[q]]
    BY DEF Panel!Answered, PanelInv
  <1>2. answer.run = run
    OBVIOUS
  <1>. HIDE DEF p, answer
  <1>3. ASSUME NEW q \in DOMAIN summaries'
        PROVE  q \in DOMAIN files' /\ files'[q] = summaries'[q] /\ summaries'[q].run = run'
    <2>1. CASE q = p
      BY <1>1, <1>2, <2>1
    <2>2. CASE q # p
      <3>1. q \in DOMAIN summaries /\ summaries'[q] = summaries[q]
        BY <1>1, <1>3, <2>2
      <3>2. q \in DOMAIN files /\ files[q] = summaries[q] /\ summaries[q].run = run
        BY <1>1, <3>1 DEF PanelInv
      <3>. QED
        BY <1>1, <2>2, <3>1, <3>2
    <2>. QED
      BY <2>1, <2>2
  <1>4. code' # 0
    BY <1>1
  <1>5. ZeroMeansEveryProfile'
    BY <1>4 DEF ZeroMeansEveryProfile, Panel!ZeroMeansEveryProfile
  <1>. QED
    BY <1>1, <1>3, <1>5 DEF PanelInv

LEMMA PanelStep ==
  ASSUME PanelInv, [Panel!Next]_Panel!vars
  PROVE  PanelInv'
  <1>1. CASE Panel!Start
    BY <1>1 DEF PanelInv, Panel!Start, ZeroMeansEveryProfile, Panel!ZeroMeansEveryProfile
  <1>2. CASE Panel!ProfileFailed \/ Panel!Crash \/ Panel!Publish \/ UNCHANGED Panel!vars
    <2>1. UNCHANGED <<run, summaries, files, code>> /\ panelPc' \in {panelPc, "idle"}
      BY <1>2 DEF Panel!ProfileFailed, Panel!Crash, Panel!Publish, Panel!vars
    <2>. QED
      BY <2>1 DEF PanelInv, ZeroMeansEveryProfile, Panel!ZeroMeansEveryProfile
  <1>. QED
    BY <1>1, <1>2, AnsweredStep, WritePanelStep DEF Panel!Next

(* Whatever fails, is cut off or is republished between two profiles, exit code 0 *)
(* of research-copilot-panel means the answers of this command, over one snapshot. *)
THEOREM ZeroIsEveryProfile == Panel!Spec => []ZeroMeansEveryProfile
  <1>1. PanelInv => ZeroMeansEveryProfile
    BY DEF PanelInv
  <1>. QED
    BY <1>1, PanelInit, PanelStep, PTL DEF Panel!Spec

-----------------------------------------------------------------------------
(* The agent.  Evidence and trace grow together (Linked), requests are paid for   *)
(* by loops (Spent), and an envelope is built from both at the end (Closed).      *)

Evidence  == [tool : Tools, state : Nat]
TraceRows == [name : Configured \cup {"rejected"}, cited : BOOLEAN]
CitedOf(tr) == {i \in DOMAIN tr : tr[i].cited}
Named(tr) == {tr[i].name : i \in DOMAIN tr}
ToolsOf(C) == {c.tool : c \in C}

AgentTyped ==
  /\ pc \in {"loop", "request", "tools", "answer", "done", "failed"}
  /\ version \in Nat /\ loops \in 0 .. MaxToolCalls + 1 /\ attempts \in Nat /\ requests \in Nat
  /\ calls \in Seq(Agent!Calls)

Linked(C, tr) ==
  /\ C \subseteq Evidence /\ IsFiniteSet(C) /\ tr \in Seq(TraceRows)
  /\ \A i \in DOMAIN tr : tr[i].cited <=> tr[i].name # "rejected"
  /\ ToolsOf(C) = Named(tr) \ {"rejected"}
  /\ Cardinality(C) <= Cardinality(CitedOf(tr))

Spent ==
  /\ requests <= loops * (MaxRetries + 1)
  /\ pc = "request" => /\ attempts <= MaxRetries
                       /\ requests + (MaxRetries + 1) <= loops * (MaxRetries + 1) + attempts
  /\ loops = 0 => cites = <<>> /\ trace = <<>> /\ requests = 0 /\ pc \notin {"request", "answer", "tools"}

Closed(e) ==
  /\ e.cites = Range(cites) \/ (cites = <<>> /\ loops = 0)
  /\ e.status = "grounded" <=> \E i \in DOMAIN e.trace : e.trace[i].name # "rejected"
  /\ ToolsOf(e.cites) = Named(e.trace) \ {"rejected"}

AgentInv ==
  /\ AgentTyped /\ Spent
  /\ cites \in Seq(Evidence) /\ Linked(Range(cites), trace) /\ Len(trace) <= MaxToolCalls
  /\ pc = "done" => Closed(envelope)
  /\ file # Agent!NoEnvelope => pc = "done" /\ file = envelope

LEMMA AgentLimits ==
  /\ MaxToolCalls \in Nat /\ MaxRetries \in Nat /\ TraceLimit \in Nat /\ RetryLimit \in Nat
  /\ MaxToolCalls <= TraceLimit /\ MaxRetries <= RetryLimit
  /\ Configured \subseteq Tools /\ "rejected" \notin Tools
  /\ Routes \in Seq(Configured) /\ Len(Routes) <= TraceLimit
  BY AnswersAssumption DEF Agent!AgentAssumption

LEMMA SameSize == \A S : Agent!Cardinality(S) = Cardinality(S) /\ Review!Cardinality(S) = Cardinality(S)
  BY DEF Agent!Cardinality, Review!Cardinality, Cardinality

LEMMA SameRange == \A f : Agent!Range(f) = Range(f) /\ Review!Range(f) = Range(f)
  BY DEF Agent!Range, Review!Range, Range

LEMMA OneMore ==
  ASSUME NEW a \in Nat, NEW k \in Nat
  PROVE  a * k \in Nat /\ (a + 1) * k = a * k + k
  OBVIOUS

LEMMA ProductGrows ==
  ASSUME NEW a \in Nat, NEW b \in Nat, NEW k \in Nat, NEW l \in Nat, a <= b, k <= l
  PROVE  a * k <= b * l /\ a * k \in Nat /\ b * l \in Nat
  <1>. DEFINE c == b - a  m == l - k
  <1>1. c \in Nat /\ m \in Nat /\ b = a + c /\ l = k + m
    OBVIOUS
  <1>2. (a + c) * (k + m) = a * k + a * m + c * k + c * m
    BY <1>1
  <1>3. a * k \in Nat /\ a * m \in Nat /\ c * k \in Nat /\ c * m \in Nat
    BY <1>1
  <1>4. b * l = a * k + a * m + c * k + c * m
    BY <1>1, <1>2
  <1>. HIDE DEF c, m
  <1>. QED
    BY <1>3, <1>4

(* An answer with its trace satisfies the verifier.                               *)
LEMMA LinkedVerifies ==
  ASSUME NEW cs \in Seq(Evidence), NEW tr, Linked(Range(cs), tr), Len(tr) <= TraceLimit,
         requests \in Nat, requests <= (TraceLimit + 1) * (RetryLimit + 1),
         cs = <<>> => \A i \in DOMAIN tr : tr[i].name = "rejected"
  PROVE  /\ Agent!Verifies(Agent!Envelope(cs, tr))
         /\ Agent!Envelope(cs, tr).cites = Range(cs) /\ Agent!Envelope(cs, tr).trace = tr
         /\ Agent!Envelope(cs, tr).status = "grounded" <=> \E i \in DOMAIN tr : tr[i].name # "rejected"
  <1>. DEFINE e == Agent!Envelope(cs, tr)
  <1>1. /\ e.cites = Range(cs) /\ e.trace = tr /\ e.requests = requests
        /\ e.status = IF cs = <<>> THEN "uncited" ELSE "grounded"
    BY SameRange DEF Agent!Envelope, Agent!UniqueCitations
  <1>. HIDE DEF e
  <1>2. cs = <<>> <=> Range(cs) = {}
    <2>1. DOMAIN cs = 1 .. Len(cs) /\ Len(cs) \in Nat
      OBVIOUS
    <2>2. Range(cs) = {} <=> DOMAIN cs = {}
      BY DEF Range
    <2>3. 1 .. Len(cs) = {} <=> Len(cs) = 0
      <3>1. Len(cs) # 0 => 1 \in 1 .. Len(cs)
        BY <2>1
      <3>. QED
        BY <2>1, <3>1
    <2>4. Len(cs) = 0 <=> cs = <<>>
      OBVIOUS
    <2>. QED
      BY <2>1, <2>2, <2>3, <2>4
  <1>3. e.status = "grounded" <=> \E i \in DOMAIN tr : tr[i].name # "rejected"
    <2>1. ASSUME cs # <<>>
          PROVE  \E i \in DOMAIN tr : tr[i].name # "rejected"
      <3>1. PICK c \in Range(cs) : TRUE
        BY <1>2, <2>1
      <3>2. c.tool \in Named(tr) \ {"rejected"}
        BY <3>1 DEF Linked, ToolsOf
      <3>. QED
        BY <3>2 DEF Named
    <2>. QED
      BY <1>1, <2>1
  <1>4. Cardinality(e.cites) <= Cardinality({i \in DOMAIN e.trace : e.trace[i].cited})
    BY <1>1 DEF Linked, CitedOf
  <1>5. Agent!Verifies(e)
    <2>1. e.status = "grounded" <=> e.cites # {}
      BY <1>1, <1>2
    <2>2. e.status = "uncited" => \A i \in DOMAIN e.trace : e.trace[i].name = "rejected"
      BY <1>1
    <2>3. Agent!Cardinality(e.cites) <= Agent!Cardinality({i \in DOMAIN e.trace : e.trace[i].cited})
      BY <1>4, SameSize
    <2>4. \A i \in DOMAIN e.trace : e.trace[i].name # "rejected" => e.trace[i].cited
      BY <1>1 DEF Linked
    <2>5. Len(e.trace) <= TraceLimit /\ e.requests \in 0 .. (TraceLimit + 1) * (RetryLimit + 1)
      <3>1. (TraceLimit + 1) * (RetryLimit + 1) \in Nat
        BY AgentLimits
      <3>. QED
        BY <1>1, <3>1
    <2>. QED
      BY <2>1, <2>2, <2>3, <2>4, <2>5 DEF Agent!Verifies
  <1>. QED
    BY <1>1, <1>3, <1>5 DEF e

LEMMA AgentInit == Agent!Init => AgentInv
  <1>. SUFFICES ASSUME Agent!Init PROVE AgentInv
    OBVIOUS
  <1>. USE DEF Agent!Init
  <1>1. AgentTyped
    BY AgentLimits DEF AgentTyped
  <1>2. Range(<<>>) = {} /\ Named(<<>>) = {} /\ CitedOf(<<>>) = {} /\ ToolsOf({}) = {}
    BY DEF Range, Named, CitedOf, ToolsOf
  <1>3. cites \in Seq(Evidence) /\ Linked(Range(cites), trace) /\ Len(trace) <= MaxToolCalls
    <2>1. IsFiniteSet({}) /\ Cardinality({}) = 0
      BY FS_EmptySet
    <2>2. trace \in Seq(TraceRows) /\ DOMAIN trace = {} /\ Len(trace) = 0 /\ cites \in Seq(Evidence)
      OBVIOUS
    <2>3. Range(cites) = {} /\ Named(trace) = {} /\ CitedOf(trace) = {} /\ ToolsOf({}) = {}
      BY <1>2
    <2>4. Linked({}, trace)
      <3>1. Cardinality({}) <= Cardinality({})
        BY <2>1
      <3>2. {} = {} \ {"rejected"}
        OBVIOUS
      <3>. QED
        BY <2>1, <2>2, <2>3, <3>1, <3>2 DEF Linked
    <2>5. Linked(Range(cites), trace)
      BY <2>3, <2>4
    <2>. QED
      BY <2>2, <2>5, AgentLimits
  <1>4. Spent
    <2>1. 0 * (MaxRetries + 1) = 0
      BY AgentLimits
    <2>. QED
      BY <2>1 DEF Spent
  <1>. QED
    BY <1>1, <1>3, <1>4 DEF AgentInv

LEMMA LoopStep ==
  ASSUME AgentInv, Agent!Loop
  PROVE  AgentInv'
  <1>. USE DEF Agent!Loop, AgentInv
  <1>1. CASE pc' = "failed"
    <2>1. UNCHANGED <<Agent!budget, calls, cites, trace, envelope, file>>
      BY <1>1 DEF Agent!Fail, Agent!budget
    <2>2. AgentTyped' /\ Spent'
      BY <1>1, <2>1 DEF AgentTyped, Spent, Agent!budget
    <2>. QED
      BY <1>1, <2>1, <2>2
  <1>2. CASE pc' # "failed"
    <2>1. /\ loops <= MaxToolCalls /\ pc' = "request" /\ loops' = loops + 1 /\ attempts' = 0
          /\ UNCHANGED <<clock, version, messages, requests, started, calls, cites, trace, envelope, file>>
      BY <1>2, AgentLimits DEF Agent!Fail, AgentTyped
    <2>2. AgentTyped'
      BY <2>1, AgentLimits DEF AgentTyped
    <2>3. (loops + 1) * (MaxRetries + 1) = loops * (MaxRetries + 1) + (MaxRetries + 1)
      BY OneMore, AgentLimits DEF AgentTyped
    <2>4. loops * (MaxRetries + 1) \in Nat
      BY OneMore, AgentLimits DEF AgentTyped
    <2>5. Spent'
      BY <2>1, <2>3, <2>4, AgentLimits DEF Spent, AgentTyped
    <2>. QED
      BY <2>1, <2>2, <2>5
  <1>. QED
    BY <1>1, <1>2

LEMMA SendStep ==
  ASSUME AgentInv, NEW took, pc = "request", Agent!Send(took), calls' \in Seq(Agent!Calls),
         \/ pc' \in {"failed", "answer", "tools"}
         \/ pc' = "request" /\ attempts + 1 <= MaxRetries
  PROVE  AgentInv'
  <1>1. /\ attempts' = attempts + 1 /\ requests' = requests + 1
        /\ UNCHANGED <<version, loops, cites, trace, envelope, file>>
    BY DEF Agent!Send
  <1>2. AgentTyped'
    BY <1>1 DEF AgentInv, AgentTyped
  <1>3. Spent'
    <2>. DEFINE paid == loops * (MaxRetries + 1)
    <2>1. paid \in Nat
      BY OneMore, AgentLimits DEF AgentTyped, AgentInv
    <2>2. paid' = paid
      BY <1>1
    <2>3. attempts <= MaxRetries /\ requests + (MaxRetries + 1) <= paid + attempts /\ loops # 0
      BY DEF AgentInv, Spent
    <2>. HIDE DEF paid
    <2>4. requests + 1 <= paid
      BY <2>1, <2>3, AgentLimits DEF AgentInv, AgentTyped
    <2>5. requests + 1 + (MaxRetries + 1) <= paid + (attempts + 1)
      BY <2>1, <2>3, AgentLimits DEF AgentInv, AgentTyped
    <2>. QED
      BY <1>1, <2>2, <2>3, <2>4, <2>5 DEF Spent, paid
  <1>. QED
    BY <1>1, <1>2, <1>3 DEF AgentInv

LEMMA RequestStep ==
  ASSUME AgentInv, NEW took \in 0 .. 1,
         \/ Agent!Retryable(took)
         \/ \E n \in 0 .. MaxCalls : \E asked \in [1 .. n -> Agent!Calls] : Agent!Respond(took, asked)
  PROVE  AgentInv'
  <1>1. CASE Agent!Retryable(took)
    <2>1. /\ pc = "request" /\ Agent!Send(took) /\ calls' = calls
          /\ pc' = IF attempts + 1 > MaxRetries THEN "failed" ELSE "request"
      BY <1>1 DEF Agent!Retryable
    <2>2. calls' \in Seq(Agent!Calls) /\ attempts \in Nat
      BY <2>1 DEF AgentInv, AgentTyped
    <2>3. pc' = "failed" \/ (pc' = "request" /\ attempts + 1 <= MaxRetries)
      BY <2>1, <2>2, AgentLimits
    <2>. QED
      BY <2>1, <2>2, <2>3, SendStep
  <1>2. ASSUME NEW n \in 0 .. MaxCalls, NEW asked \in [1 .. n -> Agent!Calls], Agent!Respond(took, asked)
        PROVE  AgentInv'
    <2>1. /\ pc = "request" /\ Agent!Send(took) /\ calls' = asked
          /\ pc' = IF asked = <<>> THEN "answer" ELSE "tools"
      BY <1>2 DEF Agent!Respond
    <2>2. n \in Nat
      OBVIOUS
    <2>3. asked \in Seq(Agent!Calls)
      BY <2>2
    <2>. QED
      BY <2>1, <2>3, SendStep
  <1>. QED
    BY <1>1, <1>2

(* One more accepted call, or one more rejected one.                               *)
LEMMA LinkedGrows ==
  ASSUME NEW cs \in Seq(Evidence), NEW tr, Linked(Range(cs), tr), NEW row, NEW ev,
         \/ row = [name |-> "rejected", cited |-> FALSE] /\ ev = cs
         \/ \E t \in Configured, p \in Evidence :
              row = [name |-> t, cited |-> TRUE] /\ p.tool = t /\ ev = Append(cs, p)
  PROVE  ev \in Seq(Evidence) /\ Linked(Range(ev), Append(tr, row))
  <1>. DEFINE to == Append(tr, row)
  <1>1. tr \in Seq(TraceRows) /\ row \in TraceRows
    <2>1. tr \in Seq(TraceRows)
      BY DEF Linked
    <2>2. \A t \in Configured \cup {"rejected"}, b \in BOOLEAN : [name |-> t, cited |-> b] \in TraceRows
      BY DEF TraceRows
    <2>. QED
      BY <2>1, <2>2
  <1>2. /\ to \in Seq(TraceRows) /\ Len(to) = Len(tr) + 1 /\ Len(tr) \in Nat
        /\ DOMAIN tr = 1 .. Len(tr) /\ DOMAIN to = 1 .. Len(tr) + 1
        /\ \A i \in DOMAIN tr : to[i] = tr[i]
        /\ to[Len(tr) + 1] = row
    BY <1>1
  <1>. HIDE DEF to
  <1>3. DOMAIN to = DOMAIN tr \cup {Len(tr) + 1} /\ Len(tr) + 1 \notin DOMAIN tr
    BY <1>2
  <1>4. Named(to) = Named(tr) \cup {row.name}
    <2>1. ASSUME NEW i \in DOMAIN to PROVE to[i].name \in Named(tr) \cup {row.name}
      BY <1>2, <1>3 DEF Named
    <2>2. ASSUME NEW i \in DOMAIN tr PROVE tr[i].name \in Named(to)
      BY <1>2, <1>3 DEF Named
    <2>3. row.name \in Named(to)
      BY <1>2, <1>3 DEF Named
    <2>. QED
      BY <2>1, <2>2, <2>3 DEF Named
  <1>5. CitedOf(to) = IF row.cited THEN CitedOf(tr) \cup {Len(tr) + 1} ELSE CitedOf(tr)
    BY <1>2, <1>3 DEF CitedOf
  <1>6. IsFiniteSet(CitedOf(tr)) /\ Len(tr) + 1 \notin CitedOf(tr)
    <2>1. Len(tr) \in Int /\ 1 \in Int
      BY <1>2
    <2>2. IsFiniteSet(1 .. Len(tr))
      BY <2>1, FS_Interval
    <2>3. CitedOf(tr) \subseteq 1 .. Len(tr)
      BY <1>2 DEF CitedOf
    <2>. QED
      BY <1>2, <2>2, <2>3, FS_Subset
  <1>7. \A i \in DOMAIN to : to[i].cited <=> to[i].name # "rejected"
    <2>1. row.cited <=> row.name # "rejected"
      BY AgentLimits
    <2>. QED
      BY <1>2, <1>3, <2>1 DEF Linked
  <1>8. CASE row = [name |-> "rejected", cited |-> FALSE] /\ ev = cs
    <2>1. Named(to) \ {"rejected"} = Named(tr) \ {"rejected"} /\ CitedOf(to) = CitedOf(tr)
      BY <1>4, <1>5, <1>8
    <2>. QED
      BY <1>2, <1>7, <1>8, <2>1 DEF Linked, to
  <1>9. ASSUME NEW t \in Configured, NEW p \in Evidence,
               row = [name |-> t, cited |-> TRUE], p.tool = t, ev = Append(cs, p)
        PROVE  ev \in Seq(Evidence) /\ Linked(Range(ev), to)
    <2>1. ev \in Seq(Evidence) /\ Range(ev) = Range(cs) \cup {p}
      BY <1>9, AppendAdds
    <2>2. ToolsOf(Range(ev)) = ToolsOf(Range(cs)) \cup {t}
      BY <1>9, <2>1 DEF ToolsOf
    <2>3. Named(to) \ {"rejected"} = (Named(tr) \ {"rejected"}) \cup {t}
      BY <1>4, <1>9, AgentLimits
    <2>4. /\ IsFiniteSet(Range(ev)) /\ Cardinality(Range(cs)) \in Nat
          /\ Cardinality(Range(ev)) <= Cardinality(Range(cs)) + 1
      <3>1. IsFiniteSet(Range(cs))
        BY DEF Linked
      <3>2. /\ IsFiniteSet(Range(cs) \cup {p})
            /\ Cardinality(Range(cs) \cup {p}) =
                 IF p \in Range(cs) THEN Cardinality(Range(cs)) ELSE Cardinality(Range(cs)) + 1
        BY <3>1, FS_AddElement
      <3>3. Cardinality(Range(cs)) \in Nat
        BY <3>1, FS_CardinalityType
      <3>. QED
        BY <2>1, <3>2, <3>3
    <2>5. Cardinality(CitedOf(to)) = Cardinality(CitedOf(tr)) + 1 /\ Cardinality(CitedOf(tr)) \in Nat
      <3>1. CitedOf(to) = CitedOf(tr) \cup {Len(tr) + 1}
        BY <1>5, <1>9
      <3>2. Cardinality(CitedOf(tr) \cup {Len(tr) + 1}) = Cardinality(CitedOf(tr)) + 1
        BY <1>6, FS_AddElement
      <3>. QED
        BY <1>6, <3>1, <3>2, FS_CardinalityType
    <2>6. Cardinality(Range(ev)) <= Cardinality(CitedOf(to))
      <3>1. Cardinality(Range(cs)) <= Cardinality(CitedOf(tr))
        BY DEF Linked
      <3>2. Cardinality(Range(ev)) \in Nat
        BY <2>4, FS_CardinalityType
      <3>. QED
        BY <2>4, <2>5, <3>1, <3>2
    <2>7. Range(ev) \subseteq Evidence
      BY <2>1 DEF Linked
    <2>8. ToolsOf(Range(ev)) = Named(to) \ {"rejected"}
      BY <2>2, <2>3 DEF Linked
    <2>. QED
      BY <1>2, <1>7, <2>1, <2>4, <2>6, <2>7, <2>8 DEF Linked
  <1>. QED
    BY <1>8, <1>9 DEF to

LEMMA CallToolStep ==
  ASSUME AgentInv, NEW available \in BOOLEAN, Agent!CallTool(available)
  PROVE  AgentInv'
  <1>1. pc = "tools" /\ calls # <<>> /\ calls \in Seq(Agent!Calls) /\ version \in Nat
    BY DEF AgentInv, AgentTyped, Agent!CallTool
  <1>2. CASE Len(trace) + 1 > MaxToolCalls
    <2>1. /\ pc' = "failed"
          /\ UNCHANGED <<clock, version, messages, loops, attempts, requests, started>>
          /\ UNCHANGED <<calls, cites, trace, envelope, file>>
      BY <1>2 DEF Agent!CallTool, Agent!Fail, Agent!budget
    <2>. QED
      BY <1>1, <2>1 DEF AgentInv, AgentTyped, Spent
  <1>3. CASE ~(Len(trace) + 1 > MaxToolCalls)
    <2>. DEFINE call == Head(calls)
    <2>1. /\ trace' = Append(trace, Agent!TraceOf(call))
          /\ cites' = IF Agent!Accepted(call)
                      THEN Append(cites, Agent!Payload(call.name, available)) ELSE cites
          /\ calls' = Tail(calls) /\ pc' \in {"loop", "tools"}
          /\ UNCHANGED <<version, loops, attempts, requests, envelope, file>>
      BY <1>3 DEF Agent!CallTool
    <2>2. call \in Agent!Calls /\ Tail(calls) \in Seq(Agent!Calls)
      BY <1>1
    <2>. HIDE DEF call
    <2>3. \/ Agent!TraceOf(call) = [name |-> "rejected", cited |-> FALSE] /\ cites' = cites
          \/ \E t \in Configured, p \in Evidence :
               /\ Agent!TraceOf(call) = [name |-> t, cited |-> TRUE]
               /\ p.tool = t /\ cites' = Append(cites, p)
      <3>1. CASE Agent!Accepted(call)
        <4>1. call.name \in Configured
          BY <3>1 DEF Agent!Accepted
        <4>2. Agent!TraceOf(call) = [name |-> call.name, cited |-> TRUE]
          BY <3>1 DEF Agent!TraceOf
        <4>3. Agent!Payload(call.name, available) \in Evidence /\ Agent!Payload(call.name, available).tool = call.name
          BY <1>1, <4>1, AgentLimits DEF Agent!Payload, Evidence
        <4>. QED
          BY <2>1, <3>1, <4>1, <4>2, <4>3
      <3>2. CASE ~Agent!Accepted(call)
        <4>1. Agent!Accepted(call) = FALSE
          BY <3>2 DEF Agent!Accepted
        <4>2. Agent!TraceOf(call) = [name |-> "rejected", cited |-> FALSE]
          BY <4>1 DEF Agent!TraceOf
        <4>. QED
          BY <2>1, <3>2, <4>2
      <3>. QED
        BY <3>1, <3>2
    <2>4. PICK row, ev : row = Agent!TraceOf(call) /\ ev = cites'
      OBVIOUS
    <2>5. ev \in Seq(Evidence) /\ Linked(Range(ev), Append(trace, row))
      <3>1. \/ row = [name |-> "rejected", cited |-> FALSE] /\ ev = cites
            \/ \E t \in Configured, p \in Evidence :
                 row = [name |-> t, cited |-> TRUE] /\ p.tool = t /\ ev = Append(cites, p)
        BY <2>3, <2>4
      <3>. QED
        BY <3>1, LinkedGrows DEF AgentInv
    <2>6. cites' \in Seq(Evidence) /\ Linked(Range(cites), trace)'
      <3>1. trace' = Append(trace, row) /\ cites' = ev
        BY <2>1, <2>4
      <3>. QED
        BY <2>5, <3>1
    <2>7. Len(trace') <= MaxToolCalls
      <3>1. trace \in Seq(TraceRows)
        BY DEF AgentInv, Linked
      <3>2. Len(trace') = Len(trace) + 1 /\ Len(trace) \in Nat
        BY <2>1, <3>1
      <3>. QED
        BY <1>3, <3>2, AgentLimits
    <2>8. AgentTyped' /\ Spent' /\ loops # 0
      BY <1>1, <2>1, <2>2 DEF AgentInv, AgentTyped, Spent, Agent!Calls
    <2>. QED
      BY <1>1, <2>1, <2>6, <2>7, <2>8 DEF AgentInv
  <1>. QED
    BY <1>2, <1>3

(* What is finished was linked: it verifies and is closed.                         *)
LEMMA EnvelopeStep ==
  ASSUME AgentInv, NEW cs \in Seq(Evidence), NEW tr, Linked(Range(cs), tr), Len(tr) <= TraceLimit,
         cs = <<>> => \A i \in DOMAIN tr : tr[i].name = "rejected",
         (cs = cites) \/ (loops = 0), pc \in {"loop", "answer"},
         Agent!Finish(Agent!Envelope(cs, tr))
  PROVE  AgentInv'
  <1>1. requests \in Nat /\ requests <= (TraceLimit + 1) * (RetryLimit + 1)
    <2>1. /\ loops * (MaxRetries + 1) <= (TraceLimit + 1) * (RetryLimit + 1)
          /\ loops * (MaxRetries + 1) \in Nat /\ (TraceLimit + 1) * (RetryLimit + 1) \in Nat
      <3>1. loops \in Nat /\ loops <= TraceLimit + 1 /\ TraceLimit + 1 \in Nat
        BY AgentLimits DEF AgentInv, AgentTyped
      <3>2. MaxRetries + 1 \in Nat /\ RetryLimit + 1 \in Nat /\ MaxRetries + 1 <= RetryLimit + 1
        BY AgentLimits
      <3>. QED
        BY <3>1, <3>2, ProductGrows
    <2>2. requests <= loops * (MaxRetries + 1) /\ requests \in Nat
      BY DEF AgentInv, AgentTyped, Spent
    <2>. QED
      BY <2>1, <2>2
  <1>. DEFINE e == Agent!Envelope(cs, tr)
  <1>2. /\ Agent!Verifies(e) /\ e.cites = Range(cs) /\ e.trace = tr
        /\ e.status = "grounded" <=> \E i \in DOMAIN tr : tr[i].name # "rejected"
    BY <1>1, LinkedVerifies
  <1>3. /\ pc' = "done" /\ envelope' = e
        /\ UNCHANGED <<version, loops, attempts, requests, calls, cites, trace, file>>
    BY <1>2 DEF Agent!Finish, Agent!budget
  <1>. HIDE DEF e
  <1>4. Closed(envelope)'
    <2>1. Range(cs) = Range(cites) \/ (cites = <<>> /\ loops = 0)
      BY DEF AgentInv, Spent
    <2>2. ToolsOf(e.cites) = Named(e.trace) \ {"rejected"}
      BY <1>2 DEF Linked
    <2>. QED
      BY <1>2, <1>3, <2>1, <2>2 DEF Closed
  <1>5. AgentTyped' /\ Spent'
    BY <1>3 DEF AgentInv, AgentTyped, Spent
  <1>. QED
    BY <1>3, <1>4, <1>5 DEF AgentInv

LEMMA AnswerStep ==
  ASSUME AgentInv, NEW text \in {"text", "empty"}, Agent!Answer(text)
  PROVE  AgentInv'
  <1>1. CASE pc' = "failed"
    <2>1. /\ UNCHANGED <<version, loops, attempts, requests>>
          /\ UNCHANGED <<calls, cites, trace, envelope, file>> /\ pc = "answer"
      BY <1>1 DEF Agent!Answer, Agent!Fail, Agent!Finish, Agent!budget
    <2>. QED
      BY <1>1, <2>1 DEF AgentInv, AgentTyped, Spent
  <1>2. CASE pc' # "failed"
    <2>1. /\ pc = "answer" /\ Agent!Finish(Agent!Envelope(cites, trace))
          /\ ~(cites = <<>> /\ \E i \in DOMAIN trace : trace[i].name # "rejected")
      BY <1>2 DEF Agent!Answer, Agent!Fail
    <2>2. Len(trace) <= TraceLimit
      <3>1. Len(trace) \in Nat
        BY DEF AgentInv, Linked
      <3>. QED
        BY <3>1, AgentLimits DEF AgentInv
    <2>3. cites = <<>> => \A i \in DOMAIN trace : trace[i].name = "rejected"
      BY <2>1
    <2>. QED
      BY <2>1, <2>2, <2>3, EnvelopeStep DEF AgentInv
  <1>. QED
    BY <1>1, <1>2

LEMMA NavigateStep ==
  ASSUME AgentInv, NEW matched, Agent!Navigate(matched)
  PROVE  AgentInv'
  <1>. DEFINE chosen == Agent!Chosen(matched)  n == Agent!Cardinality(chosen)
  <1>1. PICK at \in [1 .. n -> chosen] :
          Agent!Finish(Agent!Envelope([i \in DOMAIN at |-> Agent!Payload(Routes[at[i]], TRUE)],
                                      [i \in DOMAIN at |-> [name |-> Routes[at[i]], cited |-> TRUE]]))
    BY DEF Agent!Navigate
  <1>2. pc = "loop" /\ loops = 0 /\ version \in Nat
    BY DEF Agent!Navigate, AgentInv, AgentTyped
  <1>3. chosen \subseteq DOMAIN Routes /\ n \in Nat /\ n <= Len(Routes)
    <2>1. DOMAIN Routes = 1 .. Len(Routes) /\ Len(Routes) \in Nat
      BY AgentLimits
    <2>2. IsFiniteSet(1 .. Len(Routes)) /\ Cardinality(1 .. Len(Routes)) = Len(Routes)
      <3>1. 1 \in Int /\ Len(Routes) \in Int
        BY <2>1
      <3>2. /\ IsFiniteSet(1 .. Len(Routes))
            /\ Cardinality(1 .. Len(Routes)) = IF 1 > Len(Routes) THEN 0 ELSE Len(Routes) - 1 + 1
        BY <3>1, FS_Interval
      <3>. QED
        BY <2>1, <3>2
    <2>3. chosen \subseteq 1 .. Len(Routes)
      BY <2>1 DEF Agent!Chosen
    <2>4. IsFiniteSet(chosen) /\ Cardinality(chosen) <= Len(Routes)
      BY <2>2, <2>3, FS_Subset
    <2>5. Cardinality(chosen) \in Nat
      BY <2>4, FS_CardinalityType
    <2>. QED
      BY <2>1, <2>3, <2>4, <2>5, SameSize
  <1>. HIDE DEF chosen, n
  <1>. DEFINE cs == [i \in 1 .. n |-> Agent!Payload(Routes[at[i]], TRUE)]
              tr == [i \in 1 .. n |-> [name |-> Routes[at[i]], cited |-> TRUE]]
  <1>4. Agent!Finish(Agent!Envelope(cs, tr))
    <2>1. DOMAIN at = 1 .. n
      OBVIOUS
    <2>. QED
      BY <1>1, <2>1
  <1>5. \A i \in 1 .. n : Routes[at[i]] \in Configured /\ Routes[at[i]] \in Tools
    <2>1. ASSUME NEW i \in 1 .. n PROVE Routes[at[i]] \in Configured
      <3>1. at[i] \in DOMAIN Routes
        BY <1>3
      <3>. QED
        BY <3>1, AgentLimits
    <2>. QED
      BY <2>1, AgentLimits
  <1>6. \A i \in 1 .. n : cs[i] \in Evidence /\ cs[i].tool = Routes[at[i]]
    BY <1>2, <1>5 DEF Agent!Payload, Evidence
  <1>7. cs \in Seq(Evidence) /\ Range(cs) \subseteq Evidence
    <2>1. cs \in [1 .. n -> Evidence]
      BY <1>6
    <2>2. n \in Nat
      BY <1>3
    <2>. HIDE DEF cs
    <2>3. cs \in Seq(Evidence)
      BY <2>1, <2>2
    <2>4. Range(cs) \subseteq Evidence
      BY <2>1 DEF Range
    <2>. QED
      BY <2>3, <2>4
  <1>8. tr \in Seq(TraceRows) /\ Len(tr) = n /\ DOMAIN tr = 1 .. n /\ DOMAIN cs = 1 .. n
    BY <1>3, <1>5 DEF TraceRows
  <1>9. Linked(Range(cs), tr) /\ Len(tr) <= TraceLimit /\ (cs = <<>> => \A i \in DOMAIN tr : tr[i].name = "rejected")
    <2>1. \A i \in DOMAIN tr : tr[i].cited /\ tr[i].name = Routes[at[i]] /\ tr[i].name # "rejected"
      BY <1>5, <1>8, AgentLimits
    <2>2. CitedOf(tr) = 1 .. n
      BY <1>8, <2>1 DEF CitedOf
    <2>3. /\ IsFiniteSet(Range(cs))
          /\ Cardinality(Range(cs)) <= Cardinality(1 .. n)
      <3>1. IsFiniteSet(1 .. n)
        <4>1. n \in Int /\ 1 \in Int
          BY <1>3
        <4>. QED
          BY <4>1, FS_Interval
      <3>2. cs \in Surjection(1 .. n, Range(cs))
        BY <1>8 DEF Surjection, Range
      <3>. QED
        BY <3>1, <3>2, FS_Surjection
    <2>4. ToolsOf(Range(cs)) = Named(tr) \ {"rejected"}
      <3>1. ToolsOf(Range(cs)) = {cs[i].tool : i \in 1 .. n}
        <4>. HIDE DEF cs
        <4>. QED
          BY <1>8 DEF ToolsOf, Range
      <3>3. {cs[i].tool : i \in 1 .. n} = {Routes[at[i]] : i \in 1 .. n}
        <4>. HIDE DEF cs
        <4>. QED
          BY <1>6
      <3>2. Named(tr) = {Routes[at[i]] : i \in 1 .. n}
        BY <1>8, <2>1 DEF Named
      <3>. QED
        BY <1>5, <3>1, <3>2, <3>3, AgentLimits
    <2>5. Len(tr) <= TraceLimit
      <3>1. Len(Routes) \in Nat
        BY AgentLimits
      <3>. QED
        BY <1>3, <1>8, <3>1, AgentLimits
    <2>6. cs = <<>> => DOMAIN tr = {}
      BY <1>8
    <2>. QED
      BY <1>7, <1>8, <2>1, <2>2, <2>3, <2>4, <2>5, <2>6 DEF Linked
  <1>. HIDE DEF cs, tr
  <1>. QED
    BY <1>2, <1>4, <1>7, <1>9, EnvelopeStep

LEMMA AgentStep ==
  ASSUME AgentInv, Agent!Next \/ UNCHANGED agentVars
  PROVE  AgentInv'
  <1>1. CASE Agent!Refused
    <2>1. /\ UNCHANGED <<version, loops, attempts, requests, calls, cites, trace, envelope, file>>
          /\ pc = "request" /\ pc' = "failed"
      BY <1>1 DEF Agent!Refused, Agent!Fail, Agent!budget
    <2>. QED
      BY <2>1 DEF AgentInv, AgentTyped, Spent
  <1>2. CASE Agent!Deliver
    <2>1. /\ UNCHANGED <<version, loops, attempts, requests, calls, cites, trace, envelope, pc>>
          /\ pc = "done" /\ file' = envelope
      BY <1>2 DEF Agent!Deliver, Agent!budget
    <2>2. AgentTyped' /\ Spent' /\ (Closed(envelope) <=> Closed(envelope)')
      BY <2>1 DEF AgentInv, AgentTyped, Spent, Closed
    <2>. QED
      BY <2>1, <2>2 DEF AgentInv
  <1>3. CASE Agent!Change
    <2>1. /\ UNCHANGED <<loops, attempts, requests, calls, cites, trace, envelope, pc, file>>
          /\ version' = version + 1
      BY <1>3 DEF Agent!Change
    <2>2. AgentTyped' /\ Spent' /\ (Closed(envelope) <=> Closed(envelope)')
      BY <2>1 DEF AgentInv, AgentTyped, Spent, Closed
    <2>. QED
      BY <2>1, <2>2 DEF AgentInv
  <1>4. CASE UNCHANGED agentVars
    <2>1. UNCHANGED <<version, loops, attempts, requests, calls, cites, trace, envelope, pc, file>>
      BY <1>4 DEF agentVars
    <2>2. AgentTyped' /\ Spent' /\ (Closed(envelope) <=> Closed(envelope)')
      BY <2>1 DEF AgentInv, AgentTyped, Spent, Closed
    <2>. QED
      BY <2>1, <2>2 DEF AgentInv
  <1>5. CASE Agent!Step
    BY <1>1, <1>5, LoopStep, RequestStep, CallToolStep, AnswerStep DEF Agent!Step
  <1>6. ASSUME NEW matched, Agent!Navigate(matched) PROVE AgentInv'
    BY <1>6, NavigateStep
  <1>. QED
    BY <1>2, <1>3, <1>4, <1>5, <1>6 DEF Agent!Next

LEMMA CitationsFromInv == AgentInv => CitationClosure
  <1>. SUFFICES ASSUME AgentInv PROVE CitationClosure
    OBVIOUS
  <1>1. Agent!CitationClosure
    <2>1. Agent!Range(cites) = Range(cites)
      BY SameRange
    <2>. QED
      BY <2>1 DEF AgentInv, Closed, ToolsOf, Named, Agent!CitationClosure
  <1>2. Agent!EnvelopesVerify
    BY DEF AgentInv, AgentTyped, Agent!EnvelopesVerify
  <1>3. Agent!BudgetsHold
    <2>1. /\ loops * (MaxRetries + 1) <= (MaxToolCalls + 1) * (MaxRetries + 1)
          /\ loops * (MaxRetries + 1) \in Nat /\ (MaxToolCalls + 1) * (MaxRetries + 1) \in Nat
      <3>1. loops \in Nat /\ loops <= MaxToolCalls + 1 /\ MaxToolCalls + 1 \in Nat /\ MaxRetries + 1 \in Nat
        BY AgentLimits DEF AgentInv, AgentTyped
      <3>. QED
        BY <3>1, ProductGrows
    <2>2. requests <= (MaxToolCalls + 1) * (MaxRetries + 1)
      BY <2>1 DEF AgentInv, AgentTyped, Spent
    <2>3. loops <= MaxToolCalls + 1
      BY AgentLimits DEF AgentInv, AgentTyped
    <2>. QED
      BY <2>2, <2>3 DEF Agent!BudgetsHold, AgentInv
  <1>. QED
    BY <1>1, <1>2, <1>3 DEF CitationClosure

(* What a saved answer cites is what its accepted tool calls returned; no run is   *)
(* spent on an envelope its own verifier refuses; the budgets hold.                *)
THEOREM CitationsClosed == MCSpec => []CitationClosure
  <1>1. MCInit => AgentInv
    BY AgentInit DEF MCInit
  <1>2. AgentInv /\ [MCNext]_<<agentVars, reviewVars, vars, panelVars, focus>> => AgentInv'
    <2>1. [MCNext]_<<agentVars, reviewVars, vars, panelVars, focus>> => Agent!Next \/ UNCHANGED agentVars
      BY DEF MCNext
    <2>. QED
      BY <2>1, AgentStep
  <1>. QED
    BY <1>1, <1>2, CitationsFromInv, PTL DEF MCSpec

-----------------------------------------------------------------------------
(* The review.  A benchmark's number tells its answers, wherever they were loaded  *)
(* (Benched); a history verifies, and its entries name the answers of their run    *)
(* (Kept).  With one review command at a time what it loaded is still there.       *)

Marks    == {"accept", "revise", "reject"}
Entries  == [case : ReviewCases, answer : Answers, run : Nat, decision : Marks,
             failed : SUBSET {"prose", "safety"}, at : Nat]

OneReviewer == \A r, s \in Reviewers : r = s

Kept(h) ==
  /\ h \in Seq(Entries) /\ Review!Validates(h) /\ Range(h) \subseteq given
  /\ \A i \in DOMAIN h : /\ h[i].run <= bench.run
                         /\ h[i].run = bench.run => h[i].answer = bench.done[h[i].case].answer

Benched(r) ==
  loaded[r] # Review!Idle =>
    /\ loaded[r].bench.run \in Nat /\ loaded[r].bench.run <= bench.run
    /\ loaded[r].bench.run = bench.run => loaded[r].bench = bench
    /\ Kept(loaded[r].history)

\* The answers of b, if it is the run that the report speaks of, are reviewed.
Answered(b) ==
  b.run = report.run =>
    \A c \in ReviewCases : \E i \in DOMAIN history :
      history[i].case = c /\ history[i].answer = b.done[c].answer

ReviewInv ==
  /\ bench.run \in Nat /\ loaded = [r \in Reviewers |-> loaded[r]]
  /\ Kept(history) /\ \A r \in Reviewers : Benched(r)
  /\ report.status = "ready" =>
       /\ report.run \in Nat /\ report.run <= bench.run
       /\ \A c \in ReviewCases : \E g \in given :
            g.case = c /\ g.run = report.run /\ g.decision = "accept"

\* With one reviewer.
AloneInv ==
  /\ given = Range(history)
  /\ \A r \in Reviewers : loaded[r] # Review!Idle => loaded[r].history = history
  /\ report.status = "ready" =>
       /\ Answered(bench)
       /\ \A r \in Reviewers : loaded[r] # Review!Idle => Answered(loaded[r].bench)
       /\ \A g \in given : g.run = report.run => g.decision # "reject"

LEMMA ReviewLimits == Minimum \in Nat /\ {ReviewRuns, MaxEntries, ReviewTime} \subseteq Nat
  BY AnswersAssumption DEF Review!ReviewAssumption

LEMMA Joined ==
  ASSUME NEW S, NEW s \in Seq(S), NEW t \in Seq(S)
  PROVE  /\ s \o t \in Seq(S) /\ Len(s) \in Nat /\ Len(t) \in Nat /\ Len(s \o t) = Len(s) + Len(t)
         /\ DOMAIN s = 1 .. Len(s) /\ DOMAIN t = 1 .. Len(t)
         /\ Range(s \o t) = Range(s) \cup Range(t)
         /\ \A i \in DOMAIN s : i \in DOMAIN (s \o t) /\ (s \o t)[i] = s[i]
         /\ \A i \in DOMAIN (s \o t) : \/ i \in DOMAIN s /\ (s \o t)[i] = s[i]
                                       \/ /\ i > Len(s) /\ i - Len(s) \in DOMAIN t
                                          /\ (s \o t)[i] = t[i - Len(s)]
  <1>1. /\ s \o t \in Seq(S) /\ Len(s) \in Nat /\ Len(t) \in Nat /\ Len(s \o t) = Len(s) + Len(t)
        /\ DOMAIN s = 1 .. Len(s) /\ DOMAIN t = 1 .. Len(t)
    OBVIOUS
  <1>2. DOMAIN (s \o t) = 1 .. Len(s) + Len(t)
    BY <1>1
  <1>3. ASSUME NEW i \in DOMAIN s
        PROVE  i \in DOMAIN (s \o t) /\ (s \o t)[i] = s[i]
    BY <1>1, <1>2
  <1>4. ASSUME NEW i \in DOMAIN (s \o t)
        PROVE  \/ i \in DOMAIN s /\ (s \o t)[i] = s[i]
               \/ i > Len(s) /\ i - Len(s) \in DOMAIN t /\ (s \o t)[i] = t[i - Len(s)]
    BY <1>1, <1>2
  <1>5. ASSUME NEW j \in DOMAIN t
        PROVE  Len(s) + j \in DOMAIN (s \o t) /\ (s \o t)[Len(s) + j] = t[j]
    BY <1>1, <1>2
  <1>6. Range(s \o t) = Range(s) \cup Range(t)
    <2>. DEFINE u == s \o t
    <2>1. \A i \in DOMAIN u : u[i] \in Range(s) \cup Range(t)
      BY <1>4 DEF Range
    <2>2. \A i \in DOMAIN s : s[i] \in Range(u)
      BY <1>3 DEF Range
    <2>3. \A j \in DOMAIN t : t[j] \in Range(u)
      BY <1>5 DEF Range
    <2>. HIDE DEF u
    <2>4. Range(u) = Range(s) \cup Range(t)
      BY <2>1, <2>2, <2>3 DEF Range
    <2>. QED
      BY <2>4 DEF u
  <1>. QED
    BY <1>1, <1>3, <1>4, <1>6

LEMMA ReviewInit == Review!Init => ReviewInv /\ AloneInv
  <1>. SUFFICES ASSUME Review!Init PROVE ReviewInv /\ AloneInv
    OBVIOUS
  <1>1. /\ history = <<>> /\ given = {} /\ report = Review!NoReport /\ bench.run = 0
        /\ loaded = [r \in Reviewers |-> Review!Idle]
    BY DEF Review!Init
  <1>2. history \in Seq(Entries) /\ DOMAIN history = {} /\ Len(history) = 0 /\ Range(history) = {}
    BY <1>1 DEF Range
  <1>3. Kept(history)
    BY <1>1, <1>2, ReviewLimits DEF Kept, Review!Validates
  <1>. QED
    BY <1>1, <1>2, <1>3 DEF ReviewInv, AloneInv, Benched, Review!NoReport

(* Entries given since, and a newer benchmark, leave a history as good as it was.  *)
LEMMA KeptStays ==
  ASSUME NEW h, Kept(h), given \subseteq given', bench.run \in Nat, bench'.run \in Nat,
         bench' = bench \/ bench.run < bench'.run
  PROVE  Kept(h)'
  <1>1. \A i \in DOMAIN h : h[i].run \in Nat
    <2>1. h \in Seq(Entries)
      BY DEF Kept
    <2>2. \A i \in DOMAIN h : h[i] \in Entries
      BY <2>1
    <2>3. \A e \in Entries : e.run \in Nat
      BY DEF Entries
    <2>. QED
      BY <2>2, <2>3
  <1>2. CASE bench' = bench
    BY <1>2 DEF Kept
  <1>3. CASE bench.run < bench'.run
    <2>1. \A i \in DOMAIN h : h[i].run <= bench'.run /\ h[i].run # bench'.run
      BY <1>1, <1>3 DEF Kept
    <2>. QED
      BY <2>1 DEF Kept
  <1>. QED
    BY <1>2, <1>3

LEMMA BenchmarkStep ==
  ASSUME ReviewInv, NEW done, NEW identity, Review!Benchmark(done, identity)
  PROVE  ReviewInv' /\ (AloneInv => AloneInv')
  <1>1. /\ bench.run \in Nat /\ bench'.run = bench.run + 1
        /\ UNCHANGED <<history, loaded, given, report>>
    BY DEF Review!Benchmark, ReviewInv
  <1>2. bench'.run \in Nat /\ bench.run < bench'.run /\ given \subseteq given'
    BY <1>1
  <1>3. \A h : Kept(h) => Kept(h)'
    BY <1>1, <1>2, KeptStays
  <1>4. ASSUME NEW r \in Reviewers PROVE Benched(r)'
    <2>1. Benched(r)
      BY DEF ReviewInv
    <2>2. loaded'[r] = loaded[r]
      BY <1>1
    <2>3. ASSUME loaded[r] # Review!Idle
          PROVE  /\ loaded[r].bench.run \in Nat /\ loaded[r].bench.run < bench'.run
                 /\ Kept(loaded[r].history)'
      <3>1. loaded[r].bench.run \in Nat /\ loaded[r].bench.run <= bench.run /\ Kept(loaded[r].history)
        BY <2>1, <2>3 DEF Benched
      <3>2. PICK h : h = loaded[r].history
        OBVIOUS
      <3>3. Kept(h)'
        BY <1>3, <3>1, <3>2
      <3>4. Kept(loaded[r].history)'
        BY <2>2, <3>2, <3>3
      <3>. QED
        BY <1>1, <3>1, <3>4
    <2>. QED
      BY <1>2, <2>2, <2>3 DEF Benched, Review!Idle
  <1>5. Kept(history)'
    <2>1. PICK h : h = history
      OBVIOUS
    <2>2. Kept(h)' /\ h = history'
      BY <1>1, <1>3, <2>1 DEF ReviewInv
    <2>. QED
      BY <2>2
  <1>6. ReviewInv'
    BY <1>1, <1>2, <1>4, <1>5 DEF ReviewInv
  <1>7. ASSUME AloneInv PROVE AloneInv'
    <2>1. ASSUME report.status = "ready"
          PROVE  /\ Answered(bench)'
                 /\ \A r \in Reviewers : loaded[r] # Review!Idle => Answered(loaded[r].bench)'
      <3>1. report.run <= bench.run /\ report.run \in Nat
        BY <2>1 DEF ReviewInv
      <3>2. Answered(bench)'
        BY <1>1, <3>1 DEF Answered
      <3>3. ASSUME NEW r \in Reviewers, loaded[r] # Review!Idle
            PROVE  Answered(loaded[r].bench)'
        BY <1>1, <1>7, <2>1, <3>3 DEF AloneInv, Answered
      <3>. QED
        BY <3>2, <3>3
    <2>. QED
      BY <1>1, <1>7, <2>1 DEF AloneInv
  <1>. QED
    BY <1>6, <1>7

LEMMA LoadStep ==
  ASSUME ReviewInv, NEW r \in Reviewers, Review!Load(r) \/ Review!Refuse(r)
  PROVE  ReviewInv' /\ (AloneInv => AloneInv')
  <1>1. UNCHANGED <<bench, history, given, report>>
    BY DEF Review!Load, Review!Refuse
  <1>2. loaded' = [loaded EXCEPT ![r] = loaded'[r]] /\ r \in DOMAIN loaded /\ DOMAIN loaded' = Reviewers
    BY DEF Review!Load, Review!Refuse, ReviewInv
  <1>3. loaded'[r] # Review!Idle => loaded'[r].bench = bench /\ loaded'[r].history = history
    BY <1>2 DEF Review!Load, Review!Refuse, ReviewInv
  <1>4. \A s \in Reviewers : s # r => loaded'[s] = loaded[s]
    BY <1>2 DEF ReviewInv
  <1>5. bench.run \in Nat /\ Kept(history)
    BY DEF ReviewInv
  <1>6. \A h : Kept(h)' <=> Kept(h)
    BY <1>1 DEF Kept
  <1>7. ASSUME NEW s \in Reviewers PROVE Benched(s)'
    <2>1. PICK h : h = loaded'[s].history
      OBVIOUS
    <2>2. CASE s = r
      <3>1. loaded'[r] # Review!Idle => Kept(h)'
        BY <1>3, <1>5, <1>6, <2>1, <2>2
      <3>2. loaded'[r] # Review!Idle => Kept(loaded[r].history)'
        BY <2>1, <2>2, <3>1
      <3>. QED
        BY <1>1, <1>3, <1>5, <2>2, <3>2 DEF Benched, Review!Idle
    <2>3. CASE s # r
      <3>1. loaded'[s] = loaded[s] /\ Benched(s)
        BY <1>4, <2>3 DEF ReviewInv
      <3>2. loaded[s] # Review!Idle => Kept(h)'
        BY <1>6, <2>1, <3>1 DEF Benched
      <3>3. loaded[s] # Review!Idle => Kept(loaded[s].history)'
        BY <2>1, <3>2
      <3>. QED
        BY <1>1, <3>1, <3>3 DEF Benched, Review!Idle
    <2>. QED
      BY <2>2, <2>3
  <1>8. Kept(history)'
    <2>1. PICK h : h = history
      OBVIOUS
    <2>2. Kept(h)' /\ h = history'
      BY <1>1, <1>5, <1>6, <2>1
    <2>. QED
      BY <2>2
  <1>9. ReviewInv'
    BY <1>1, <1>2, <1>5, <1>7, <1>8 DEF ReviewInv
  <1>10. ASSUME AloneInv PROVE AloneInv'
    <2>1. \A s \in Reviewers : loaded'[s] # Review!Idle => loaded'[s].history = history
      BY <1>3, <1>4, <1>10 DEF AloneInv
    <2>2. ASSUME report.status = "ready", NEW s \in Reviewers, loaded'[s] # Review!Idle
          PROVE  Answered(loaded[s].bench)'
      <3>1. \/ loaded'[s].bench = bench
            \/ loaded[s] # Review!Idle /\ loaded'[s] = loaded[s]
        BY <1>3, <1>4, <2>2
      <3>. QED
        BY <1>1, <1>10, <2>2, <3>1 DEF AloneInv, Answered
    <2>3. report.status = "ready" => Answered(bench)'
      BY <1>1, <1>10 DEF AloneInv, Answered
    <2>. QED
      BY <1>1, <1>10, <2>1, <2>2, <2>3 DEF AloneInv
  <1>. QED
    BY <1>9, <1>10

LEMMA BatchTyped ==
  ASSUME NEW batch \in Review!Batches
  PROVE  batch \in Seq(Review!Items)
  <1>1. Review!Accepts \subseteq Review!Items
    BY DEF Review!Accepts
  <1>2. ASSUME NEW i \in Review!Items PROVE <<i>> \in Seq(Review!Items)
    OBVIOUS
  <1>3. ASSUME batch \in Review!Accepts \X Review!Accepts PROVE batch \in Seq(Review!Items)
    <2>1. PICK i \in Review!Accepts, j \in Review!Accepts : batch = <<i, j>>
      BY <1>3
    <2>2. i \in Review!Items /\ j \in Review!Items
      BY <1>1
    <2>. QED
      BY <2>1, <2>2
  <1>. QED
    BY <1>2, <1>3 DEF Review!Batches

LEMMA ItemsTyped ==
  ASSUME NEW i \in Review!Items
  PROVE  /\ i.case \in ReviewCases /\ i.answer \in Answers /\ i.decision \in Marks
         /\ i.failed \in SUBSET {"prose", "safety"} /\ i.at \in Nat
  <1>1. PICK c \in ReviewCases, a \in Answers, rating \in Review!Ratings, t \in 1 .. ReviewTime :
          i = Review!Item(c, a, rating, t)
    BY DEF Review!Items
  <1>2. i.case = c /\ i.answer = a /\ i.decision = rating.decision /\ i.failed = rating.failed /\ i.at = t
    BY <1>1 DEF Review!Item
  <1>3. rating.decision \in Marks /\ rating.failed \in SUBSET {"prose", "safety"}
    BY DEF Review!Ratings, Marks
  <1>4. t \in Nat
    BY ReviewLimits
  <1>. QED
    BY <1>2, <1>3, <1>4

LEMMA BatchEntries ==
  ASSUME NEW b, NEW batch \in Review!Batches, b.run \in Nat
  PROVE  /\ Review!EntriesOf(b, batch) \in Seq(Entries)
         /\ DOMAIN Review!EntriesOf(b, batch) = DOMAIN batch
         /\ Len(Review!EntriesOf(b, batch)) = Len(batch)
         /\ \A i \in DOMAIN batch :
              LET e == Review!EntriesOf(b, batch)[i]
              IN  /\ e.case = batch[i].case /\ e.answer = batch[i].answer /\ e.run = b.run
                  /\ e.decision = batch[i].decision /\ e.failed = batch[i].failed /\ e.at = batch[i].at
                  /\ batch[i].case \in ReviewCases
  <1>1. batch \in Seq(Review!Items) /\ DOMAIN batch = 1 .. Len(batch) /\ Len(batch) \in Nat
    BY BatchTyped
  <1>2. \A i \in DOMAIN batch : batch[i] \in Review!Items
    BY <1>1
  <1>3. ASSUME NEW i \in DOMAIN batch
        PROVE  [case |-> batch[i].case, answer |-> batch[i].answer, run |-> b.run,
                decision |-> batch[i].decision, failed |-> batch[i].failed, at |-> batch[i].at] \in Entries
    BY <1>2, ItemsTyped DEF Entries
  <1>. DEFINE es == Review!EntriesOf(b, batch)
  <1>4. es \in [1 .. Len(batch) -> Entries]
    BY <1>1, <1>3 DEF Review!EntriesOf
  <1>5. \A i \in DOMAIN batch :
          es[i] = [case |-> batch[i].case, answer |-> batch[i].answer, run |-> b.run,
                   decision |-> batch[i].decision, failed |-> batch[i].failed, at |-> batch[i].at]
    BY DEF Review!EntriesOf
  <1>. HIDE DEF es
  <1>6. es \in Seq(Entries) /\ DOMAIN es = DOMAIN batch /\ Len(es) = Len(batch)
    BY <1>1, <1>4
  <1>7. \A i \in DOMAIN batch : batch[i].case \in ReviewCases
    BY <1>2, ItemsTyped
  <1>. QED
    BY <1>5, <1>6, <1>7 DEF es

(* What the review command writes is a history that verifies.                      *)
LEMMA WrittenKept ==
  ASSUME ReviewInv, NEW r \in Reviewers, NEW batch \in Review!Batches, loaded[r] # Review!Idle,
         Review!Appends(r, batch), bench' = bench
  PROVE  Kept(history)' /\ given \subseteq given'
  <1>. DEFINE b == loaded[r].bench  h == loaded[r].history  es == Review!EntriesOf(b, batch)
  <1>1. /\ Review!Parses(b, batch) /\ Review!Fits(h, batch) /\ Len(h) + Len(batch) <= MaxEntries
        /\ history' = h \o es /\ given' = given \cup Range(es)
    BY SameRange DEF Review!Appends
  <1>2. /\ b.run \in Nat /\ b.run <= bench.run /\ (b.run = bench.run => b = bench) /\ Kept(h)
    BY DEF ReviewInv, Benched
  <1>3. /\ es \in Seq(Entries) /\ DOMAIN es = DOMAIN batch /\ Len(es) = Len(batch)
        /\ \A i \in DOMAIN batch :
             /\ es[i].case = batch[i].case /\ es[i].answer = batch[i].answer /\ es[i].run = b.run
             /\ es[i].decision = batch[i].decision /\ es[i].failed = batch[i].failed
             /\ es[i].at = batch[i].at
    BY <1>2, BatchEntries
  <1>4. h \in Seq(Entries) /\ Review!Validates(h) /\ Range(h) \subseteq given
    BY <1>2 DEF Kept
  <1>. HIDE DEF b, h, es
  <1>5. PICK w : w = h \o es
    OBVIOUS
  <1>6. /\ w \in Seq(Entries) /\ Len(h) \in Nat /\ Len(es) \in Nat /\ Len(w) = Len(h) + Len(es)
        /\ DOMAIN h = 1 .. Len(h) /\ DOMAIN es = 1 .. Len(es) /\ Range(w) = Range(h) \cup Range(es)
        /\ \A i \in DOMAIN w : \/ i \in DOMAIN h /\ w[i] = h[i]
                               \/ i > Len(h) /\ i - Len(h) \in DOMAIN es /\ w[i] = es[i - Len(h)]
        /\ DOMAIN w \subseteq Int
    <2>1. w \in Seq(Entries) => DOMAIN w \subseteq Int
      OBVIOUS
    <2>. QED
      BY <1>3, <1>4, <1>5, <2>1, Joined
  <1>7. ASSUME NEW i \in DOMAIN w, NEW j \in DOMAIN w, i < j
        PROVE  <<w[i].case, w[i].answer>> # <<w[j].case, w[j].answer>> /\ w[i].at <= w[j].at
    <2>1. CASE i \in DOMAIN h /\ w[i] = h[i] /\ j \in DOMAIN h /\ w[j] = h[j]
      BY <1>4, <1>7, <2>1 DEF Review!Validates
    <2>2. CASE i \in DOMAIN h /\ w[i] = h[i] /\ j - Len(h) \in DOMAIN es /\ w[j] = es[j - Len(h)]
      <3>. DEFINE m == j - Len(h)
      <3>1. m \in DOMAIN batch /\ w[j].case = batch[m].case /\ w[j].answer = batch[m].answer /\ w[j].at = batch[m].at
        BY <1>3, <2>2
      <3>. HIDE DEF m
      <3>. QED
        BY <1>1, <2>2, <3>1 DEF Review!Fits
    <2>3. CASE /\ i > Len(h) /\ i - Len(h) \in DOMAIN es /\ w[i] = es[i - Len(h)]
               /\ j - Len(h) \in DOMAIN es /\ w[j] = es[j - Len(h)]
      <3>. DEFINE k == i - Len(h)  m == j - Len(h)
      <3>1. /\ m \in DOMAIN batch /\ w[j].case = batch[m].case /\ w[j].at = batch[m].at
            /\ k \in DOMAIN batch /\ w[i].case = batch[k].case /\ w[i].at = batch[k].at
        BY <1>3, <2>3
      <3>2. k < m /\ k # m
        BY <1>6, <1>7, <2>3
      <3>. HIDE DEF k, m
      <3>. QED
        BY <1>1, <3>1, <3>2 DEF Review!Parses
    <2>4. i > Len(h) => ~(j \in DOMAIN h)
      BY <1>6, <1>7
    <2>. QED
      BY <1>6, <2>1, <2>2, <2>3, <2>4
  <1>8. ASSUME NEW i \in DOMAIN w PROVE Review!Consistent(w[i])
    <2>1. CASE i \in DOMAIN h /\ w[i] = h[i]
      BY <1>4, <2>1 DEF Review!Validates
    <2>2. CASE i - Len(h) \in DOMAIN es /\ w[i] = es[i - Len(h)]
      <3>. DEFINE m == i - Len(h)
      <3>1. m \in DOMAIN batch /\ w[i].decision = batch[m].decision /\ w[i].failed = batch[m].failed
        BY <1>3, <2>2
      <3>. HIDE DEF m
      <3>2. Review!Consistent(batch[m])
        BY <1>1, <3>1 DEF Review!Parses
      <3>. QED
        BY <3>1, <3>2 DEF Review!Consistent
    <2>. QED
      BY <1>6, <2>1, <2>2
  <1>9. ASSUME NEW i \in DOMAIN w
        PROVE  w[i].run <= bench.run /\ (w[i].run = bench.run => w[i].answer = bench.done[w[i].case].answer)
    <2>1. CASE i \in DOMAIN h /\ w[i] = h[i]
      BY <1>2, <2>1 DEF Kept
    <2>2. CASE i - Len(h) \in DOMAIN es /\ w[i] = es[i - Len(h)]
      <3>. DEFINE m == i - Len(h)
      <3>1. m \in DOMAIN batch /\ w[i].case = batch[m].case /\ w[i].answer = batch[m].answer /\ w[i].run = b.run
        BY <1>3, <2>2
      <3>. HIDE DEF m
      <3>2. batch[m].answer = b.done[batch[m].case].answer
        BY <1>1, <3>1 DEF Review!Parses
      <3>. QED
        BY <1>2, <3>1, <3>2
    <2>. QED
      BY <1>6, <2>1, <2>2
  <1>10. Review!Validates(w)
    <2>1. Len(w) <= MaxEntries
      BY <1>1, <1>3, <1>6
    <2>. QED
      BY <1>7, <1>8, <2>1 DEF Review!Validates
  <1>11. Range(w) \subseteq given'
    BY <1>1, <1>4, <1>6
  <1>12. Kept(w)'
    BY <1>6, <1>9, <1>10, <1>11 DEF Kept
  <1>. QED
    BY <1>1, <1>5, <1>12

LEMMA ReviewActStep ==
  ASSUME ReviewInv, NEW r \in Reviewers, NEW batch \in Review!Batches, Review!Review(r, batch)
  PROVE  ReviewInv' /\ (AloneInv /\ OneReviewer => AloneInv')
  <1>1. /\ loaded[r] # Review!Idle /\ Review!Appends(r, batch)
        /\ loaded' = [loaded EXCEPT ![r] = Review!Idle] /\ UNCHANGED <<bench, report>>
    BY DEF Review!Review
  <1>2. Kept(history)' /\ given \subseteq given'
    BY <1>1, WrittenKept
  <1>3. \A h : Kept(h) => Kept(h)'
    BY <1>1, <1>2, KeptStays DEF ReviewInv
  <1>4. ASSUME NEW s \in Reviewers PROVE Benched(s)'
    <2>1. CASE s = r
      BY <1>1, <2>1 DEF Benched, ReviewInv
    <2>2. CASE s # r
      <3>1. loaded'[s] = loaded[s] /\ Benched(s)
        BY <1>1, <2>2 DEF ReviewInv
      <3>2. PICK h : h = loaded[s].history
        OBVIOUS
      <3>3. loaded[s] # Review!Idle => Kept(h)'
        BY <1>3, <3>1, <3>2 DEF Benched
      <3>4. loaded[s] # Review!Idle => Kept(loaded[s].history)'
        BY <3>1, <3>2, <3>3
      <3>. QED
        BY <1>1, <3>1, <3>4 DEF Benched, Review!Idle
    <2>. QED
      BY <2>1, <2>2
  <1>5. ReviewInv'
    <2>1. loaded' = [s \in Reviewers |-> loaded'[s]]
      BY <1>1 DEF ReviewInv
    <2>. QED
      BY <1>1, <1>2, <1>4, <2>1 DEF ReviewInv
  <1>6. ASSUME AloneInv, OneReviewer PROVE AloneInv'
    <2>. DEFINE b == loaded[r].bench  es == Review!EntriesOf(b, batch)
    <2>1. /\ loaded[r].history = history /\ Review!Parses(b, batch) /\ Review!Fits(history, batch)
          /\ history' = history \o es /\ given' = given \cup Range(es)
      BY <1>1, <1>6, SameRange DEF Review!Appends, AloneInv
    <2>2. /\ es \in Seq(Entries) /\ DOMAIN es = DOMAIN batch
          /\ \A i \in DOMAIN batch : /\ es[i].case = batch[i].case /\ es[i].answer = batch[i].answer
                                     /\ es[i].run = b.run /\ batch[i].case \in ReviewCases
      <3>1. b.run \in Nat
        BY <1>1 DEF ReviewInv, Benched
      <3>. QED
        BY <3>1, BatchEntries
    <2>. HIDE DEF b, es
    <2>3. history \in Seq(Entries)
      BY DEF ReviewInv, Kept
    <2>4. /\ Range(history') = Range(history) \cup Range(es)
          /\ \A i \in DOMAIN history : i \in DOMAIN history' /\ history'[i] = history[i]
      BY <2>1, <2>2, <2>3, Joined
    <2>5. given' = Range(history')
      BY <1>6, <2>1, <2>4 DEF AloneInv
    <2>6. \A s \in Reviewers : loaded'[s] = Review!Idle
      <3>1. \A s \in Reviewers : s = r
        BY <1>6 DEF OneReviewer
      <3>. QED
        BY <1>1, <3>1 DEF ReviewInv
    <2>7. ASSUME report.status = "ready"
          PROVE  Answered(bench)' /\ \A g \in given' : g.run = report.run => g.decision # "reject"
      <3>1. Answered(bench) /\ Answered(b) /\ \A g \in given : g.run = report.run => g.decision # "reject"
        BY <1>1, <1>6, <2>7 DEF AloneInv, b
      <3>2. Answered(bench)'
        BY <1>1, <2>4, <3>1 DEF Answered
      <3>3. ASSUME NEW g \in Range(es) PROVE g.run # report.run
        <4>1. PICK k \in DOMAIN batch : g = es[k]
          BY <2>2 DEF Range
        <4>2. /\ g.run = b.run /\ batch[k].case \in ReviewCases
              /\ batch[k].answer = b.done[batch[k].case].answer
          BY <2>1, <2>2, <4>1 DEF Review!Parses
        <4>3. \A i \in DOMAIN history : <<history[i].case, history[i].answer>> # <<batch[k].case, batch[k].answer>>
          BY <2>1, <4>1 DEF Review!Fits
        <4>. QED
          BY <3>1, <4>2, <4>3 DEF Answered
      <3>. QED
        BY <2>1, <3>1, <3>2, <3>3
    <2>. QED
      BY <1>1, <2>5, <2>6, <2>7 DEF AloneInv
  <1>. QED
    BY <1>5, <1>6

LEMMA DecideStep ==
  ASSUME ReviewInv, Review!Decide
  PROVE  ReviewInv' /\ (AloneInv => AloneInv')
  <1>1. /\ report' = Review!Readiness(bench, history) /\ UNCHANGED <<bench, history, loaded, given>>
    BY DEF Review!Decide
  <1>2. report'.run = bench.run
    BY <1>1 DEF Review!Readiness
  <1>3. ASSUME report'.status = "ready"
        PROVE  /\ Review!Completed(bench) = ReviewCases
               /\ Review!Status(history) = "accepted" /\ Review!Missing(bench, history) = {}
    <2>1. Review!CoreFailures(bench) \cup Review!ReviewFailures(bench, history) = {}
      BY <1>1, <1>3 DEF Review!Readiness
    <2>2. "benchmark_complete" \notin Review!CoreFailures(bench)
      BY <2>1
    <2>3. /\ "review_history_status" \notin Review!ReviewFailures(bench, history)
          /\ "current_case_reviews" \notin Review!ReviewFailures(bench, history)
      BY <2>1
    <2>4. Review!Completed(bench) = ReviewCases
      BY <2>2 DEF Review!CoreFailures
    <2>. QED
      BY <2>3, <2>4 DEF Review!ReviewFailures
  <1>4. ASSUME report'.status = "ready", NEW c \in ReviewCases
        PROVE  \E i \in DOMAIN history :
                 /\ history[i].case = c /\ history[i].answer = bench.done[c].answer
                 /\ history[i].run = bench.run /\ history[i].decision = "accept"
    BY <1>3, <1>4 DEF Review!Missing
  <1>5. ReviewInv'
    <2>1. Range(history) \subseteq given /\ bench.run \in Nat
      BY DEF ReviewInv, Kept
    <2>2. ASSUME report'.status = "ready", NEW c \in ReviewCases
          PROVE  \E g \in given : g.case = c /\ g.run = report'.run /\ g.decision = "accept"
      <3>1. PICK i \in DOMAIN history :
               history[i].case = c /\ history[i].run = bench.run /\ history[i].decision = "accept"
        BY <1>4, <2>2
      <3>2. history[i] \in given
        BY <2>1 DEF Range
      <3>. QED
        BY <1>2, <3>1, <3>2
    <2>3. Kept(history)' /\ \A r \in Reviewers : Benched(r)'
      BY <1>1 DEF ReviewInv, Kept, Benched
    <2>. QED
      BY <1>1, <1>2, <2>1, <2>2, <2>3 DEF ReviewInv
  <1>6. ASSUME AloneInv, report'.status = "ready"
        PROVE  \A g \in given : g.decision # "reject"
    <2>. DEFINE rejected == {i \in DOMAIN history : history[i].decision = "reject"}
    <2>1. ~(Review!Number(history, "reject") > 0)
      BY <1>3, <1>6 DEF Review!Status
    <2>2. IsFiniteSet(rejected)
      <3>1. history \in Seq(Entries)
        BY DEF ReviewInv, Kept
      <3>2. DOMAIN history = 1 .. Len(history) /\ Len(history) \in Int /\ 1 \in Int
        BY <3>1
      <3>3. IsFiniteSet(1 .. Len(history))
        BY <3>2, FS_Interval
      <3>. QED
        BY <3>2, <3>3, FS_Subset
    <2>3. Review!Number(history, "reject") = Cardinality(rejected)
      BY SameSize DEF Review!Number
    <2>. HIDE DEF rejected
    <2>4. Cardinality(rejected) = 0
      BY <2>1, <2>2, <2>3, FS_CardinalityType
    <2>5. rejected = {}
      BY <2>2, <2>4, FS_EmptySet
    <2>. QED
      BY <1>6, <2>5 DEF AloneInv, Range, rejected
  <1>7. ASSUME AloneInv PROVE AloneInv'
    <2>1. ASSUME report'.status = "ready"
          PROVE  /\ Answered(bench)'
                 /\ \A r \in Reviewers : loaded[r] # Review!Idle => Answered(loaded[r].bench)'
      <3>1. Answered(bench)'
        BY <1>1, <1>4, <2>1 DEF Answered
      <3>2. ASSUME NEW r \in Reviewers, loaded[r] # Review!Idle PROVE Answered(loaded[r].bench)'
        <4>1. loaded[r].bench.run = bench.run => loaded[r].bench = bench
          BY <3>2 DEF ReviewInv, Benched
        <4>. QED
          BY <1>1, <1>2, <1>4, <2>1, <4>1 DEF Answered
      <3>. QED
        BY <3>1, <3>2
    <2>. QED
      BY <1>1, <1>6, <1>7, <2>1 DEF AloneInv
  <1>. QED
    BY <1>5, <1>7

LEMMA ReviewStep ==
  ASSUME ReviewInv, Review!Next \/ UNCHANGED reviewVars
  PROVE  ReviewInv' /\ (AloneInv /\ OneReviewer => AloneInv')
  <1>1. CASE UNCHANGED reviewVars
    <2>1. UNCHANGED <<bench, history, loaded, given, report>>
      BY <1>1 DEF reviewVars
    <2>. QED
      BY <2>1 DEF ReviewInv, AloneInv, Kept, Benched, Answered
  <1>. QED
    BY <1>1, BenchmarkStep, LoadStep, ReviewActStep, DecideStep DEF Review!Next

LEMMA ReviewInductive ==
  /\ MCInit => ReviewInv /\ AloneInv
  /\ ReviewInv /\ [MCNext]_<<agentVars, reviewVars, vars, panelVars, focus>> =>
       ReviewInv' /\ (AloneInv /\ OneReviewer => AloneInv')
  <1>1. [MCNext]_<<agentVars, reviewVars, vars, panelVars, focus>> => Review!Next \/ UNCHANGED reviewVars
    BY DEF MCNext
  <1>. QED
    BY <1>1, ReviewInit, ReviewStep DEF MCInit

(* However many review commands run at once: the history verifies, an entry names   *)
(* the answer of its own run, and a ready report rests on an acceptance per case.   *)
THEOREM ReviewsCount ==
  MCSpec => [](/\ Review!EntryNamesAnswer /\ Review!WrittenHistoryVerifies
               /\ report.status = "ready" => \A c \in ReviewCases : \E g \in given :
                    g.case = c /\ g.run = report.run /\ g.decision = "accept")
  <1>1. ReviewInv => (/\ Review!EntryNamesAnswer /\ Review!WrittenHistoryVerifies
                      /\ report.status = "ready" => \A c \in ReviewCases : \E g \in given :
                           g.case = c /\ g.run = report.run /\ g.decision = "accept")
    BY DEF ReviewInv, Kept, Review!EntryNamesAnswer, Review!WrittenHistoryVerifies
  <1>. QED
    BY <1>1, ReviewInductive, PTL DEF MCSpec

(* With one review command at a time, a ready report also passes over no rejection; *)
(* with two, the entries of one may be dropped, and the report cannot know.         *)
THEOREM ReadyReviewed == ASSUME OneReviewer PROVE MCSpec => []ReadyIsReviewed
  <1>1. ReviewInv /\ AloneInv => ReadyIsReviewed
    BY DEF ReviewInv, AloneInv, Kept, ReadyIsReviewed, Review!ReadyIsReviewed,
           Review!EntryNamesAnswer, Review!WrittenHistoryVerifies
  <1>2. MCInit => ReviewInv /\ AloneInv
    BY ReviewInductive
  <1>3. /\ ReviewInv /\ AloneInv
        /\ [MCNext]_<<agentVars, reviewVars, vars, panelVars, focus>>
        => ReviewInv' /\ AloneInv'
    BY ReviewInductive
  <1>. QED
    BY <1>1, <1>2, <1>3, PTL DEF MCSpec
=============================================================================
