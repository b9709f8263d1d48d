----------------------------- MODULE StorageProofs -----------------------------
(***************************************************************************)
(* Proofs about Storage, for every number of threads, every set of paths   *)
(* and every set of jobs, and for clients that keep the rules of           *)
(* ClientRules from call to call (MayAsk).  That is an assumption: the code *)
(* does not enforce it, and without it the tree is not the map of paths and *)
(* PutsTakeEffect, NotFoundIsRemoval and FilesStay fail (see the README).  *)
(***************************************************************************)
EXTENDS Storage, SequenceTheorems, TLAPS

(* The path was there when the job began, or at some moment since.         *)
Lived(t, p) == content[p] # Nil \/ p \in removed[t]

Putting == {"scan", "make_check", "make", "target_check", "target", "update"}
Embedding == {"embed_check", "embed_prefix", "list", "listing", "embed_each"}

(* What holds of a job at a step, with the list l of paths before it.      *)
(* Its steps are those of its kind.                                        *)
KindAt(t, step) ==
  /\ step \in Putting => job[t].kind \in Puts
  /\ step \in Embedding => job[t].kind = "embed_all"
  /\ step = "get" => job[t].kind = "get"
  /\ step = "remove" => job[t].kind = "remove"

(* The ancestors that are left to make are a chain that ends at the parent *)
(* of the job's path; the keys that are left to embed are below it.        *)
TodoAt(t, step, l) ==
  /\ step \in {"make_check", "make", "embed_each"} => l # <<>>
  /\ step \in {"scan", "make_check", "make"} =>
       \A i \in 1 .. Len(l) :
         /\ l[i] # Root /\ IsPrefix(l[i], job[t].path)
         /\ l[i] = parent_path(IF i = Len(l) THEN job[t].path ELSE l[i + 1])
  /\ step \in Embedding =>
       \A i \in 1 .. Len(l) : IsPrefix(job[t].path, l[i]) /\ Lived(t, l[i])

(* What a step writes to has had its parent, or has been there itself.     *)
GroundedAt(t, step, l) ==
  /\ step \in {"make_check", "make"} => Lived(t, parent_path(Head(l)))
  /\ step \in {"target_check", "target"} => Lived(t, parent_path(job[t].path))
  /\ step \in {"update", "embed_prefix"} => Lived(t, job[t].path)

(* The keys that are due are there, and ahead of the job.                  *)
DueAt(t, step, l) ==
  /\ \A p \in unlisted[t] : IsPrefix(job[t].path, p)
  /\ \A p \in due[t] : content[p] # Nil /\ IsPrefix(job[t].path, p)
  /\ step \in {"list", "listing", "embed_each"} => job[t].path \notin due[t]
  /\ step = "listing" => due[t] \subseteq unlisted[t] \cup ToSet(l)
  /\ step = "embed_each" => due[t] \subseteq ToSet(l)

(* What the outcomes mean.                                                 *)
OutcomeAt(t, step) ==
  /\ job[t].kind \in Puts /\ step = "ok" => stored[t]
  /\ step = "not_found" /\ job[t].kind \in Puts =>
       \E p \in removed[t] : IsPrefix(p, job[t].path)
  /\ step = "not_found" /\ job[t].kind = "embed_all" =>
       \E p \in removed[t] : IsPrefix(job[t].path, p)
  /\ step = "ok" /\ job[t].kind = "embed_all" => due[t] = {}

At(t, step, l) ==
  /\ KindAt(t, step) /\ TodoAt(t, step, l) /\ GroundedAt(t, step, l)
  /\ DueAt(t, step, l) /\ OutcomeAt(t, step)

(* Between jobs there is nothing, and a call is that of the step.          *)
JobOK(t) ==
  /\ IF pc[t] = "idle" THEN job[t] = Idle /\ todo[t] = <<>> /\ unlisted[t] = {} /\ due[t] = {}
     ELSE job[t] \in Jobs
  /\ pc[t] \notin Calling => call[t] = Idle
  /\ call[t] = Idle => answer[t] = Nil
  /\ call[t] = Idle \/ call[t] = Wanted(t)

Answers(step) ==
  CASE step \in {"scan", "make_check", "target_check", "get", "embed_check"} -> {"data", "not_found"}
    [] step \in {"make", "target"} -> {"ok", "not_found", "failed", "already_exists"}
    [] step = "update" -> {"ok", "not_found"}
    [] step = "remove" -> {"ok", "not_found", "has_children"}
    [] step \in {"embed_prefix", "embed_each"} -> {"already", "upgraded", "failed", "not_found"}

(* What an answer says of the path p that the call was about.              *)
Tells(t, p) ==
  /\ answer[t][1] \in Answers(pc[t])
  /\ ~Found(t) => answer[t] = <<answer[t][1]>>
  /\ Found(t) => Lived(t, p)
  /\ Said(t, "not_found") => p # Root
  /\ pc[t] \in {"make", "target"} =>
       /\ Said(t, "ok") \/ Said(t, "already_exists") => Lived(t, p)
       /\ Said(t, "not_found") => parent_path(p) \in removed[t]
  /\ pc[t] \in {"target", "update"} /\ Said(t, "ok") => stored[t]
  /\ pc[t] \in {"update", "embed_prefix", "embed_each"} /\ Said(t, "not_found") =>
       p \in removed[t]
  /\ pc[t] = "embed_check" /\ Said(t, "not_found") => p \notin due[t]
  /\ pc[t] \in {"embed_prefix", "embed_each"} /\ (Said(t, "already") \/ Said(t, "upgraded")) =>
       p \notin due[t]

AnswerOK(t) == answer[t] # Nil => Tells(t, Wanted(t).path)

ThreadOK(t) == At(t, pc[t], todo[t]) /\ JobOK(t) /\ AnswerOK(t)

Contents == {Fresh(v) : v \in Value \cup {Dir}}

AnyCall ==
  {Idle} \cup [kind : {"get", "insert", "insert_data_only", "insert_positioned", "update_value",
                      "delete", "embed_existing"},
              path : Path, arg : Value \cup {Dir}]

AnyAnswer ==
  {Nil} \cup {<<"data", c>> : c \in Contents}
    \cup {<<r>> : r \in {"ok", "not_found", "failed", "already_exists", "has_children",
                        "already", "upgraded"}}

Steps == Calling \cup Outcomes \cup {"idle", "list", "listing"}

Types ==
  /\ content \in [Path -> Contents \cup {Nil}]
  /\ content[Root] # Nil
  /\ pc \in [Thread -> Steps]
  /\ job \in [Thread -> Jobs \cup {Idle}]
  /\ call \in [Thread -> AnyCall]
  /\ answer \in [Thread -> AnyAnswer]
  /\ todo \in [Thread -> Seq(Path)]
  /\ unlisted \in [Thread -> SUBSET Path]
  /\ removed \in [Thread -> SUBSET Path]
  /\ stored \in [Thread -> BOOLEAN]
  /\ due \in [Thread -> SUBSET Path]

Inv == Types /\ \A t \in Thread : ThreadOK(t)

-----------------------------------------------------------------------------
(* Paths *)

LEMMA PathType ==
  ASSUME NEW p \in Path
  PROVE  /\ p \in Seq(STRING) /\ Len(p) \in Nat
         /\ p # Root => Len(p) > 0 /\ parent_path(p) \in Path
  <1>1. p \in Seq(STRING) /\ (p # Root => parent_path(p) \in Path)
    BY PathAssumption
  <1>2. Len(p) \in Nat /\ (p # <<>> => Len(p) \in Nat \ {0})
    BY <1>1, LenProperties, EmptySeq
  <1>3. QED
    BY <1>1, <1>2 DEF Root

(* A path is a prefix of another if it has the same names to its end.      *)
LEMMA PrefixNames ==
  ASSUME NEW p \in Path, NEW q \in Path
  PROVE  IsPrefix(p, q) <=> Len(p) <= Len(q) /\ \A i \in 1 .. Len(p) : p[i] = q[i]
  <1>1. /\ p \in Seq(STRING) /\ Len(p) \in Nat /\ q \in Seq(STRING) /\ Len(q) \in Nat
        /\ \A i \in 1 .. Len(p) : p[i] \in STRING
        /\ \A i \in 1 .. Len(q) : q[i] \in STRING
    BY PathType, ElementOfSeq
  <1> SUFFICES ASSUME Len(p) <= Len(q)
               PROVE  SubSeq(p, 1, Len(p)) = SubSeq(q, 1, Len(p)) <=>
                        \A i \in 1 .. Len(p) : p[i] = q[i]
    BY DEF IsPrefix
  <1> DEFINE s == SubSeq(p, 1, Len(p))
             r == SubSeq(q, 1, Len(p))
  <1>2. /\ s \in Seq(STRING) /\ Len(s) = Len(p)
        /\ \A i \in 1 .. Len(p) : s[i] = p[i]
    BY <1>1, SubSeqProperties
  <1>3. /\ r \in Seq(STRING) /\ Len(r) = Len(p)
        /\ \A i \in 1 .. Len(p) : r[i] = q[i]
    BY <1>1, SubSeqProperties
  <1> HIDE DEF s, r
  <1>4. s = r <=> \A i \in 1 .. Len(p) : s[i] = r[i]
    BY <1>2, <1>3, SeqEqual
  <1>5. s = r <=> \A i \in 1 .. Len(p) : p[i] = q[i]
    BY <1>2, <1>3, <1>4
  <1>6. QED
    BY <1>5 DEF s, r

LEMMA ParentNames ==
  ASSUME NEW p \in Path, p # Root
  PROVE  Len(parent_path(p)) = Len(p) - 1 /\ \A i \in 1 .. Len(p) - 1 : parent_path(p)[i] = p[i]
  <1>1. /\ p \in Seq(STRING) /\ Len(p) \in Nat /\ Len(p) > 0
        /\ \A i \in 1 .. Len(p) : p[i] \in STRING
    BY PathType, ElementOfSeq
  <1> DEFINE s == SubSeq(p, 1, Len(p) - 1)
  <1>2. /\ 1 <= Len(p) - 1 => Len(s) = Len(p) - 1
        /\ ~(1 <= Len(p) - 1) => Len(s) = 0
        /\ \A i \in 1 .. Len(p) - 1 - 1 + 1 : s[i] = p[1 + i - 1]
    BY <1>1, SubSeqProperties
  <1> HIDE DEF s
  <1>3. Len(s) = Len(p) - 1
    BY <1>1, <1>2
  <1>4. ASSUME NEW i \in 1 .. Len(p) - 1 PROVE s[i] = p[i]
    <2>1. i \in 1 .. Len(p) - 1 - 1 + 1 /\ 1 + i - 1 = i
      BY <1>1
    <2>2. QED
      BY <1>2, <2>1
  <1>5. QED
    BY <1>3, <1>4 DEF parent_path, s

LEMMA PrefixSelf == ASSUME NEW p \in Path PROVE IsPrefix(p, p)
  BY PrefixNames, PathType

LEMMA PrefixParent ==
  ASSUME NEW p \in Path, p # Root, NEW q \in Path, IsPrefix(p, q)
  PROVE  parent_path(p) \in Path /\ IsPrefix(parent_path(p), q)
  <1>1. parent_path(p) \in Path /\ Len(p) \in Nat /\ Len(q) \in Nat
    BY PathType
  <1>2. Len(p) <= Len(q) /\ \A i \in 1 .. Len(p) : p[i] = q[i]
    BY PrefixNames
  <1>3. /\ Len(parent_path(p)) = Len(p) - 1
        /\ \A i \in 1 .. Len(p) - 1 : parent_path(p)[i] = p[i]
    BY ParentNames
  <1>4. Len(parent_path(p)) <= Len(q) /\ \A i \in 1 .. Len(parent_path(p)) : parent_path(p)[i] = q[i]
    BY <1>1, <1>2, <1>3
  <1>5. QED
    BY <1>1, <1>4, PrefixNames

-----------------------------------------------------------------------------
(* Lists of paths *)

LEMMA ListType ==
  ASSUME NEW l \in Seq(Path)
  PROVE  /\ Len(l) \in Nat /\ DOMAIN l = 1 .. Len(l)
         /\ \A i \in 1 .. Len(l) : l[i] \in Path
         /\ l = <<>> <=> Len(l) = 0
         /\ \A p : p \in ToSet(l) <=> \E i \in 1 .. Len(l) : l[i] = p
         /\ l # <<>> => Head(l) = l[1]
  BY LenProperties, ElementOfSeq, EmptySeq DEF ToSet

LEMMA TailList ==
  ASSUME NEW l \in Seq(Path), l # <<>>
  PROVE  /\ Head(l) \in Path /\ Head(l) = l[1]
         /\ Tail(l) \in Seq(Path) /\ Len(Tail(l)) = Len(l) - 1
         /\ \A i \in 1 .. Len(l) - 1 : Tail(l)[i] = l[i + 1]
         /\ \A p \in ToSet(l) : p = Head(l) \/ p \in ToSet(Tail(l))
  <1>1. /\ Head(l) \in Path
        /\ Tail(l) \in Seq(Path) /\ Len(Tail(l)) = Len(l) - 1
        /\ \A i \in 1 .. Len(Tail(l)) : Tail(l)[i] = l[i + 1]
    BY HeadTailProperties
  <1>2. Len(l) \in Nat /\ Len(l) > 0 /\ Head(l) = l[1]
    BY ListType
  <1>3. ASSUME NEW p \in ToSet(l), p # Head(l) PROVE p \in ToSet(Tail(l))
    <2>1. PICK i \in 1 .. Len(l) : l[i] = p
      BY ListType
    <2>2. i - 1 \in 1 .. Len(Tail(l)) /\ Tail(l)[i - 1] = l[i - 1 + 1] /\ i - 1 + 1 = i
      BY <1>1, <1>2, <1>3, <2>1
    <2>3. QED
      BY <1>1, <2>1, <2>2, ListType
  <1>4. QED
    BY <1>1, <1>2, <1>3

LEMMA ConsList ==
  ASSUME NEW l \in Seq(Path), NEW p \in Path
  PROVE  /\ <<p>> \o l \in Seq(Path) /\ Len(<<p>> \o l) = Len(l) + 1
         /\ (<<p>> \o l)[1] = p
         /\ \A i \in 2 .. Len(l) + 1 : (<<p>> \o l)[i] = l[i - 1]
  <1>1. <<p>> \in Seq(Path) /\ Len(<<p>>) = 1 /\ <<p>>[1] = p /\ Len(l) \in Nat
    BY ListType
  <1>2. /\ <<p>> \o l \in Seq(Path) /\ Len(<<p>> \o l) = Len(<<p>>) + Len(l)
        /\ \A i \in 1 .. Len(<<p>>) + Len(l) :
             (<<p>> \o l)[i] = IF i <= Len(<<p>>) THEN <<p>>[i] ELSE l[i - Len(<<p>>)]
    BY <1>1, ConcatProperties
  <1>3. QED
    BY <1>1, <1>2

(* Wherever a path is put into a list, the list gains that path.           *)
LEMMA InsertList ==
  ASSUME NEW l \in Seq(Path), NEW p \in Path, NEW i \in 1 .. Len(l) + 1
  PROVE  /\ InsertAt(l, i, p) \in Seq(Path)
         /\ ToSet(InsertAt(l, i, p)) = ToSet(l) \cup {p}
  <1> DEFINE front == SubSeq(l, 1, i - 1)
             back  == SubSeq(l, i, Len(l))
             most  == front \o <<p>>
             all   == most \o back
  <1>1. Len(l) \in Nat /\ \A j \in 1 .. Len(l) : l[j] \in Path
    BY ListType
  <1>2. /\ front \in Seq(Path) /\ Len(front) = i - 1
        /\ \A j \in 1 .. i - 1 : front[j] = l[j]
    BY <1>1, SubSeqProperties
  <1>3. /\ back \in Seq(Path)
        /\ Len(back) = IF i <= Len(l) THEN Len(l) - i + 1 ELSE 0
        /\ \A j \in 1 .. Len(l) - i + 1 : back[j] = l[i + j - 1]
    BY <1>1, SubSeqProperties
  <1>4. <<p>> \in Seq(Path) /\ Len(<<p>>) = 1 /\ <<p>>[1] = p
    OBVIOUS
  <1> HIDE DEF front, back
  <1>5. /\ most \in Seq(Path) /\ Len(most) = Len(front) + Len(<<p>>)
        /\ \A j \in 1 .. Len(front) + Len(<<p>>) :
             most[j] = IF j <= Len(front) THEN front[j] ELSE <<p>>[j - Len(front)]
    BY <1>2, <1>4, ConcatProperties
  <1> HIDE DEF most
  <1>6. most \in Seq(Path) /\ back \in Seq(Path)
    BY <1>3, <1>5
  <1>7. /\ all \in Seq(Path) /\ Len(all) = Len(most) + Len(back)
        /\ \A j \in 1 .. Len(most) + Len(back) :
             all[j] = IF j <= Len(most) THEN most[j] ELSE back[j - Len(most)]
    BY <1>6, ConcatProperties
  <1>8. InsertAt(l, i, p) = all
    BY DEF InsertAt, front, back, most
  <1> HIDE DEF all
  <1>9. Len(back) = Len(l) - i + 1 /\ Len(most) = i /\ Len(all) = Len(l) + 1
    <2>1. Len(back) = Len(l) - i + 1
      BY <1>1, <1>3
    <2>2. Len(most) = i
      BY <1>1, <1>2, <1>4, <1>5
    <2>3. QED
      BY <1>1, <1>7, <2>1, <2>2
  <1>10. ASSUME NEW j \in 1 .. Len(l) + 1
        PROVE  all[j] = IF j < i THEN l[j] ELSE IF j = i THEN p ELSE l[j - 1]
    <2>1. CASE j < i
      <3>1. j \in 1 .. Len(most) + Len(back) /\ j <= Len(most) /\ all[j] = most[j]
        BY <1>1, <1>7, <1>9, <2>1
      <3>2. j \in 1 .. Len(front) + Len(<<p>>) /\ j <= Len(front) /\ most[j] = front[j]
        BY <1>1, <1>2, <1>4, <1>5, <2>1
      <3>3. j \in 1 .. i - 1 /\ front[j] = l[j]
        BY <1>1, <1>2, <2>1
      <3>4. QED
        BY <2>1, <3>1, <3>2, <3>3
    <2>2. CASE j = i
      BY <1>1, <1>2, <1>4, <1>5, <1>7, <1>9, <2>2
    <2>3. CASE j > i
      <3>1. all[j] = back[j - i] /\ j - i \in 1 .. Len(l) - i + 1 /\ i + (j - i) - 1 = j - 1
        BY <1>1, <1>7, <1>9, <2>3
      <3>2. QED
        BY <1>3, <2>3, <3>1
    <2>4. QED
      BY <2>1, <2>2, <2>3
  <1>11. ASSUME NEW q PROVE q \in ToSet(all) <=> q \in ToSet(l) \cup {p}
    <2>1. ASSUME q \in ToSet(all) PROVE q \in ToSet(l) \cup {p}
      <3>1. PICK j \in 1 .. Len(l) + 1 : all[j] = q
        BY <1>7, <1>9, <2>1, ListType
      <3>2. QED
        BY <1>1, <1>10, <3>1, ListType
    <2>2. ASSUME q \in ToSet(l) PROVE q \in ToSet(all)
      <3>1. PICK j \in 1 .. Len(l) : l[j] = q
        BY <2>2, ListType
      <3>2. CASE j < i
        <4>1. j \in 1 .. Len(all) /\ all[j] = q
          BY <1>1, <1>9, <1>10, <3>1, <3>2
        <4>2. QED
          BY <1>7, <4>1, ListType
      <3>3. CASE j >= i
        <4>1. j + 1 \in 1 .. Len(all) /\ all[j + 1] = q
          BY <1>1, <1>9, <1>10, <3>1, <3>3
        <4>2. QED
          BY <1>7, <4>1, ListType
      <3>4. QED
        BY <1>1, <3>2, <3>3
    <2>3. p \in ToSet(all)
      <3>1. i \in 1 .. Len(all) /\ all[i] = p
        BY <1>1, <1>9, <1>10
      <3>2. QED
        BY <1>7, <3>1, ListType
    <2>4. QED
      BY <2>1, <2>2, <2>3
  <1>12. QED
    BY <1>7, <1>8, <1>11

-----------------------------------------------------------------------------
(* Jobs and their calls *)

LEMMA JobType ==
  ASSUME NEW j \in Jobs
  PROVE  /\ j.kind \in Kinds /\ j.path \in Path /\ j.path # Root
         /\ j.arg \in Value \cup {Dir} /\ (j.kind \in Puts => j.arg \in Value)
  BY JobsAssumption DEF AnyJob, Kinds

LEMMA JobThere ==
  ASSUME Inv, NEW t \in Thread, pc[t] # "idle"
  PROVE  /\ job[t] \in Jobs /\ job[t].kind \in Kinds /\ job[t].path \in Path /\ job[t].path # Root
         /\ job[t].arg \in Value \cup {Dir} /\ (job[t].kind \in Puts => job[t].arg \in Value)
         /\ parent_path(job[t].path) \in Path /\ todo[t] \in Seq(Path)
  <1>1. job[t] \in Jobs
    BY DEF Inv, ThreadOK, JobOK
  <1>2. todo[t] \in Seq(Path)
    BY DEF Inv, Types
  <1>3. QED
    BY <1>1, <1>2, JobType, PathType

(* What find_missing_ancestors looks above is an ancestor of the path, or  *)
(* the path.                                                               *)
LEMMA CursorType ==
  ASSUME Inv, NEW t \in Thread, pc[t] = "scan"
  PROVE  /\ Cursor(t) \in Path /\ Cursor(t) # Root /\ IsPrefix(Cursor(t), job[t].path)
         /\ parent_path(Cursor(t)) \in Path
  <1>1. pc[t] # "idle"
    OBVIOUS
  <1>2. job[t].path \in Path /\ job[t].path # Root /\ todo[t] \in Seq(Path)
    BY <1>1, JobThere
  <1>3. CASE todo[t] = <<>>
    BY <1>2, <1>3, PathType, PrefixSelf DEF Cursor
  <1>4. CASE todo[t] # <<>>
    <2>1. Head(todo[t]) \in Path /\ Head(todo[t]) = todo[t][1] /\ Len(todo[t]) \in Nat /\ Len(todo[t]) # 0
      BY <1>2, <1>4, TailList, ListType
    <2>2. todo[t][1] # Root /\ IsPrefix(todo[t][1], job[t].path)
      BY <2>1 DEF Inv, ThreadOK, At, TodoAt
    <2>3. QED
      BY <1>4, <2>1, <2>2, PathType DEF Cursor
  <1>5. QED
    BY <1>3, <1>4

LEMMA HeadType ==
  ASSUME Inv, NEW t \in Thread, pc[t] \in {"make_check", "make", "embed_each"}
  PROVE  /\ todo[t] # <<>> /\ Head(todo[t]) \in Path /\ Head(todo[t]) # Root
         /\ parent_path(Head(todo[t])) \in Path
         /\ pc[t] \in {"make_check", "make"} => IsPrefix(Head(todo[t]), job[t].path)
         /\ pc[t] = "embed_each" => IsPrefix(job[t].path, Head(todo[t])) /\ Lived(t, Head(todo[t]))
  <1>1. pc[t] # "idle"
    OBVIOUS
  <1>2. job[t].path \in Path /\ job[t].path # Root /\ todo[t] \in Seq(Path)
    BY <1>1, JobThere
  <1>3. TodoAt(t, pc[t], todo[t])
    BY DEF Inv, ThreadOK, At
  <1>4. todo[t] # <<>>
    BY <1>3 DEF TodoAt
  <1>5. Head(todo[t]) \in Path /\ Head(todo[t]) = todo[t][1] /\ 1 \in 1 .. Len(todo[t])
    BY <1>2, <1>4, TailList, ListType
  <1>6. CASE pc[t] \in {"make_check", "make"}
    <2>1. todo[t][1] # Root /\ IsPrefix(todo[t][1], job[t].path)
      BY <1>3, <1>5, <1>6 DEF TodoAt
    <2>2. QED
      BY <1>4, <1>5, <1>6, <2>1, PathType
  <1>7. CASE pc[t] = "embed_each"
    <2>1. IsPrefix(job[t].path, todo[t][1]) /\ Lived(t, todo[t][1])
      BY <1>3, <1>5, <1>7 DEF TodoAt, Embedding
    <2>2. Len(job[t].path) \in Nat /\ Len(job[t].path) > 0
      BY <1>2, PathType
    <2>3. Len(job[t].path) <= Len(Head(todo[t]))
      BY <1>2, <1>5, <2>1, PrefixNames
    <2>4. Len(Root) = 0
      BY DEF Root
    <2>5. Head(todo[t]) # Root
      BY <2>2, <2>3, <2>4
    <2>6. QED
      BY <1>4, <1>5, <1>7, <2>1, <2>5, PathType
  <1>8. QED
    BY <1>6, <1>7

(* The call of each step, and what it asks.                                *)
LEMMA WantedIs ==
  ASSUME NEW t \in Thread
  PROVE  /\ pc[t] = "scan" => Wanted(t) = Asks("get", parent_path(Cursor(t)), Dir)
         /\ pc[t] = "make_check" => Wanted(t) = Asks("get", Head(todo[t]), Dir)
         /\ pc[t] = "make" => Wanted(t) = Asks(MakeKind(t), Head(todo[t]), Dir)
         /\ pc[t] \in {"target_check", "get", "embed_check"} =>
              Wanted(t) = Asks("get", job[t].path, Dir)
         /\ pc[t] = "target" => Wanted(t) = Asks(TargetKind(t), job[t].path, job[t].arg)
         /\ pc[t] = "update" => Wanted(t) = Asks("update_value", job[t].path, job[t].arg)
         /\ pc[t] = "remove" => Wanted(t) = Asks("delete", job[t].path, Dir)
         /\ pc[t] = "embed_prefix" => Wanted(t) = Asks("embed_existing", job[t].path, Dir)
         /\ pc[t] = "embed_each" => Wanted(t) = Asks("embed_existing", Head(todo[t]), Dir)
  BY DEF Wanted

LEMMA InsertKinds ==
  ASSUME NEW t \in Thread
  PROVE  /\ MakeKind(t) \in {"insert", "insert_positioned", "insert_data_only"}
         /\ TargetKind(t) \in {"insert", "insert_positioned", "insert_data_only"}
  BY DEF MakeKind, TargetKind, InsertKind

LEMMA WantedType ==
  ASSUME Inv, NEW t \in Thread, pc[t] \in Calling
  PROVE  /\ Wanted(t) \in AnyCall
         /\ Wanted(t).path \in Path /\ Wanted(t).arg \in Value \cup {Dir}
         /\ Wanted(t).kind = "get" =>
              pc[t] \in {"scan", "make_check", "target_check", "get", "embed_check"}
         /\ Wanted(t).kind \in {"insert", "insert_positioned", "insert_data_only"} =>
              pc[t] \in {"make", "target"}
         /\ Wanted(t).kind = "update_value" => pc[t] = "update"
         /\ Wanted(t).kind = "delete" => pc[t] = "remove"
         /\ Wanted(t).kind = "embed_existing" => pc[t] \in {"embed_prefix", "embed_each"}
         /\ Wanted(t).kind # "set_semantic"
         /\ Wanted(t).path = Root => pc[t] = "scan"
  <1>1. pc[t] # "idle"
    BY DEF Calling
  <1>2. /\ job[t].path \in Path /\ job[t].path # Root /\ job[t].arg \in Value \cup {Dir}
    BY <1>1, JobThere
  <1> DEFINE Fine(k, p, v) ==
        Wanted(t) = Asks(k, p, v) /\ p \in Path /\ v \in Value \cup {Dir}
  <1>3. CASE pc[t] = "scan"
    <2>1. Fine("get", parent_path(Cursor(t)), Dir)
      BY <1>3, WantedIs, CursorType
    <2>2. QED
      BY <1>3, <2>1 DEF Asks, AnyCall
  <1>4. CASE pc[t] = "make_check"
    <2>1. Fine("get", Head(todo[t]), Dir) /\ Head(todo[t]) # Root
      BY <1>4, WantedIs, HeadType
    <2>2. QED
      BY <1>4, <2>1 DEF Asks, AnyCall
  <1>5. CASE pc[t] = "make"
    <2>1. Fine(MakeKind(t), Head(todo[t]), Dir) /\ Head(todo[t]) # Root
      BY <1>5, WantedIs, HeadType
    <2>2. QED
      BY <1>5, <2>1, InsertKinds DEF Asks, AnyCall
  <1>6. CASE pc[t] \in {"target_check", "get", "embed_check"}
    <2>1. Fine("get", job[t].path, Dir)
      BY <1>2, <1>6, WantedIs
    <2>2. QED
      BY <1>2, <1>6, <2>1 DEF Asks, AnyCall
  <1>7. CASE pc[t] = "target"
    <2>1. Fine(TargetKind(t), job[t].path, job[t].arg)
      BY <1>2, <1>7, WantedIs
    <2>2. QED
      BY <1>2, <1>7, <2>1, InsertKinds DEF Asks, AnyCall
  <1>8. CASE pc[t] = "update"
    <2>1. Fine("update_value", job[t].path, job[t].arg)
      BY <1>2, <1>8, WantedIs
    <2>2. QED
      BY <1>2, <1>8, <2>1 DEF Asks, AnyCall
  <1>9. CASE pc[t] = "remove"
    <2>1. Fine("delete", job[t].path, Dir)
      BY <1>2, <1>9, WantedIs
    <2>2. QED
      BY <1>2, <1>9, <2>1 DEF Asks, AnyCall
  <1>10. CASE pc[t] = "embed_prefix"
    <2>1. Fine("embed_existing", job[t].path, Dir)
      BY <1>2, <1>10, WantedIs
    <2>2. QED
      BY <1>2, <1>10, <2>1 DEF Asks, AnyCall
  <1>11. CASE pc[t] = "embed_each"
    <2>1. Fine("embed_existing", Head(todo[t]), Dir) /\ Head(todo[t]) # Root
      BY <1>11, WantedIs, HeadType
    <2>2. QED
      BY <1>11, <2>1 DEF Asks, AnyCall
  <1>12. QED
    BY <1>3, <1>4, <1>5, <1>6, <1>7, <1>8, <1>9, <1>10, <1>11 DEF Calling

-----------------------------------------------------------------------------
(* Steps that leave the tree as it is *)

(* What a step leaves alone of a thread.                                   *)
Keeps(u) ==
  /\ pc'[u] = pc[u] /\ job'[u] = job[u] /\ todo'[u] = todo[u] /\ unlisted'[u] = unlisted[u]
  /\ call'[u] = call[u] /\ answer'[u] = answer[u]
  /\ removed'[u] = removed[u] /\ stored'[u] = stored[u] /\ due'[u] = due[u]

LEMMA KeptThread ==
  ASSUME NEW u \in Thread, ThreadOK(u), content' = content, Keeps(u)
  PROVE  ThreadOK(u)'
  <1>1. \A p : Lived(u, p)' <=> Lived(u, p)
    BY DEF Keeps, Lived
  <1>2. KindAt(u, pc[u])'
    BY DEF Keeps, ThreadOK, At, KindAt
  <1>3. TodoAt(u, pc[u], todo[u])'
    BY <1>1 DEF Keeps, ThreadOK, At, TodoAt
  <1>4. GroundedAt(u, pc[u], todo[u])'
    BY <1>1 DEF Keeps, ThreadOK, At, GroundedAt
  <1>5. DueAt(u, pc[u], todo[u])'
    BY DEF Keeps, ThreadOK, At, DueAt
  <1>6. OutcomeAt(u, pc[u])'
    BY DEF Keeps, ThreadOK, At, OutcomeAt
  <1>7. Wanted(u)' = Wanted(u)
    BY DEF Keeps, Wanted, Cursor, MakeKind, TargetKind, InsertKind
  <1>8. JobOK(u)'
    BY <1>7 DEF Keeps, ThreadOK, JobOK
  <1>9. AnswerOK(u)'
    BY <1>1, <1>7 DEF Keeps, ThreadOK, AnswerOK, Tells, Found, Said
  <1>10. QED
    BY <1>2, <1>3, <1>4, <1>5, <1>6, <1>8, <1>9 DEF ThreadOK, At

LEMMA OwnStep ==
  ASSUME Inv, NEW t \in Thread, content' = content, Types',
         \A u \in Thread \ {t} : Keeps(u),
         call'[t] = Idle, answer'[t] = Nil,
         IF pc'[t] = "idle"
         THEN job'[t] = Idle /\ todo'[t] = <<>> /\ unlisted'[t] = {} /\ due'[t] = {}
         ELSE job'[t] \in Jobs,
         At(t, pc[t], todo[t])'
  PROVE  Inv'
  <1>1. ASSUME NEW u \in Thread, u # t PROVE ThreadOK(u)'
    BY <1>1, KeptThread DEF Inv
  <1>2. JobOK(t)'
    BY DEF JobOK
  <1>3. AnswerOK(t)'
    BY DEF AnswerOK
  <1>4. ThreadOK(t)'
    BY <1>2, <1>3 DEF ThreadOK
  <1>5. QED
    BY <1>1, <1>4 DEF Inv

(* What a step does to thread t alone, beside the tree.                    *)
Reacts(t) ==
  /\ content' = content
  /\ call' = [call EXCEPT ![t] = Idle] /\ answer' = [answer EXCEPT ![t] = Nil]
  /\ job' = job /\ unlisted' = unlisted /\ removed' = removed /\ stored' = stored /\ due' = due

(* A reaction takes thread t to a step, with a list before it, at which    *)
(* all that should hold there holds.                                       *)
LEMMA ReactStep ==
  ASSUME Inv, NEW t \in Thread, Reacts(t), pc[t] # "idle",
         NEW step \in Steps, step # "idle", NEW l \in Seq(Path),
         pc' = [pc EXCEPT ![t] = step], todo' = [todo EXCEPT ![t] = l],
         At(t, step, l)
  PROVE  Inv'
  <1>1. Types
    BY DEF Inv
  <1>2. /\ pc'[t] = step /\ todo'[t] = l /\ call'[t] = Idle /\ answer'[t] = Nil
        /\ \A u \in Thread \ {t} : Keeps(u)
    BY <1>1 DEF Types, Reacts, Keeps
  <1>3. Types'
    <2>1. pc' \in [Thread -> Steps] /\ todo' \in [Thread -> Seq(Path)]
      BY <1>1 DEF Types
    <2>2. call' \in [Thread -> AnyCall] /\ answer' \in [Thread -> AnyAnswer]
      BY <1>1 DEF Types, Reacts, AnyCall, AnyAnswer
    <2>3. QED
      BY <1>1, <2>1, <2>2 DEF Types, Reacts
  <1>4. job'[t] \in Jobs
    BY JobThere DEF Reacts
  <1>5. At(t, pc[t], todo[t])'
    <2>1. KindAt(t, pc[t])'
      BY <1>2 DEF Reacts, At, KindAt
    <2>2. TodoAt(t, pc[t], todo[t])'
      BY <1>2 DEF Reacts, At, TodoAt, Lived
    <2>3. GroundedAt(t, pc[t], todo[t])'
      BY <1>2 DEF Reacts, At, GroundedAt, Lived
    <2>4. DueAt(t, pc[t], todo[t])'
      BY <1>2 DEF Reacts, At, DueAt
    <2>5. OutcomeAt(t, pc[t])'
      BY <1>2 DEF Reacts, At, OutcomeAt
    <2>6. QED
      BY <2>1, <2>2, <2>3, <2>4, <2>5 DEF At
  <1>6. QED
    BY <1>2, <1>3, <1>4, <1>5, OwnStep DEF Reacts

(* The call has been answered.                                             *)
LEMMA Answered ==
  ASSUME Inv, NEW t \in Thread, answer[t] # Nil
  PROVE  /\ pc[t] \in Calling /\ pc[t] # "idle" /\ call[t] = Wanted(t)
         /\ At(t, pc[t], todo[t]) /\ Tells(t, Wanted(t).path)
         /\ ~Found(t) => \A r : Said(t, r) <=> answer[t][1] = r
         /\ \A r : Said(t, r) => answer[t][1] = r
  <1>1. JobOK(t) /\ AnswerOK(t) /\ At(t, pc[t], todo[t])
    BY DEF Inv, ThreadOK
  <1>2. Tells(t, Wanted(t).path)
    BY <1>1 DEF AnswerOK
  <1>3. pc[t] \in Calling /\ call[t] = Wanted(t)
    BY <1>1 DEF JobOK
  <1>4. \A r : Said(t, r) => answer[t][1] = r
    BY DEF Said
  <1>5. ~Found(t) => answer[t] = <<answer[t][1]>>
    BY <1>2 DEF Tells
  <1>6. ~Found(t) => \A r : Said(t, r) <=> answer[t][1] = r
    BY <1>4, <1>5 DEF Said
  <1>7. QED
    BY <1>1, <1>2, <1>3, <1>4, <1>6 DEF Calling

-----------------------------------------------------------------------------
(* The reactions *)

(* find_missing_ancestors stops at an ancestor that is there, or goes up.  *)
LEMMA ScanInv ==
  ASSUME Inv, NEW t \in Thread, answer[t] # Nil, Reacts(t), Scan(t)
  PROVE  Inv'
  <1>1. /\ pc[t] = "scan" /\ pc[t] # "idle" /\ At(t, pc[t], todo[t])
        /\ Wanted(t).path = parent_path(Cursor(t))
        /\ Tells(t, parent_path(Cursor(t)))
    BY Answered, WantedIs DEF Scan, Asks
  <1>2. /\ job[t].kind \in Puts /\ job[t].path \in Path /\ todo[t] \in Seq(Path)
        /\ Len(todo[t]) \in Nat
    BY <1>1, JobThere, ListType DEF At, KindAt, Putting
  <1>3. /\ Cursor(t) \in Path /\ Cursor(t) # Root /\ IsPrefix(Cursor(t), job[t].path)
        /\ parent_path(Cursor(t)) \in Path
    BY <1>1, CursorType
  <1>4. \A p \in unlisted[t] \cup due[t] : IsPrefix(job[t].path, p)
    BY <1>1 DEF At, DueAt
  <1>5. pc \in [Thread -> Steps] /\ todo \in [Thread -> Seq(Path)]
    BY DEF Inv, Types
  <1>6. CASE Found(t)
    <2>1. PICK l : l = todo[t]
      OBVIOUS
    <2>2. PICK step : step = MakeNext(l)
      OBVIOUS
    <2>3. l \in Seq(Path) /\ step \in {"make_check", "target_check"} /\ (l = <<>> <=> step = "target_check")
      BY <1>2, <2>1, <2>2 DEF MakeNext
    <2>4. pc' = [pc EXCEPT ![t] = step] /\ todo' = [todo EXCEPT ![t] = l]
      BY <1>5, <1>6, <2>1, <2>2 DEF Scan, Goto
    <2>5. Lived(t, parent_path(Cursor(t)))
      BY <1>1, <1>6 DEF Tells
    <2>6. KindAt(t, step)
      BY <1>2, <2>3 DEF KindAt, Embedding
    <2>7. TodoAt(t, step, l)
      BY <1>1, <2>1, <2>3 DEF At, TodoAt, Embedding
    <2>8. GroundedAt(t, step, l)
      BY <2>1, <2>3, <2>5 DEF GroundedAt, Cursor
    <2>9. DueAt(t, step, l)
      BY <1>1, <2>3 DEF At, DueAt
    <2>10. OutcomeAt(t, step)
      BY <2>3 DEF OutcomeAt
    <2>11. step \in Steps /\ step # "idle" /\ At(t, step, l)
      BY <2>3, <2>6, <2>7, <2>8, <2>9, <2>10 DEF At, Steps, Calling
    <2>12. QED
      BY <1>1, <2>3, <2>4, <2>11, ReactStep
  <1>7. CASE ~Found(t)
    <2>1. PICK p : p = parent_path(Cursor(t))
      OBVIOUS
    <2>2. PICK l : l = <<p>> \o todo[t]
      OBVIOUS
    <2>3. p \in Path
      BY <1>3, <2>1
    <2>4. /\ l \in Seq(Path) /\ Len(l) = Len(todo[t]) + 1 /\ l[1] = p
          /\ \A i \in 2 .. Len(todo[t]) + 1 : l[i] = todo[t][i - 1]
      BY <1>2, <2>2, <2>3, ConsList
    <2>5. pc' = [pc EXCEPT ![t] = "scan"] /\ todo' = [todo EXCEPT ![t] = l]
      BY <1>1, <1>5, <1>7, <2>1, <2>2 DEF Scan
    <2>6. p # Root
      <3>1. answer[t][1] = "not_found"
        BY <1>1, <1>7 DEF Tells, Answers, Found
      <3>2. Said(t, "not_found")
        BY <1>7, <3>1, Answered
      <3>3. QED
        BY <1>1, <2>1, <3>2 DEF Tells
    <2>7. IsPrefix(p, job[t].path)
      BY <1>2, <1>3, <2>1, PrefixParent
    <2>8. p = parent_path(IF todo[t] = <<>> THEN job[t].path ELSE todo[t][1])
      BY <1>2, <2>1, ListType DEF Cursor
    <2>9. \A i \in 1 .. Len(todo[t]) :
             /\ todo[t][i] # Root /\ IsPrefix(todo[t][i], job[t].path)
             /\ todo[t][i] = parent_path(IF i = Len(todo[t]) THEN job[t].path ELSE todo[t][i + 1])
      BY <1>1 DEF At, TodoAt
    <2>10. ASSUME NEW i \in 1 .. Len(l)
           PROVE  /\ l[i] # Root /\ IsPrefix(l[i], job[t].path)
                  /\ l[i] = parent_path(IF i = Len(l) THEN job[t].path ELSE l[i + 1])
      <3>1. CASE i = 1
        <4>1. CASE todo[t] = <<>>
          <5>1. Len(todo[t]) = 0 /\ Len(l) = 1
            BY <1>2, <2>4, <4>1, ListType
          <5>2. QED
            BY <2>4, <2>6, <2>7, <2>8, <3>1, <4>1, <5>1
        <4>2. CASE todo[t] # <<>>
          <5>1. Len(todo[t]) > 0
            BY <1>2, <4>2, ListType
          <5>2. i # Len(l) /\ 2 \in 2 .. Len(todo[t]) + 1
            BY <1>2, <2>4, <3>1, <5>1
          <5>3. l[i + 1] = todo[t][1]
            BY <2>4, <3>1, <5>2
          <5>4. QED
            BY <2>4, <2>6, <2>7, <2>8, <3>1, <4>2, <5>2, <5>3
        <4>3. QED
          BY <4>1, <4>2
      <3>2. CASE i # 1
        <4>1. i - 1 \in 1 .. Len(todo[t]) /\ i \in 2 .. Len(todo[t]) + 1 /\ l[i] = todo[t][i - 1]
          BY <1>2, <2>4, <3>2
        <4>2. i = Len(l) <=> i - 1 = Len(todo[t])
          BY <1>2, <2>4, <3>2
        <4>3. i # Len(l) => l[i + 1] = todo[t][i - 1 + 1]
          <5>1. SUFFICES ASSUME i # Len(l) PROVE l[i + 1] = todo[t][i - 1 + 1]
            OBVIOUS
          <5>2. i + 1 \in 2 .. Len(todo[t]) + 1 /\ i + 1 - 1 = i - 1 + 1
            BY <1>2, <2>4, <5>1
          <5>3. QED
            BY <2>4, <5>2
        <4>4. /\ todo[t][i - 1] # Root /\ IsPrefix(todo[t][i - 1], job[t].path)
              /\ todo[t][i - 1] = parent_path(IF i - 1 = Len(todo[t]) THEN job[t].path
                                              ELSE todo[t][i - 1 + 1])
          BY <2>9, <4>1
        <4>5. QED
          BY <4>1, <4>2, <4>3, <4>4
      <3>3. QED
        BY <3>1, <3>2
    <2>11. KindAt(t, "scan")
      BY <1>1 DEF At
    <2>12. TodoAt(t, "scan", l)
      BY <2>10 DEF TodoAt, Embedding
    <2>13. GroundedAt(t, "scan", l)
      BY DEF GroundedAt
    <2>14. DueAt(t, "scan", l)
      BY <1>1 DEF At, DueAt
    <2>15. OutcomeAt(t, "scan")
      BY DEF OutcomeAt
    <2>16. "scan" \in Steps /\ At(t, "scan", l)
      BY <2>11, <2>12, <2>13, <2>14, <2>15 DEF At, Steps, Calling
    <2>17. QED
      BY <1>1, <2>4, <2>5, <2>16, ReactStep
  <1>8. QED
    BY <1>6, <1>7

(* An ancestor is there: the next one, or the path itself, has its parent. *)
LEMMA MadeOneInv ==
  ASSUME Inv, NEW t \in Thread, answer[t] # Nil, Reacts(t), pc[t] \in {"make_check", "make"},
         Lived(t, Head(todo[t])), MadeOne(t)
  PROVE  Inv'
  <1>1. pc[t] # "idle" /\ At(t, pc[t], todo[t])
    BY Answered
  <1>2. job[t].kind \in Puts /\ job[t].path \in Path /\ todo[t] \in Seq(Path)
    BY <1>1, JobThere DEF At, KindAt, Putting
  <1>3. PICK l : l = Tail(todo[t])
    OBVIOUS
  <1>4. PICK step : step = MakeNext(l)
    OBVIOUS
  <1>5. /\ Head(todo[t]) = todo[t][1] /\ Len(todo[t]) \in Nat /\ Len(todo[t]) > 0
        /\ l \in Seq(Path) /\ Len(l) = Len(todo[t]) - 1 /\ (l = <<>> <=> Len(l) = 0)
        /\ l # <<>> => Head(l) = l[1]
        /\ \A i \in 1 .. Len(todo[t]) - 1 : l[i] = todo[t][i + 1]
    <2>1. todo[t] # <<>>
      BY HeadType
    <2>2. l \in Seq(Path)
      BY <1>2, <1>3, <2>1, TailList
    <2>3. /\ Head(todo[t]) = todo[t][1] /\ Len(l) = Len(todo[t]) - 1
          /\ \A i \in 1 .. Len(todo[t]) - 1 : l[i] = todo[t][i + 1]
      BY <1>2, <1>3, <2>1, TailList
    <2>4. Len(todo[t]) \in Nat /\ Len(todo[t]) # 0
      BY <1>2, <2>1, ListType
    <2>5. (l = <<>> <=> Len(l) = 0) /\ (l # <<>> => Head(l) = l[1])
      BY <2>2, ListType
    <2>6. QED
      BY <2>2, <2>3, <2>4, <2>5
  <1>6. step \in {"make_check", "target_check"} /\ (l = <<>> <=> step = "target_check")
    BY <1>4 DEF MakeNext
  <1>7. pc' = [pc EXCEPT ![t] = step] /\ todo' = [todo EXCEPT ![t] = l]
    BY <1>3, <1>4 DEF MadeOne, Goto
  <1>8. \A i \in 1 .. Len(todo[t]) :
             /\ todo[t][i] # Root /\ IsPrefix(todo[t][i], job[t].path)
             /\ todo[t][i] = parent_path(IF i = Len(todo[t]) THEN job[t].path ELSE todo[t][i + 1])
    BY <1>1 DEF At, TodoAt
  <1>9. ASSUME NEW i \in 1 .. Len(l)
        PROVE  /\ l[i] # Root /\ IsPrefix(l[i], job[t].path)
               /\ l[i] = parent_path(IF i = Len(l) THEN job[t].path ELSE l[i + 1])
    <2>1. i + 1 \in 1 .. Len(todo[t]) /\ l[i] = todo[t][i + 1] /\ (i = Len(l) <=> i + 1 = Len(todo[t]))
      BY <1>5
    <2>2. i # Len(l) => l[i + 1] = todo[t][i + 1 + 1]
      <3>1. SUFFICES ASSUME i # Len(l) PROVE l[i + 1] = todo[t][i + 1 + 1]
        OBVIOUS
      <3>2. i + 1 \in 1 .. Len(todo[t]) - 1
        BY <1>5, <3>1
      <3>3. QED
        BY <1>5, <3>2
    <2>3. QED
      BY <1>8, <2>1, <2>2
  <1>10. KindAt(t, step)
    BY <1>2, <1>6 DEF KindAt, Embedding
  <1>11. TodoAt(t, step, l)
    BY <1>6, <1>9 DEF TodoAt, Embedding
  <1>12. GroundedAt(t, step, l)
    <2>1. todo[t][1] = parent_path(IF 1 = Len(todo[t]) THEN job[t].path ELSE todo[t][1 + 1])
      BY <1>5, <1>8
    <2>2. CASE l = <<>>
      <3>1. Len(todo[t]) = 1
        BY <1>5, <2>2
      <3>2. todo[t][1] = parent_path(job[t].path)
        BY <2>1, <3>1
      <3>3. QED
        BY <1>5, <1>6, <2>2, <3>2 DEF GroundedAt
    <2>3. CASE l # <<>>
      <3>1. 1 # Len(todo[t]) /\ 1 \in 1 .. Len(todo[t]) - 1
        BY <1>5, <2>3
      <3>2. Head(l) = todo[t][1 + 1]
        BY <1>5, <2>3, <3>1
      <3>3. todo[t][1] = parent_path(Head(l))
        BY <2>1, <3>1, <3>2
      <3>4. QED
        BY <1>5, <1>6, <2>3, <3>3 DEF GroundedAt
    <2>4. QED
      BY <2>2, <2>3
  <1>13. DueAt(t, step, l)
    BY <1>1, <1>6 DEF At, DueAt
  <1>14. OutcomeAt(t, step)
    BY <1>6 DEF OutcomeAt
  <1>15. step \in Steps /\ step # "idle" /\ At(t, step, l)
    BY <1>6, <1>10, <1>11, <1>12, <1>13, <1>14 DEF At, Steps, Calling
  <1>16. QED
    BY <1>1, <1>5, <1>7, <1>15, ReactStep

(* A reaction to another step, with the same list.                         *)
LEMMA GoStep ==
  ASSUME Inv, NEW t \in Thread, Reacts(t), pc[t] # "idle",
         NEW step \in Steps, step # "idle", Goto(t, step), todo' = todo,
         KindAt(t, step), TodoAt(t, step, todo[t]), GroundedAt(t, step, todo[t]),
         DueAt(t, step, todo[t]), OutcomeAt(t, step)
  PROVE  Inv'
  <1>1. PICK l : l = todo[t]
    OBVIOUS
  <1>2. todo \in [Thread -> Seq(Path)]
    BY DEF Inv, Types
  <1>3. l \in Seq(Path) /\ todo' = [todo EXCEPT ![t] = l]
    BY <1>1, <1>2
  <1>4. At(t, step, l)
    BY <1>1 DEF At
  <1>5. QED
    BY <1>3, <1>4, ReactStep DEF Goto

LEMMA MakeCheckInv ==
  ASSUME Inv, NEW t \in Thread, answer[t] # Nil, Reacts(t), MakeCheck(t)
  PROVE  Inv'
  <1>1. /\ pc[t] = "make_check" /\ At(t, pc[t], todo[t])
        /\ Tells(t, Head(todo[t]))
    BY Answered, WantedIs DEF MakeCheck, Asks
  <1>2. CASE Found(t) /\ MadeOne(t)
    <2>1. Lived(t, Head(todo[t]))
      BY <1>1, <1>2 DEF Tells
    <2>2. QED
      BY <1>1, <1>2, <2>1, MadeOneInv
  <1>3. CASE Goto(t, "make") /\ UNCHANGED todo
    <2>1. KindAt(t, "make")
      BY <1>1 DEF At, KindAt, Putting, Embedding
    <2>2. TodoAt(t, "make", todo[t])
      BY <1>1 DEF At, TodoAt, Embedding
    <2>3. GroundedAt(t, "make", todo[t])
      BY <1>1 DEF At, GroundedAt
    <2>4. DueAt(t, "make", todo[t])
      BY <1>1 DEF At, DueAt
    <2>5. OutcomeAt(t, "make")
      BY DEF OutcomeAt
    <2>6. "make" \in Steps
      BY DEF Steps, Calling
    <2>7. QED
      BY <1>1, <1>3, <2>1, <2>2, <2>3, <2>4, <2>5, <2>6, GoStep
  <1>4. QED
    BY <1>2, <1>3 DEF MakeCheck

(* A job ends at an outcome of which all is known that should be.          *)
LEMMA EndStep ==
  ASSUME Inv, NEW t \in Thread, Reacts(t), pc[t] # "idle",
         NEW step \in Outcomes, Goto(t, step), todo' = todo, OutcomeAt(t, step)
  PROVE  Inv'
  <1>1. DueAt(t, pc[t], todo[t])
    BY DEF Inv, ThreadOK, At
  <1>2. KindAt(t, step)
    BY DEF KindAt, Outcomes, Putting, Embedding
  <1>3. TodoAt(t, step, todo[t])
    BY DEF TodoAt, Outcomes, Embedding
  <1>4. GroundedAt(t, step, todo[t])
    BY DEF GroundedAt, Outcomes
  <1>5. DueAt(t, step, todo[t])
    BY <1>1 DEF DueAt, Outcomes
  <1>6. step \in Steps /\ step # "idle"
    BY DEF Steps, Outcomes
  <1>7. QED
    BY <1>2, <1>3, <1>4, <1>5, <1>6, GoStep

LEMMA MakeInv ==
  ASSUME Inv, NEW t \in Thread, answer[t] # Nil, Reacts(t), Make(t)
  PROVE  Inv'
  <1>1. /\ pc[t] = "make" /\ pc[t] # "idle" /\ At(t, pc[t], todo[t])
        /\ Tells(t, Head(todo[t]))
    BY Answered, WantedIs DEF Make, Asks
  <1>2. job[t].kind \in Puts /\ job[t].path \in Path
    BY <1>1, JobThere DEF At, KindAt, Putting
  <1>3. CASE (Said(t, "ok") \/ Said(t, "already_exists")) /\ MadeOne(t)
    <2>1. Lived(t, Head(todo[t]))
      BY <1>1, <1>3 DEF Tells
    <2>2. QED
      BY <1>1, <1>3, <2>1, MadeOneInv
  <1>4. CASE Said(t, "not_found") /\ Goto(t, "not_found") /\ UNCHANGED todo
    <2>1. parent_path(Head(todo[t])) \in removed[t]
      BY <1>1, <1>4 DEF Tells
    <2>2. IsPrefix(parent_path(Head(todo[t])), job[t].path)
      BY <1>1, <1>2, HeadType, PrefixParent
    <2>3. OutcomeAt(t, "not_found")
      BY <1>2, <2>1, <2>2 DEF OutcomeAt, Puts
    <2>4. QED
      BY <1>1, <1>4, <2>3, EndStep DEF Outcomes
  <1>5. CASE Said(t, "failed") /\ Goto(t, "failed") /\ UNCHANGED todo
    <2>1. OutcomeAt(t, "failed")
      BY DEF OutcomeAt
    <2>2. QED
      BY <1>1, <1>5, <2>1, EndStep DEF Outcomes
  <1>6. QED
    BY <1>3, <1>4, <1>5 DEF Make

LEMMA TargetCheckInv ==
  ASSUME Inv, NEW t \in Thread, answer[t] # Nil, Reacts(t), TargetCheck(t)
  PROVE  Inv'
  <1>1. /\ pc[t] = "target_check" /\ At(t, pc[t], todo[t])
        /\ Tells(t, job[t].path)
    BY Answered, WantedIs DEF TargetCheck, Asks
  <1>2. PICK step : step = IF Found(t) THEN "update" ELSE "target"
    OBVIOUS
  <1>3. Goto(t, step) /\ todo' = todo
    BY <1>2 DEF TargetCheck
  <1>4. KindAt(t, step)
    BY <1>1, <1>2 DEF At, KindAt, Putting, Embedding
  <1>5. TodoAt(t, step, todo[t])
    BY <1>2 DEF TodoAt, Embedding
  <1>6. GroundedAt(t, step, todo[t])
    BY <1>1, <1>2 DEF At, GroundedAt, Tells
  <1>7. DueAt(t, step, todo[t])
    BY <1>1, <1>2 DEF At, DueAt
  <1>8. OutcomeAt(t, step)
    BY <1>2 DEF OutcomeAt
  <1>9. step \in Steps /\ step # "idle"
    BY <1>2 DEF Steps, Calling
  <1>10. QED
    BY <1>1, <1>3, <1>4, <1>5, <1>6, <1>7, <1>8, <1>9, GoStep

(* A put that lost the race to insert goes on to update a path that was    *)
(* there.                                                                  *)
LEMMA TargetInv ==
  ASSUME Inv, NEW t \in Thread, answer[t] # Nil, Reacts(t), Target(t)
  PROVE  Inv'
  <1>1. /\ pc[t] = "target" /\ pc[t] # "idle" /\ At(t, pc[t], todo[t])
        /\ Tells(t, job[t].path)
    BY Answered, WantedIs DEF Target, Asks
  <1>2. job[t].kind \in Puts /\ job[t].path \in Path /\ job[t].path # Root
    BY <1>1, JobThere DEF At, KindAt, Putting
  <1>3. CASE Said(t, "already_exists")
    <2>1. Goto(t, "update") /\ todo' = todo
      BY <1>3 DEF Target
    <2>2. KindAt(t, "update")
      BY <1>2 DEF KindAt, Embedding
    <2>3. TodoAt(t, "update", todo[t])
      BY DEF TodoAt, Embedding
    <2>4. GroundedAt(t, "update", todo[t])
      BY <1>1, <1>3 DEF GroundedAt, Tells
    <2>5. DueAt(t, "update", todo[t])
      BY <1>1 DEF At, DueAt
    <2>6. OutcomeAt(t, "update")
      BY DEF OutcomeAt
    <2>7. "update" \in Steps
      BY DEF Steps, Calling
    <2>8. QED
      BY <1>1, <2>1, <2>2, <2>3, <2>4, <2>5, <2>6, <2>7, GoStep
  <1>4. CASE ~Said(t, "already_exists")
    <2>1. PICK step : step = answer[t][1]
      OBVIOUS
    <2>2. ~Found(t) /\ answer[t] = <<step>> /\ step \in {"ok", "not_found", "failed", "already_exists"}
      BY <1>1, <2>1 DEF Tells, Answers, Found
    <2>3. step \in {"ok", "not_found", "failed"}
      BY <1>4, <2>2 DEF Said
    <2>4. Goto(t, step) /\ todo' = todo
      BY <1>4, <2>1 DEF Target
    <2>5. step = "ok" => stored[t]
      BY <1>1, <2>2 DEF Tells, Said
    <2>6. step = "not_found" => parent_path(job[t].path) \in removed[t]
      BY <1>1, <2>2 DEF Tells, Said
    <2>7. IsPrefix(parent_path(job[t].path), job[t].path)
      BY <1>2, PrefixSelf, PrefixParent
    <2>8. OutcomeAt(t, step)
      BY <1>2, <2>3, <2>5, <2>6, <2>7 DEF OutcomeAt, Puts
    <2>9. QED
      BY <1>1, <2>3, <2>4, <2>8, EndStep DEF Outcomes
  <1>5. QED
    BY <1>3, <1>4

LEMMA PassInv ==
  ASSUME Inv, NEW t \in Thread, answer[t] # Nil, Reacts(t), Pass(t)
  PROVE  Inv'
  <1>1. /\ pc[t] \in {"update", "remove"} /\ pc[t] # "idle" /\ At(t, pc[t], todo[t])
        /\ Tells(t, job[t].path)
    BY Answered, WantedIs DEF Pass, Asks
  <1>2. job[t].path \in Path
    BY <1>1, JobThere
  <1>3. PICK step : step = answer[t][1]
    OBVIOUS
  <1>4. ~Found(t) /\ answer[t] = <<step>> /\ step \in {"ok", "not_found", "has_children"}
    BY <1>1, <1>3 DEF Tells, Answers, Found
  <1>5. Goto(t, step) /\ todo' = todo
    BY <1>3 DEF Pass
  <1>6. CASE pc[t] = "update"
    <2>1. job[t].kind \in Puts
      BY <1>1, <1>6 DEF At, KindAt, Putting
    <2>2. (step = "ok" => stored[t]) /\ (step = "not_found" => job[t].path \in removed[t])
      BY <1>1, <1>4, <1>6 DEF Tells, Said
    <2>3. IsPrefix(job[t].path, job[t].path)
      BY <1>2, PrefixSelf
    <2>4. OutcomeAt(t, step)
      BY <1>4, <2>1, <2>2, <2>3 DEF OutcomeAt, Puts
    <2>5. QED
      BY <1>1, <1>4, <1>5, <2>4, EndStep DEF Outcomes
  <1>7. CASE pc[t] = "remove"
    <2>1. job[t].kind = "remove"
      BY <1>1, <1>7 DEF At, KindAt
    <2>2. OutcomeAt(t, step)
      BY <2>1 DEF OutcomeAt, Puts
    <2>3. QED
      BY <1>1, <1>4, <1>5, <2>2, EndStep DEF Outcomes
  <1>8. QED
    BY <1>1, <1>6, <1>7

LEMMA RetrieveInv ==
  ASSUME Inv, NEW t \in Thread, answer[t] # Nil, Reacts(t), Retrieve(t)
  PROVE  Inv'
  <1>1. pc[t] = "get" /\ pc[t] # "idle" /\ job[t].kind = "get"
    BY Answered DEF Retrieve, At, KindAt
  <1>2. PICK step : step = IF Found(t) THEN "ok" ELSE "not_found"
    OBVIOUS
  <1>3. Goto(t, step) /\ todo' = todo
    BY <1>2 DEF Retrieve
  <1>4. OutcomeAt(t, step)
    BY <1>1 DEF OutcomeAt, Puts
  <1>5. QED
    BY <1>1, <1>2, <1>3, <1>4, EndStep DEF Outcomes

LEMMA EmbedCheckInv ==
  ASSUME Inv, NEW t \in Thread, answer[t] # Nil, Reacts(t), EmbedCheck(t)
  PROVE  Inv'
  <1>1. /\ pc[t] = "embed_check" /\ pc[t] # "idle" /\ At(t, pc[t], todo[t])
        /\ Tells(t, job[t].path)
    BY Answered, WantedIs DEF EmbedCheck, Asks
  <1>2. job[t].kind = "embed_all"
    BY <1>1 DEF At, KindAt, Embedding
  <1>3. PICK step : step = IF Found(t) THEN "embed_prefix" ELSE "list"
    OBVIOUS
  <1>4. Goto(t, step) /\ todo' = todo
    BY <1>3 DEF EmbedCheck
  <1>5. KindAt(t, step)
    BY <1>2, <1>3 DEF KindAt, Putting
  <1>6. TodoAt(t, step, todo[t])
    BY <1>1, <1>3 DEF At, TodoAt, Embedding
  <1>7. GroundedAt(t, step, todo[t])
    BY <1>1, <1>3 DEF GroundedAt, Tells
  <1>8. DueAt(t, step, todo[t])
    <2>1. ~Found(t) => Said(t, "not_found")
      BY <1>1, Answered DEF Tells, Answers, Found
    <2>2. ~Found(t) => job[t].path \notin due[t]
      BY <1>1, <2>1 DEF Tells
    <2>3. QED
      BY <1>1, <1>3, <2>2 DEF At, DueAt
  <1>9. OutcomeAt(t, step)
    BY <1>3 DEF OutcomeAt
  <1>10. step \in Steps /\ step # "idle"
    BY <1>3 DEF Steps, Calling
  <1>11. QED
    BY <1>1, <1>4, <1>5, <1>6, <1>7, <1>8, <1>9, <1>10, GoStep

LEMMA EmbedPrefixInv ==
  ASSUME Inv, NEW t \in Thread, answer[t] # Nil, Reacts(t), EmbedPrefix(t)
  PROVE  Inv'
  <1>1. /\ pc[t] = "embed_prefix" /\ pc[t] # "idle" /\ At(t, pc[t], todo[t])
        /\ Tells(t, job[t].path)
    BY Answered, WantedIs DEF EmbedPrefix, Asks
  <1>2. job[t].kind = "embed_all" /\ job[t].path \in Path
    BY <1>1, JobThere DEF At, KindAt, Embedding
  <1>3. PICK r : r = answer[t][1]
    OBVIOUS
  <1>4. ~Found(t) /\ answer[t] = <<r>> /\ r \in {"already", "upgraded", "failed", "not_found"}
    BY <1>1, <1>3 DEF Tells, Answers, Found
  <1>5. CASE r \in {"already", "upgraded"}
    <2>1. Goto(t, "list") /\ todo' = todo
      BY <1>3, <1>5 DEF EmbedPrefix
    <2>2. job[t].path \notin due[t]
      BY <1>1, <1>4, <1>5 DEF Tells, Said
    <2>3. KindAt(t, "list")
      BY <1>2 DEF KindAt, Putting
    <2>4. TodoAt(t, "list", todo[t])
      BY <1>1 DEF At, TodoAt, Embedding
    <2>5. GroundedAt(t, "list", todo[t])
      BY DEF GroundedAt
    <2>6. DueAt(t, "list", todo[t])
      BY <1>1, <2>2 DEF At, DueAt
    <2>7. OutcomeAt(t, "list")
      BY DEF OutcomeAt
    <2>8. "list" \in Steps
      BY DEF Steps
    <2>9. QED
      BY <1>1, <2>1, <2>3, <2>4, <2>5, <2>6, <2>7, <2>8, GoStep
  <1>6. CASE r \in {"failed", "not_found"}
    <2>1. Goto(t, r) /\ todo' = todo
      BY <1>3, <1>6 DEF EmbedPrefix
    <2>2. r = "not_found" => job[t].path \in removed[t]
      BY <1>1, <1>4 DEF Tells, Said
    <2>3. IsPrefix(job[t].path, job[t].path)
      BY <1>2, PrefixSelf
    <2>4. OutcomeAt(t, r)
      BY <1>2, <1>6, <2>2, <2>3 DEF OutcomeAt, Puts
    <2>5. QED
      BY <1>1, <1>6, <2>1, <2>4, EndStep DEF Outcomes
  <1>7. QED
    BY <1>4, <1>5, <1>6

(* A key that has been embedded is not due, so that what is due is still   *)
(* before the job when it takes that key off its list.                     *)
LEMMA EmbedEachInv ==
  ASSUME Inv, NEW t \in Thread, answer[t] # Nil, Reacts(t), EmbedEach(t)
  PROVE  Inv'
  <1>1. /\ pc[t] = "embed_each" /\ pc[t] # "idle" /\ At(t, pc[t], todo[t])
        /\ Tells(t, Head(todo[t]))
    BY Answered, WantedIs DEF EmbedEach, Asks
  <1>2. job[t].kind = "embed_all" /\ todo[t] \in Seq(Path)
    BY <1>1, JobThere DEF At, KindAt, Embedding
  <1>3. CASE /\ Said(t, "already") \/ Said(t, "upgraded")
             /\ todo' = [todo EXCEPT ![t] = Tail(@)]
             /\ Goto(t, EmbedNext(Tail(todo[t])))
    <2>1. PICK l : l = Tail(todo[t])
      OBVIOUS
    <2>2. PICK step : step = EmbedNext(l)
      OBVIOUS
    <2>3. todo[t] # <<>>
      BY <1>1 DEF At, TodoAt
    <2>4. l \in Seq(Path) /\ Len(l) = Len(todo[t]) - 1
      BY <1>2, <2>1, <2>3, TailList
    <2>5. /\ \A i \in 1 .. Len(todo[t]) - 1 : l[i] = todo[t][i + 1]
          /\ \A p \in ToSet(todo[t]) : p = Head(todo[t]) \/ p \in ToSet(l)
      BY <1>2, <2>1, <2>3, TailList
    <2>6. Len(todo[t]) \in Nat
      BY <1>2, ListType
    <2>7. step \in {"ok", "embed_each"} /\ (l = <<>> <=> step = "ok")
      BY <2>2 DEF EmbedNext
    <2>8. pc' = [pc EXCEPT ![t] = step] /\ todo' = [todo EXCEPT ![t] = l]
      <3>1. todo \in [Thread -> Seq(Path)]
        BY DEF Inv, Types
      <3>2. QED
        BY <1>3, <2>1, <2>2, <3>1 DEF Goto
    <2>9. Head(todo[t]) \notin due[t]
      BY <1>1, <1>3 DEF Tells
    <2>10. due[t] \subseteq ToSet(l)
      BY <1>1, <2>5, <2>9 DEF At, DueAt
    <2>11. l = <<>> => due[t] = {}
      <3>1. SUFFICES ASSUME l = <<>>, NEW p \in due[t] PROVE FALSE
        OBVIOUS
      <3>2. p \in ToSet(l) /\ Len(l) = 0
        BY <2>4, <2>10, <3>1, ListType
      <3>3. PICK i \in 1 .. Len(l) : l[i] = p
        BY <2>4, <3>2, ListType
      <3>4. QED
        BY <3>2, <3>3
    <2>12. KindAt(t, step)
      BY <1>2, <2>7 DEF KindAt, Putting
    <2>13. TodoAt(t, step, l)
      <3>1. \A i \in 1 .. Len(todo[t]) :
              IsPrefix(job[t].path, todo[t][i]) /\ Lived(t, todo[t][i])
        BY <1>1 DEF At, TodoAt, Embedding
      <3>2. ASSUME NEW i \in 1 .. Len(l) PROVE IsPrefix(job[t].path, l[i]) /\ Lived(t, l[i])
        <4>1. i \in 1 .. Len(todo[t]) - 1 /\ i + 1 \in 1 .. Len(todo[t]) /\ l[i] = todo[t][i + 1]
          BY <2>4, <2>5, <2>6
        <4>2. QED
          BY <3>1, <4>1
      <3>3. QED
        BY <2>7, <3>2 DEF TodoAt
    <2>14. GroundedAt(t, step, l)
      BY <2>7 DEF GroundedAt
    <2>15. DueAt(t, step, l)
      BY <1>1, <2>7, <2>10 DEF At, DueAt
    <2>16. OutcomeAt(t, step)
      BY <1>2, <2>7, <2>11 DEF OutcomeAt, Puts
    <2>17. step \in Steps /\ step # "idle" /\ At(t, step, l)
      BY <2>7, <2>12, <2>13, <2>14, <2>15, <2>16 DEF At, Steps, Calling, Outcomes
    <2>18. QED
      BY <1>1, <2>4, <2>8, <2>17, ReactStep
  <1>4. CASE /\ Said(t, "not_found") \/ Said(t, "failed")
             /\ Goto(t, answer[t][1]) /\ UNCHANGED todo
    <2>1. PICK r : r = answer[t][1]
      OBVIOUS
    <2>2. r \in {"failed", "not_found"} /\ answer[t] = <<r>>
      BY <1>4, <2>1 DEF Said
    <2>3. r = "not_found" => Head(todo[t]) \in removed[t]
      BY <1>1, <2>2 DEF Tells, Said
    <2>4. IsPrefix(job[t].path, Head(todo[t]))
      BY <1>1, HeadType
    <2>5. OutcomeAt(t, r)
      BY <1>2, <2>2, <2>3, <2>4 DEF OutcomeAt, Puts
    <2>6. QED
      BY <1>1, <1>4, <2>1, <2>2, <2>5, EndStep DEF Outcomes
  <1>5. QED
    BY <1>3, <1>4 DEF EmbedEach

LEMMA ReactInv ==
  ASSUME Inv, NEW t \in Thread, React(t)
  PROVE  Inv'
  <1>1. answer[t] # Nil /\ Reacts(t)
    BY DEF React, Respond, Reacts, history
  <1>2. CASE Scan(t)
    BY <1>1, <1>2, ScanInv
  <1>3. CASE MakeCheck(t)
    BY <1>1, <1>3, MakeCheckInv
  <1>4. CASE Make(t)
    BY <1>1, <1>4, MakeInv
  <1>5. CASE TargetCheck(t)
    BY <1>1, <1>5, TargetCheckInv
  <1>6. CASE Target(t)
    BY <1>1, <1>6, TargetInv
  <1>7. CASE Pass(t)
    BY <1>1, <1>7, PassInv
  <1>8. CASE Retrieve(t)
    BY <1>1, <1>8, RetrieveInv
  <1>9. CASE EmbedCheck(t)
    BY <1>1, <1>9, EmbedCheckInv
  <1>10. CASE EmbedPrefix(t)
    BY <1>1, <1>10, EmbedPrefixInv
  <1>11. CASE EmbedEach(t)
    BY <1>1, <1>11, EmbedEachInv
  <1>12. QED
    BY <1>2, <1>3, <1>4, <1>5, <1>6, <1>7, <1>8, <1>9, <1>10, <1>11 DEF React

-----------------------------------------------------------------------------
(* Listing, and the beginning and the end of a job *)

(* A job that is not at a call has none.                                   *)
LEMMA NoCall ==
  ASSUME Inv, NEW t \in Thread, pc[t] \notin Calling
  PROVE  call[t] = Idle /\ answer[t] = Nil /\ At(t, pc[t], todo[t])
  BY DEF Inv, ThreadOK, JobOK

LEMMA StartListInv ==
  ASSUME Inv, NEW t \in Thread, StartList(t)
  PROVE  Inv'
  <1>1. pc[t] = "list" /\ pc[t] \notin Calling /\ pc[t] # "idle"
    BY DEF StartList, Calling
  <1>2. call[t] = Idle /\ answer[t] = Nil /\ At(t, pc[t], todo[t])
    BY <1>1, NoCall
  <1>3. job[t] \in Jobs /\ job[t].path \in Path /\ job[t].kind = "embed_all"
    BY <1>1, <1>2, JobThere DEF At, KindAt, Embedding
  <1>4. Types
    BY DEF Inv
  <1>5. /\ pc'[t] = "listing" /\ unlisted'[t] = list_subtree(job[t].path)
        /\ content' = content /\ call' = call /\ answer' = answer /\ job' = job /\ todo' = todo
        /\ removed' = removed /\ stored' = stored /\ due' = due
        /\ \A u \in Thread \ {t} : Keeps(u)
    BY <1>4 DEF StartList, Goto, tree, history, Types, Keeps
  <1>6. Types'
    <2>1. pc' \in [Thread -> Steps] /\ unlisted' \in [Thread -> SUBSET Path]
      BY <1>4 DEF StartList, Goto, list_subtree, Types, Steps
    <2>2. QED
      BY <1>4, <1>5, <2>1 DEF Types
  <1>7. KindAt(t, pc[t])'
    BY <1>3, <1>5 DEF KindAt, Putting
  <1>8. TodoAt(t, pc[t], todo[t])'
    BY <1>1, <1>2, <1>5 DEF At, TodoAt, Embedding, Lived
  <1>9. GroundedAt(t, pc[t], todo[t])'
    BY <1>5 DEF GroundedAt
  <1>10. DueAt(t, pc[t], todo[t])'
    <2>1. due[t] \subseteq unlisted'[t]
      BY <1>1, <1>2, <1>4, <1>5 DEF At, DueAt, list_subtree, Below, Types
    <2>2. \A p \in unlisted'[t] : IsPrefix(job[t].path, p)
      BY <1>5 DEF list_subtree, Below
    <2>3. QED
      BY <1>1, <1>2, <1>5, <2>1, <2>2 DEF At, DueAt
  <1>11. OutcomeAt(t, pc[t])'
    BY <1>5 DEF OutcomeAt
  <1>12. At(t, pc[t], todo[t])'
    BY <1>7, <1>8, <1>9, <1>10, <1>11 DEF At
  <1>13. job'[t] \in Jobs /\ pc'[t] # "idle" /\ call'[t] = Idle /\ answer'[t] = Nil
    BY <1>2, <1>3, <1>5
  <1>14. QED
    BY <1>5, <1>6, <1>12, <1>13, OwnStep

(* A key that is due is there when the listing comes to it.                *)
LEMMA ListInv ==
  ASSUME Inv, NEW t \in Thread, NEW p \in Path, List(t, p)
  PROVE  Inv'
  <1>1. /\ pc[t] = "listing" /\ pc[t] \notin Calling /\ pc[t] # "idle" /\ p \in unlisted[t]
    BY DEF List, Calling
  <1>2. call[t] = Idle /\ answer[t] = Nil /\ At(t, pc[t], todo[t])
    BY <1>1, NoCall
  <1>3. /\ job[t] \in Jobs /\ job[t].path \in Path /\ job[t].kind = "embed_all"
        /\ todo[t] \in Seq(Path)
    BY <1>1, <1>2, JobThere DEF At, KindAt, Embedding
  <1>4. Types
    BY DEF Inv
  <1>5. PICK l : l = todo'[t]
    OBVIOUS
  <1>6. /\ todo' = [todo EXCEPT ![t] = l] /\ l \in Seq(Path)
        /\ \/ content[p] = Nil /\ l = todo[t]
           \/ content[p] # Nil /\ ToSet(l) = ToSet(todo[t]) \cup {p}
    <2>1. CASE content[p] = Nil /\ UNCHANGED todo
      BY <1>3, <1>4, <1>5, <2>1 DEF Types
    <2>2. CASE /\ content[p] # Nil
               /\ \E i \in 1 .. Len(todo[t]) + 1 : todo' = [todo EXCEPT ![t] = InsertAt(@, i, p)]
      <3>1. PICK i \in 1 .. Len(todo[t]) + 1 : todo' = [todo EXCEPT ![t] = InsertAt(@, i, p)]
        BY <2>2
      <3>2. todo'[t] = InsertAt(todo[t], i, p)
        BY <1>4, <3>1 DEF Types
      <3>3. /\ InsertAt(todo[t], i, p) \in Seq(Path)
            /\ ToSet(InsertAt(todo[t], i, p)) = ToSet(todo[t]) \cup {p}
        BY <1>3, InsertList
      <3>4. l \in Seq(Path) /\ ToSet(l) = ToSet(todo[t]) \cup {p}
        BY <1>5, <3>2, <3>3
      <3>5. todo' = [todo EXCEPT ![t] = l]
        BY <1>5, <3>1, <3>2
      <3>6. QED
        BY <2>2, <3>4, <3>5
    <2>3. QED
      BY <2>1, <2>2 DEF List
  <1>7. /\ unlisted' = [unlisted EXCEPT ![t] = @ \ {p}]
        /\ content' = content /\ call' = call /\ answer' = answer /\ job' = job /\ pc' = pc
        /\ removed' = removed /\ stored' = stored /\ due' = due
    BY DEF List, tree, history
  <1>8. /\ unlisted'[t] = unlisted[t] \ {p} /\ todo'[t] = l /\ \A u \in Thread \ {t} : Keeps(u)
    BY <1>4, <1>6, <1>7 DEF Types, Keeps
  <1>9. Types'
    <2>1. todo' \in [Thread -> Seq(Path)] /\ unlisted' \in [Thread -> SUBSET Path]
      BY <1>4, <1>6, <1>7 DEF Types
    <2>2. QED
      BY <1>4, <1>7, <2>1 DEF Types
  <1>10. ASSUME NEW i \in 1 .. Len(l) PROVE IsPrefix(job[t].path, l[i]) /\ Lived(t, l[i])
    <2>1. \A j \in 1 .. Len(todo[t]) : IsPrefix(job[t].path, todo[t][j]) /\ Lived(t, todo[t][j])
      BY <1>1, <1>2 DEF At, TodoAt, Embedding
    <2>2. IsPrefix(job[t].path, p)
      BY <1>1, <1>2 DEF At, DueAt
    <2>3. CASE content[p] = Nil /\ l = todo[t]
      BY <2>1, <2>3
    <2>4. CASE content[p] # Nil /\ ToSet(l) = ToSet(todo[t]) \cup {p}
      <3>1. l[i] \in ToSet(l)
        BY <1>6, ListType
      <3>2. CASE l[i] = p
        BY <2>2, <2>4, <3>2 DEF Lived
      <3>3. CASE l[i] \in ToSet(todo[t])
        <4>1. PICK j \in 1 .. Len(todo[t]) : todo[t][j] = l[i]
          BY <1>3, <3>3, ListType
        <4>2. QED
          BY <2>1, <4>1
      <3>4. QED
        BY <2>4, <3>1, <3>2, <3>3
    <2>5. QED
      BY <1>6, <2>3, <2>4
  <1>11. due[t] \subseteq (unlisted[t] \ {p}) \cup ToSet(l)
    <2>1. \A q \in due[t] : content[q] # Nil /\ q \in unlisted[t] \cup ToSet(todo[t])
      BY <1>1, <1>2 DEF At, DueAt
    <2>2. QED
      BY <1>6, <2>1
  <1>12. KindAt(t, pc[t])'
    BY <1>2, <1>7 DEF At, KindAt
  <1>13. TodoAt(t, pc[t], todo[t])'
    BY <1>1, <1>7, <1>8, <1>10 DEF TodoAt, Lived
  <1>14. GroundedAt(t, pc[t], todo[t])'
    BY <1>1, <1>7 DEF GroundedAt
  <1>15. DueAt(t, pc[t], todo[t])'
    BY <1>1, <1>2, <1>7, <1>8, <1>11 DEF At, DueAt
  <1>16. OutcomeAt(t, pc[t])'
    BY <1>1, <1>7 DEF OutcomeAt
  <1>17. At(t, pc[t], todo[t])'
    BY <1>12, <1>13, <1>14, <1>15, <1>16 DEF At
  <1>18. job'[t] \in Jobs /\ pc'[t] # "idle" /\ call'[t] = Idle /\ answer'[t] = Nil
    BY <1>1, <1>2, <1>3, <1>7
  <1>19. QED
    BY <1>7, <1>8, <1>9, <1>17, <1>18, OwnStep

LEMMA ListedInv ==
  ASSUME Inv, NEW t \in Thread, Listed(t)
  PROVE  Inv'
  <1>1. pc[t] = "listing" /\ pc[t] \notin Calling /\ pc[t] # "idle" /\ unlisted[t] = {}
    BY DEF Listed, Calling
  <1>2. call[t] = Idle /\ answer[t] = Nil /\ At(t, pc[t], todo[t])
    BY <1>1, NoCall
  <1>3. /\ job[t] \in Jobs /\ job[t].path \in Path /\ job[t].kind = "embed_all"
        /\ todo[t] \in Seq(Path)
    BY <1>1, <1>2, JobThere DEF At, KindAt, Embedding
  <1>4. Types
    BY DEF Inv
  <1>5. PICK step : step = EmbedNext(todo[t])
    OBVIOUS
  <1>6. step \in {"ok", "embed_each"} /\ (todo[t] = <<>> <=> step = "ok")
    BY <1>5 DEF EmbedNext
  <1>7. /\ pc' = [pc EXCEPT ![t] = step]
        /\ content' = content /\ call' = call /\ answer' = answer /\ job' = job /\ todo' = todo
        /\ unlisted' = unlisted /\ removed' = removed /\ stored' = stored /\ due' = due
    BY <1>5 DEF Listed, Goto, tree, history
  <1>8. pc'[t] = step /\ \A u \in Thread \ {t} : Keeps(u)
    BY <1>4, <1>7 DEF Types, Keeps
  <1>9. Types'
    <2>1. pc' \in [Thread -> Steps]
      BY <1>4, <1>6, <1>7 DEF Types, Steps, Calling, Outcomes
    <2>2. QED
      BY <1>4, <1>7, <2>1 DEF Types
  <1>10. due[t] \subseteq ToSet(todo[t])
    BY <1>1, <1>2 DEF At, DueAt
  <1>11. todo[t] = <<>> => due[t] = {}
    <2>1. SUFFICES ASSUME todo[t] = <<>>, NEW p \in due[t] PROVE FALSE
      OBVIOUS
    <2>2. p \in ToSet(todo[t]) /\ Len(todo[t]) = 0
      BY <1>3, <1>10, <2>1, ListType
    <2>3. PICK i \in 1 .. Len(todo[t]) : todo[t][i] = p
      BY <1>3, <2>2, ListType
    <2>4. QED
      BY <2>2, <2>3
  <1>12. KindAt(t, pc[t])'
    BY <1>3, <1>6, <1>7, <1>8 DEF KindAt, Putting
  <1>13. TodoAt(t, pc[t], todo[t])'
    BY <1>1, <1>2, <1>6, <1>7, <1>8 DEF At, TodoAt, Embedding, Lived
  <1>14. GroundedAt(t, pc[t], todo[t])'
    BY <1>6, <1>8 DEF GroundedAt
  <1>15. DueAt(t, pc[t], todo[t])'
    BY <1>1, <1>2, <1>6, <1>7, <1>8, <1>10 DEF At, DueAt
  <1>16. OutcomeAt(t, pc[t])'
    BY <1>3, <1>6, <1>7, <1>8, <1>11 DEF OutcomeAt, Puts
  <1>17. At(t, pc[t], todo[t])'
    BY <1>12, <1>13, <1>14, <1>15, <1>16 DEF At
  <1>18. job'[t] \in Jobs /\ pc'[t] # "idle" /\ call'[t] = Idle /\ answer'[t] = Nil
    BY <1>2, <1>3, <1>6, <1>7, <1>8
  <1>19. QED
    BY <1>7, <1>8, <1>9, <1>17, <1>18, OwnStep

LEMMA BeginInv ==
  ASSUME Inv, NEW t \in Thread, Begin(t)
  PROVE  Inv'
  <1>1. pc[t] = "idle" /\ pc[t] \notin Calling
    BY DEF Begin, Calling
  <1>2. /\ call[t] = Idle /\ answer[t] = Nil /\ todo[t] = <<>> /\ unlisted[t] = {}
    BY <1>1, NoCall DEF Inv, ThreadOK, JobOK
  <1>3. Types
    BY DEF Inv
  <1>4. PICK j \in Jobs :
          /\ job' = [job EXCEPT ![t] = j]
          /\ Goto(t, FirstStep(j.kind))
          /\ due' = [due EXCEPT ![t] =
               {p \in Path : j.kind = "embed_all" /\ IsPrefix(j.path, p) /\ content[p] # Nil}]
    BY DEF Begin
  <1>5. PICK step : step = FirstStep(j.kind)
    OBVIOUS
  <1>6. /\ j.kind \in Puts => step = "scan"
        /\ j.kind = "get" => step = "get"
        /\ j.kind = "remove" => step = "remove"
        /\ j.kind = "embed_all" => step = "embed_check"
    BY <1>5 DEF FirstStep, Puts
  <1>7. j.kind \in Puts \cup {"get", "remove", "embed_all"}
    BY JobType DEF Kinds
  <1>8. step \in {"scan", "get", "remove", "embed_check"}
    BY <1>6, <1>7
  <1>9. /\ content' = content /\ call' = call /\ answer' = answer /\ todo' = todo
        /\ unlisted' = unlisted /\ removed' = removed /\ stored' = stored
        /\ pc' = [pc EXCEPT ![t] = step]
    BY <1>4, <1>5 DEF Begin, tree, Goto
  <1>10. /\ pc'[t] = step /\ job'[t] = j
         /\ due'[t] = {p \in Path : j.kind = "embed_all" /\ IsPrefix(j.path, p) /\ content[p] # Nil}
         /\ \A u \in Thread \ {t} : Keeps(u)
    BY <1>3, <1>4, <1>9 DEF Types, Keeps
  <1>11. Types'
    <2>1. pc' \in [Thread -> Steps]
      BY <1>3, <1>8, <1>9 DEF Types, Steps, Calling
    <2>2. job' \in [Thread -> Jobs \cup {Idle}] /\ due' \in [Thread -> SUBSET Path]
      BY <1>3, <1>4 DEF Types
    <2>3. QED
      BY <1>3, <1>9, <2>1, <2>2 DEF Types
  <1>12. KindAt(t, pc[t])'
    <2>1. step = "scan" => j.kind \in Puts
      BY <1>6, <1>7
    <2>2. step = "get" => j.kind = "get"
      BY <1>6, <1>7
    <2>3. step = "remove" => j.kind = "remove"
      BY <1>6, <1>7
    <2>4. step = "embed_check" => j.kind = "embed_all"
      BY <1>6, <1>7
    <2>5. QED
      BY <1>8, <1>10, <2>1, <2>2, <2>3, <2>4 DEF KindAt, Putting, Embedding
  <1>13. TodoAt(t, pc[t], todo[t])'
    <2>1. todo'[t] = <<>> /\ Len(todo'[t]) = 0
      BY <1>2, <1>9
    <2>2. 1 .. Len(todo'[t]) = {}
      BY <2>1
    <2>3. QED
      BY <1>8, <1>10, <2>2 DEF TodoAt
  <1>14. GroundedAt(t, pc[t], todo[t])'
    BY <1>8, <1>10 DEF GroundedAt
  <1>15. DueAt(t, pc[t], todo[t])'
    BY <1>2, <1>8, <1>9, <1>10 DEF DueAt
  <1>16. OutcomeAt(t, pc[t])'
    BY <1>8, <1>10 DEF OutcomeAt
  <1>17. At(t, pc[t], todo[t])'
    BY <1>12, <1>13, <1>14, <1>15, <1>16 DEF At
  <1>18. job'[t] \in Jobs /\ pc'[t] # "idle" /\ call'[t] = Idle /\ answer'[t] = Nil
    BY <1>2, <1>8, <1>9, <1>10
  <1>19. QED
    BY <1>9, <1>10, <1>11, <1>17, <1>18, OwnStep

LEMMA EndInv ==
  ASSUME Inv, NEW t \in Thread, End(t)
  PROVE  Inv'
  <1>1. pc[t] \in Outcomes /\ pc[t] \notin Calling
    BY DEF End, Outcomes, Calling
  <1>2. call[t] = Idle /\ answer[t] = Nil
    BY <1>1, NoCall
  <1>3. Types
    BY DEF Inv
  <1>4. content' = content /\ call' = call /\ answer' = answer
    BY DEF End, tree
  <1>5. /\ pc'[t] = "idle" /\ job'[t] = Idle /\ todo'[t] = <<>> /\ unlisted'[t] = {} /\ due'[t] = {}
        /\ \A u \in Thread \ {t} : Keeps(u)
    BY <1>3, <1>4 DEF End, Goto, Types, Keeps
  <1>6. Types'
    <2>1. pc' \in [Thread -> Steps] /\ job' \in [Thread -> Jobs \cup {Idle}]
      BY <1>3 DEF End, Goto, Types, Steps
    <2>2. todo' \in [Thread -> Seq(Path)]
      <3>1. <<>> \in Seq(Path)
        OBVIOUS
      <3>2. QED
        BY <1>3, <3>1 DEF End, Types
    <2>3. unlisted' \in [Thread -> SUBSET Path] /\ removed' \in [Thread -> SUBSET Path]
      BY <1>3 DEF End, Types
    <2>4. stored' \in [Thread -> BOOLEAN] /\ due' \in [Thread -> SUBSET Path]
      BY <1>3 DEF End, Types
    <2>5. QED
      BY <1>3, <1>4, <2>1, <2>2, <2>3, <2>4 DEF Types
  <1>7. At(t, pc[t], todo[t])'
    BY <1>5 DEF At, KindAt, TodoAt, GroundedAt, DueAt, OutcomeAt, Putting, Embedding
  <1>8. QED
    BY <1>2, <1>4, <1>5, <1>6, <1>7, OwnStep

LEMMA AskInv ==
  ASSUME Inv, NEW t \in Thread, Ask(t)
  PROVE  Inv'
  <1>1. pc[t] \in Calling /\ call[t] = Idle
    BY DEF Ask
  <1>2. Types /\ \A u \in Thread : ThreadOK(u)
    BY DEF Inv
  <1>3. /\ call' = [call EXCEPT ![t] = Wanted(t)]
        /\ content' = content /\ answer' = answer /\ pc' = pc /\ job' = job /\ todo' = todo
        /\ unlisted' = unlisted /\ removed' = removed /\ stored' = stored /\ due' = due
    BY DEF Ask, history
  <1>4. Wanted(t) \in AnyCall
    BY <1>1, WantedType
  <1>5. Types'
    <2>1. call' \in [Thread -> AnyCall]
      BY <1>2, <1>3, <1>4 DEF Types
    <2>2. QED
      BY <1>2, <1>3, <2>1 DEF Types
  <1>6. call'[t] = Wanted(t) /\ \A u \in Thread \ {t} : Keeps(u)
    BY <1>2, <1>3 DEF Types, Keeps
  <1>7. answer[t] = Nil
    BY <1>1, <1>2 DEF ThreadOK, JobOK
  <1>8. Wanted(t)' = Wanted(t)
    BY <1>3 DEF Wanted, Cursor, MakeKind, TargetKind, InsertKind
  <1>9. JobOK(t)'
    BY <1>1, <1>2, <1>3, <1>6, <1>7, <1>8 DEF ThreadOK, JobOK
  <1>10. AnswerOK(t)'
    BY <1>3, <1>7 DEF AnswerOK
  <1>11. At(t, pc[t], todo[t])'
    <2>1. At(t, pc[t], todo[t])
      BY <1>2 DEF ThreadOK
    <2>2. KindAt(t, pc[t])' /\ TodoAt(t, pc[t], todo[t])'
      BY <1>3, <2>1 DEF At, KindAt, TodoAt, Lived
    <2>3. GroundedAt(t, pc[t], todo[t])' /\ DueAt(t, pc[t], todo[t])'
      BY <1>3, <2>1 DEF At, GroundedAt, DueAt, Lived
    <2>4. OutcomeAt(t, pc[t])'
      BY <1>3, <2>1 DEF At, OutcomeAt
    <2>5. QED
      BY <2>2, <2>3, <2>4 DEF At
  <1>12. ASSUME NEW u \in Thread, u # t PROVE ThreadOK(u)'
    BY <1>2, <1>3, <1>6, <1>12, KeptThread
  <1>13. QED
    BY <1>5, <1>9, <1>10, <1>11, <1>12 DEF Inv, ThreadOK

-----------------------------------------------------------------------------
(* The tree serves a call *)

LEMMA ServeFrame ==
  ASSUME Inv, NEW t \in Thread, Serve(t)
  PROVE  /\ pc[t] \in Calling /\ pc[t] # "idle" /\ call[t] = Wanted(t) /\ call[t] # Idle
         /\ call' = call /\ pc' = pc /\ job' = job /\ todo' = todo /\ unlisted' = unlisted
         /\ At(t, pc[t], todo[t]) /\ Types
  <1>1. JobOK(t) /\ At(t, pc[t], todo[t]) /\ Types
    BY DEF Inv, ThreadOK
  <1>2. call[t] # Idle /\ call' = call
    BY DEF Serve, Insert, Change, Get, Delete, Embed, Pending
  <1>3. pc[t] \in Calling /\ call[t] = Wanted(t)
    BY <1>1, <1>2 DEF JobOK
  <1>4. QED
    BY <1>1, <1>2, <1>3 DEF Serve, Calling

(* History remembers what has left the map while a job runs, and when a    *)
(* key that was due has been embedded or has gone.                         *)
LEMMA ServeHistory ==
  ASSUME Inv, NEW t \in Thread, Serve(t), NEW u \in Thread, pc[u] # "idle"
  PROVE  /\ removed[u] \subseteq removed'[u]
         /\ \A p \in Path : content[p] # Nil /\ content'[p] = Nil => p \in removed'[u]
         /\ stored[u] => stored'[u]
         /\ job[u].kind \in Puts /\ content'[job[u].path] # Nil
              /\ content'[job[u].path].val = job[u].arg => stored'[u]
         /\ due'[u] \subseteq due[u]
         /\ \A p \in due'[u] : content'[p] # Nil
         /\ \A p \in Path : Lived(u, p) => Lived(u, p)'
  <1> DEFINE gone == {p \in Path : content[p] # Nil /\ content'[p] = Nil}
             done == {p \in Path : /\ call[t].kind = "embed_existing" /\ call[t].path = p
                                   /\ answer'[t] \in {<<"already">>, <<"upgraded">>}}
  <1>1. /\ removed' = [v \in Thread |-> IF pc[v] = "idle" THEN {} ELSE removed[v] \cup gone]
        /\ due' = [v \in Thread |-> due[v] \ IF v = t THEN gone \cup done ELSE gone]
    BY DEF Serve, Observe
  <1>2. removed'[u] = removed[u] \cup gone
    BY <1>1
  <1>3. due'[u] \subseteq due[u] \ gone
    BY <1>1
  <1>4. stored'[u] = \/ stored[u]
                     \/ /\ pc[u] # "idle" /\ job[u].kind \in Puts
                        /\ content'[job[u].path] # Nil /\ content'[job[u].path].val = job[u].arg
    BY DEF Serve, Observe
  <1>5. \A p \in due[u] : p \in Path /\ content[p] # Nil
    BY DEF Inv, Types, ThreadOK, At, DueAt
  <1>6. \A p \in due'[u] : content'[p] # Nil
    BY <1>3, <1>5
  <1>7. \A p \in Path : Lived(u, p) => Lived(u, p)'
    BY <1>2 DEF Lived
  <1>8. stored[u] => stored'[u]
    BY <1>4
  <1>9. job[u].kind \in Puts /\ content'[job[u].path] # Nil
              /\ content'[job[u].path].val = job[u].arg => stored'[u]
    BY <1>4
  <1>10. \A p \in Path : content[p] # Nil /\ content'[p] = Nil => p \in removed'[u]
    BY <1>2
  <1>11. removed[u] \subseteq removed'[u]
    BY <1>2
  <1>12. due'[u] \subseteq due[u]
    BY <1>3
  <1> HIDE DEF gone, done
  <1>13. QED
    BY <1>6, <1>7, <1>8, <1>9, <1>10, <1>11, <1>12

LEMMA ServeDone ==
  ASSUME Inv, NEW t \in Thread, Serve(t), call[t].path \in Path, call[t].kind = "embed_existing",
         answer'[t] \in {<<"already">>, <<"upgraded">>}
  PROVE  call[t].path \notin due'[t]
  <1> DEFINE gone == {p \in Path : content[p] # Nil /\ content'[p] = Nil}
             done == {p \in Path : /\ call[t].kind = "embed_existing" /\ call[t].path = p
                                   /\ answer'[t] \in {<<"already">>, <<"upgraded">>}}
  <1>1. due' = [v \in Thread |-> due[v] \ IF v = t THEN gone \cup done ELSE gone]
    BY DEF Serve, Observe
  <1>2. due'[t] = due[t] \ (gone \cup done)
    BY <1>1
  <1>3. call[t].path \in done
    OBVIOUS
  <1>4. QED
    BY <1>2, <1>3

(* What a thread knows of itself outlasts what the tree does for anyone.   *)
LEMMA ServeAt ==
  ASSUME Inv, NEW t \in Thread, Serve(t), NEW u \in Thread
  PROVE  At(u, pc[u], todo[u])'
  <1>1. /\ pc' = pc /\ job' = job /\ todo' = todo /\ unlisted' = unlisted
        /\ Types /\ At(u, pc[u], todo[u]) /\ JobOK(u)
    BY ServeFrame DEF Inv, ThreadOK
  <1>2. KindAt(u, pc[u])'
    BY <1>1 DEF At, KindAt
  <1>3. CASE pc[u] = "idle"
    <2>1. unlisted[u] = {} /\ due[u] = {}
      BY <1>1, <1>3 DEF JobOK
    <2>2. due'[u] = {}
      BY <2>1 DEF Serve, Observe
    <2>3. QED
      BY <1>1, <1>2, <1>3, <2>1, <2>2 DEF At, TodoAt, GroundedAt, DueAt, OutcomeAt, Embedding
  <1>4. CASE pc[u] # "idle"
    <2>1. /\ removed[u] \subseteq removed'[u] /\ (stored[u] => stored'[u]) /\ due'[u] \subseteq due[u]
          /\ \A p \in due'[u] : content'[p] # Nil
          /\ \A p \in Path : Lived(u, p) => Lived(u, p)'
      BY <1>4, ServeHistory
    <2>2. /\ job[u].path \in Path /\ parent_path(job[u].path) \in Path
          /\ todo[u] \in Seq(Path) /\ \A i \in 1 .. Len(todo[u]) : todo[u][i] \in Path
      BY <1>4, JobThere, ListType
    <2>3. pc[u] \in {"make_check", "make"} => parent_path(Head(todo[u])) \in Path
      BY HeadType
    <2>4. TodoAt(u, pc[u], todo[u])'
      BY <1>1, <2>1, <2>2 DEF At, TodoAt
    <2>5. GroundedAt(u, pc[u], todo[u])'
      BY <1>1, <2>1, <2>2, <2>3 DEF At, GroundedAt
    <2>6. DueAt(u, pc[u], todo[u])'
      BY <1>1, <2>1 DEF At, DueAt
    <2>7. OutcomeAt(u, pc[u])'
      BY <1>1, <2>1 DEF At, OutcomeAt
    <2>8. QED
      BY <1>2, <2>4, <2>5, <2>6, <2>7 DEF At
  <1>5. QED
    BY <1>3, <1>4

(* What others have been told stays true.                                  *)
LEMMA ServeOthers ==
  ASSUME Inv, NEW t \in Thread, Serve(t), NEW u \in Thread, answer'[u] = answer[u]
  PROVE  JobOK(u)' /\ AnswerOK(u)'
  <1>1. /\ pc' = pc /\ job' = job /\ todo' = todo /\ unlisted' = unlisted /\ call' = call
        /\ JobOK(u) /\ AnswerOK(u)
    BY ServeFrame DEF Inv, ThreadOK
  <1>2. Wanted(u)' = Wanted(u)
    BY <1>1 DEF Wanted, Cursor, MakeKind, TargetKind, InsertKind
  <1>3. JobOK(u)'
    <2>1. due[u] = {} => due'[u] = {}
      BY DEF Serve, Observe
    <2>2. QED
      BY <1>1, <1>2, <2>1 DEF JobOK
  <1>4. AnswerOK(u)'
    <2>1. CASE answer[u] = Nil
      BY <2>1 DEF AnswerOK
    <2>2. CASE answer[u] # Nil
      <3>1. PICK p : p = Wanted(u).path
        OBVIOUS
      <3>2. pc[u] # "idle" /\ pc[u] \in Calling
        BY <2>2, Answered
      <3>3. p \in Path
        BY <3>1, <3>2, WantedType
      <3>4. /\ removed[u] \subseteq removed'[u] /\ (stored[u] => stored'[u])
            /\ due'[u] \subseteq due[u] /\ (Lived(u, p) => Lived(u, p)')
        BY <3>2, <3>3, ServeHistory
      <3>5. Tells(u, p)
        BY <1>1, <2>2, <3>1 DEF AnswerOK
      <3>6. Tells(u, p)'
        BY <1>1, <3>4, <3>5 DEF Tells, Found, Said
      <3>7. QED
        BY <1>2, <3>1, <3>6 DEF AnswerOK
    <2>3. QED
      BY <2>1, <2>2
  <1>5. QED
    BY <1>3, <1>4

LEMMA ContentType ==
  ASSUME NEW c \in Contents, NEW v \in Value \cup {Dir}
  PROVE  /\ c # Nil /\ [c EXCEPT !.val = v] \in Contents
         /\ Fresh(v) \in Contents /\ Fresh(v) # Nil
         /\ [c EXCEPT !.val = v] # Nil /\ [c EXCEPT !.val = v].val = v /\ Fresh(v).val = v
  <1>1. PICK w \in Value \cup {Dir} : c = Fresh(w)
    BY DEF Contents
  <1>2. /\ Fresh(w) # Nil /\ Fresh(v) # Nil /\ Fresh(v).val = v
        /\ [Fresh(w) EXCEPT !.val = v] = Fresh(v)
    BY FreshAssumption
  <1>3. [c EXCEPT !.val = v] = Fresh(v)
    BY <1>1, <1>2
  <1>4. QED
    BY <1>1, <1>2, <1>3 DEF Contents

(* What a call leaves, and what it tells the thread that made it.          *)
Served(t, p) ==
  /\ content' \in [Path -> Contents \cup {Nil}] /\ content'[Root] # Nil
  /\ answer' \in [Thread -> AnyAnswer] /\ \A u \in Thread \ {t} : answer'[u] = answer[u]
  /\ Tells(t, p)'

(* An answer r that is only a word, about path p.                          *)
Word(t, p, r) ==
  /\ r \in Answers(pc[t]) /\ r # "data" /\ (r = "not_found" => p # Root)
  /\ pc[t] \in {"make", "target"} =>
       /\ r \in {"ok", "already_exists"} => content'[p] # Nil
       /\ r = "not_found" => parent_path(p) \in removed'[t]
  /\ pc[t] \in {"target", "update"} /\ r = "ok" => stored'[t]
  /\ pc[t] \in {"update", "embed_prefix", "embed_each"} /\ r = "not_found" => p \in removed'[t]
  /\ pc[t] = "embed_check" /\ r = "not_found" => p \notin due'[t]
  /\ pc[t] \in {"embed_prefix", "embed_each"} /\ r \in {"already", "upgraded"} => p \notin due'[t]

LEMMA WordTells ==
  ASSUME Inv, NEW t \in Thread, Serve(t), NEW p, NEW r,
         answer' = [answer EXCEPT ![t] = <<r>>], Word(t, p, r),
         content' \in [Path -> Contents \cup {Nil}], content'[Root] # Nil
  PROVE  Served(t, p)
  <1>1. pc' = pc /\ Types
    BY ServeFrame
  <1>2. r \in {"ok", "not_found", "failed", "already_exists", "has_children", "already", "upgraded"}
    <2>1. Answers(pc[t]) \subseteq {"data", "ok", "not_found", "failed", "already_exists",
                                     "has_children", "already", "upgraded"}
      <3>1. pc[t] \in {"scan", "make_check", "target_check", "get", "embed_check", "make",
                       "target", "update", "remove", "embed_prefix", "embed_each"}
        BY ServeFrame DEF Calling
      <3>2. QED
        BY <3>1 DEF Answers
    <2>2. QED
      BY <2>1 DEF Word
  <1>3. <<r>> \in AnyAnswer
    BY <1>2 DEF AnyAnswer
  <1>4. /\ answer' \in [Thread -> AnyAnswer] /\ \A u \in Thread \ {t} : answer'[u] = answer[u]
        /\ answer'[t] = <<r>>
    BY <1>1, <1>3 DEF Types
  <1>5. Tells(t, p)'
    <2>1. answer'[t][1] = r /\ \A q : answer'[t] = <<q>> <=> r = q
      BY <1>4
    <2>2. QED
      BY <1>1, <1>4, <2>1 DEF Tells, Found, Said, Word, Lived
  <1>6. QED
    BY <1>4, <1>5 DEF Served

LEMMA GetServed ==
  ASSUME Inv, NEW t \in Thread, Serve(t), Get(t), NEW p, p = Wanted(t).path
  PROVE  Served(t, p)
  <1>1. /\ pc[t] \in Calling /\ pc[t] # "idle" /\ call[t] = Wanted(t) /\ Types
        /\ pc' = pc /\ At(t, pc[t], todo[t])
    BY ServeFrame
  <1>2. /\ p \in Path /\ call[t].path = p
        /\ pc[t] \in {"scan", "make_check", "target_check", "get", "embed_check"}
    BY <1>1, WantedType DEF Get, Pending
  <1>3. /\ content' = content
        /\ answer' = [answer EXCEPT ![t] = IF content[p] = Nil THEN <<"not_found">>
                                           ELSE <<"data", content[p]>>]
    BY <1>2 DEF Get, Says
  <1>4. Answers(pc[t]) = {"data", "not_found"}
    BY <1>2 DEF Answers
  <1>5. content' \in [Path -> Contents \cup {Nil}] /\ content'[Root] # Nil
    BY <1>1, <1>3 DEF Types
  <1>6. CASE content[p] = Nil
    <2>1. p # Root
      BY <1>3, <1>5, <1>6
    <2>2. p \notin due'[t]
      BY <1>1, <1>3, <1>6, ServeHistory
    <2>3. Word(t, p, "not_found")
      BY <1>2, <1>4, <2>1, <2>2 DEF Word
    <2>4. QED
      BY <1>3, <1>5, <1>6, <2>3, WordTells
  <1>7. CASE content[p] # Nil
    <2>1. PICK c : c = content[p]
      OBVIOUS
    <2>2. c \in Contents
      BY <1>1, <1>2, <1>7, <2>1 DEF Types
    <2>3. answer' = [answer EXCEPT ![t] = <<"data", c>>] /\ <<"data", c>> \in AnyAnswer
      BY <1>3, <1>7, <2>1, <2>2 DEF AnyAnswer
    <2>4. /\ answer' \in [Thread -> AnyAnswer] /\ \A u \in Thread \ {t} : answer'[u] = answer[u]
          /\ answer'[t] = <<"data", c>>
      BY <1>1, <2>3 DEF Types
    <2>5. Tells(t, p)'
      <3>1. answer'[t][1] = "data" /\ \A q : answer'[t] # <<q>>
        BY <2>4
      <3>2. QED
        BY <1>1, <1>2, <1>3, <1>4, <1>7, <2>4, <3>1 DEF Tells, Found, Said, Lived
    <2>6. QED
      BY <1>5, <2>4, <2>5 DEF Served
  <1>8. QED
    BY <1>6, <1>7

LEMMA InsertServed ==
  ASSUME Inv, NEW t \in Thread, Serve(t), Insert(t), NEW p, p = Wanted(t).path
  PROVE  Served(t, p)
  <1>1. /\ pc[t] \in Calling /\ pc[t] # "idle" /\ call[t] = Wanted(t) /\ Types
        /\ pc' = pc /\ At(t, pc[t], todo[t])
    BY ServeFrame
  <1>2. /\ p \in Path /\ call[t].path = p /\ call[t].arg \in Value \cup {Dir} /\ p # Root
        /\ pc[t] \in {"make", "target"}
    BY <1>1, WantedType DEF Insert, Pending
  <1>3. Answers(pc[t]) = {"ok", "not_found", "failed", "already_exists"}
    BY <1>2 DEF Answers
  <1>4. parent_path(p) \in Path /\ Lived(t, parent_path(p))
    <2>1. pc[t] = "make" => p = Head(todo[t])
      BY WantedIs DEF Asks
    <2>2. pc[t] = "target" => p = job[t].path
      BY WantedIs DEF Asks
    <2>3. QED
      BY <1>1, <1>2, <2>1, <2>2, PathType DEF At, GroundedAt
  <1>5. content \in [Path -> Contents \cup {Nil}] /\ content[Root] # Nil
    BY <1>1 DEF Types
  <1>6. CASE content[p] # Nil /\ Says(t, <<"already_exists">>)
    <2>1. Word(t, p, "already_exists")
      BY <1>2, <1>3, <1>6 DEF Word, Says
    <2>2. QED
      BY <1>5, <1>6, <2>1, WordTells DEF Says
  <1>7. CASE content[parent_path(p)] = Nil /\ Says(t, <<"not_found">>)
    <2>1. parent_path(p) \in removed[t]
      BY <1>4, <1>7 DEF Lived
    <2>2. parent_path(p) \in removed'[t]
      BY <1>1, <2>1, ServeHistory
    <2>3. Word(t, p, "not_found")
      BY <1>2, <1>3, <2>2 DEF Word
    <2>4. QED
      BY <1>5, <1>7, <2>3, WordTells DEF Says
  <1>8. CASE /\ content[p] = Nil /\ content' = [content EXCEPT ![p] = Fresh(call[t].arg)]
             /\ answer' = [answer EXCEPT ![t] = <<"ok">>]
    <2>1. PICK v \in Value \cup {Dir} : v = call[t].arg
      BY <1>2
    <2>2. Fresh(v) \in Contents /\ Fresh(v) # Nil /\ Fresh(v).val = v
      <3>1. Fresh(v) \in Contents
        BY DEF Contents
      <3>2. QED
        BY <3>1, ContentType
    <2>3. content' \in [Path -> Contents \cup {Nil}] /\ content'[Root] # Nil /\ content'[p] = Fresh(v)
      BY <1>2, <1>5, <1>8, <2>1, <2>2
    <2>4. pc[t] = "target" => stored'[t]
      <3>1. SUFFICES ASSUME pc[t] = "target" PROVE stored'[t]
        OBVIOUS
      <3>2. p = job[t].path /\ v = job[t].arg
        BY <1>1, <2>1, <3>1, WantedIs DEF Asks
      <3>3. job[t].kind \in Puts
        BY <1>1, <3>1 DEF At, KindAt, Putting
      <3>4. QED
        BY <1>1, <2>2, <2>3, <3>2, <3>3, ServeHistory
    <2>5. Word(t, p, "ok")
      BY <1>2, <1>3, <2>2, <2>3, <2>4 DEF Word
    <2>6. QED
      BY <1>8, <2>3, <2>5, WordTells
  <1>9. CASE content[p] = Nil /\ Says(t, <<"failed">>)
    <2>1. Word(t, p, "failed")
      BY <1>2, <1>3 DEF Word
    <2>2. QED
      BY <1>5, <1>9, <2>1, WordTells DEF Says
  <1>10. QED
    BY <1>2, <1>6, <1>7, <1>8, <1>9 DEF Insert

LEMMA ChangeServed ==
  ASSUME Inv, NEW t \in Thread, Serve(t), Change(t), NEW p, p = Wanted(t).path
  PROVE  Served(t, p)
  <1>1. /\ pc[t] \in Calling /\ pc[t] # "idle" /\ call[t] = Wanted(t) /\ Types
        /\ pc' = pc /\ At(t, pc[t], todo[t])
    BY ServeFrame
  <1>2. /\ p \in Path /\ call[t].path = p /\ call[t].arg \in Value \cup {Dir}
        /\ pc[t] = "update" /\ call[t].kind = "update_value"
    BY <1>1, WantedType DEF Change, Pending
  <1>3. Answers(pc[t]) = {"ok", "not_found"}
    BY <1>2 DEF Answers
  <1>4. p = job[t].path /\ call[t].arg = job[t].arg /\ p # Root /\ job[t].kind \in Puts
    <2>1. p = job[t].path /\ call[t].arg = job[t].arg
      BY <1>1, <1>2, WantedIs DEF Asks
    <2>2. job[t].kind \in Puts
      BY <1>1, <1>2 DEF At, KindAt, Putting
    <2>3. QED
      BY <1>1, <2>1, <2>2, JobThere
  <1>5. content \in [Path -> Contents \cup {Nil}] /\ content[Root] # Nil
    BY <1>1 DEF Types
  <1>6. CASE content[p] = Nil /\ Says(t, <<"not_found">>)
    <2>1. p \in removed[t]
      BY <1>1, <1>2, <1>4, <1>6 DEF At, GroundedAt, Lived
    <2>2. p \in removed'[t]
      BY <1>1, <2>1, ServeHistory
    <2>3. Word(t, p, "not_found")
      BY <1>2, <1>3, <1>4, <2>2 DEF Word
    <2>4. QED
      BY <1>5, <1>6, <2>3, WordTells DEF Says
  <1>7. CASE /\ content[p] # Nil
             /\ content' = [content EXCEPT ![p] = [@ EXCEPT !.val = call[t].arg]]
             /\ answer' = [answer EXCEPT ![t] = <<"ok">>]
    <2>1. PICK v \in Value \cup {Dir} : v = call[t].arg
      BY <1>2
    <2>2. PICK c \in Contents : c = content[p]
      BY <1>2, <1>5, <1>7
    <2>3. PICK d : d = [c EXCEPT !.val = v]
      OBVIOUS
    <2>4. d \in Contents /\ d # Nil /\ d.val = v
      BY <2>3, ContentType
    <2>5. content' = [content EXCEPT ![p] = d]
      BY <1>7, <2>1, <2>2, <2>3
    <2>6. content' \in [Path -> Contents \cup {Nil}] /\ content'[Root] # Nil /\ content'[p] = d
      BY <1>2, <1>4, <1>5, <2>4, <2>5
    <2>7. stored'[t]
      BY <1>1, <1>4, <2>1, <2>4, <2>6, ServeHistory
    <2>8. Word(t, p, "ok")
      BY <1>2, <1>3, <2>7 DEF Word
    <2>9. QED
      BY <1>7, <2>6, <2>8, WordTells
  <1>8. QED
    BY <1>2, <1>6, <1>7 DEF Change

LEMMA DeleteServed ==
  ASSUME Inv, NEW t \in Thread, Serve(t), Delete(t), NEW p, p = Wanted(t).path
  PROVE  Served(t, p)
  <1>1. /\ pc[t] \in Calling /\ pc[t] # "idle" /\ call[t] = Wanted(t) /\ Types /\ pc' = pc
    BY ServeFrame
  <1>2. p \in Path /\ call[t].path = p /\ pc[t] = "remove" /\ p # Root
    BY <1>1, WantedType DEF Delete, Pending
  <1>3. content \in [Path -> Contents \cup {Nil}] /\ content[Root] # Nil
    BY <1>1 DEF Types
  <1>4. \A r \in {"ok", "not_found", "has_children"} : Word(t, p, r)
    BY <1>2 DEF Word, Answers
  <1>5. CASE Says(t, <<"not_found">>)
    BY <1>3, <1>4, <1>5, WordTells DEF Says
  <1>6. CASE Says(t, <<"has_children">>)
    BY <1>3, <1>4, <1>6, WordTells DEF Says
  <1>7. CASE content' = [content EXCEPT ![p] = Nil] /\ answer' = [answer EXCEPT ![t] = <<"ok">>]
    <2>1. content' \in [Path -> Contents \cup {Nil}] /\ content'[Root] # Nil
      BY <1>2, <1>3, <1>7
    <2>2. QED
      BY <1>4, <1>7, <2>1, WordTells
  <1>8. QED
    BY <1>2, <1>5, <1>6, <1>7 DEF Delete

LEMMA EmbedServed ==
  ASSUME Inv, NEW t \in Thread, Serve(t), Embed(t), NEW p, p = Wanted(t).path
  PROVE  Served(t, p)
  <1>1. /\ pc[t] \in Calling /\ pc[t] # "idle" /\ call[t] = Wanted(t) /\ Types
        /\ pc' = pc /\ At(t, pc[t], todo[t])
    BY ServeFrame
  <1>2. /\ p \in Path /\ call[t].path = p /\ call[t].kind = "embed_existing"
        /\ pc[t] \in {"embed_prefix", "embed_each"} /\ p # Root
    BY <1>1, WantedType DEF Embed, Pending
  <1>3. Answers(pc[t]) = {"already", "upgraded", "failed", "not_found"}
    BY <1>2 DEF Answers
  <1>4. Lived(t, p)
    <2>1. CASE pc[t] = "embed_prefix"
      BY <1>1, <2>1, WantedIs DEF At, GroundedAt, Asks
    <2>2. CASE pc[t] = "embed_each"
      BY <1>1, <2>2, WantedIs, HeadType DEF Asks
    <2>3. QED
      BY <1>2, <2>1, <2>2
  <1>5. content \in [Path -> Contents \cup {Nil}] /\ content[Root] # Nil
    BY <1>1 DEF Types
  <1>6. CASE content[p] = Nil /\ Says(t, <<"not_found">>)
    <2>1. p \in removed'[t]
      BY <1>1, <1>4, <1>6, ServeHistory DEF Lived
    <2>2. Word(t, p, "not_found")
      BY <1>2, <1>3, <2>1 DEF Word
    <2>3. QED
      BY <1>5, <1>6, <2>2, WordTells DEF Says
  <1>7. ASSUME NEW r \in {"already", "upgraded", "failed"}, Says(t, <<r>>)
        PROVE  Served(t, p)
    <2>1. answer' = [answer EXCEPT ![t] = <<r>>] /\ content' = content /\ answer'[t] = <<r>>
      BY <1>1, <1>7 DEF Says, Types
    <2>2. r \in {"already", "upgraded"} => p \notin due'[t]
      BY <1>2, <2>1, ServeDone
    <2>3. Word(t, p, r)
      BY <1>2, <1>3, <2>2 DEF Word
    <2>4. QED
      BY <1>5, <2>1, <2>3, WordTells
  <1>8. QED
    BY <1>2, <1>6, <1>7 DEF Embed

LEMMA ServeInv ==
  ASSUME Inv, NEW t \in Thread, Serve(t)
  PROVE  Inv'
  <1>1. PICK p : p = Wanted(t).path
    OBVIOUS
  <1>2. Served(t, p)
    BY <1>1, GetServed, InsertServed, ChangeServed, DeleteServed, EmbedServed DEF Serve
  <1>3. /\ pc' = pc /\ job' = job /\ todo' = todo /\ unlisted' = unlisted /\ call' = call
        /\ call[t] # Idle /\ call[t] = Wanted(t) /\ pc[t] \in Calling /\ pc[t] # "idle" /\ Types
    BY ServeFrame
  <1>4. Types'
    <2>1. removed' \in [Thread -> SUBSET Path]
      BY <1>3 DEF Serve, Observe, Types
    <2>2. due' \in [Thread -> SUBSET Path]
      BY <1>3 DEF Serve, Observe, Types
    <2>3. stored' \in [Thread -> BOOLEAN]
      BY <1>3 DEF Serve, Observe, Types
    <2>4. QED
      BY <1>2, <1>3, <2>1, <2>2, <2>3 DEF Types, Served
  <1>5. ASSUME NEW u \in Thread, u # t PROVE ThreadOK(u)'
    <2>1. answer'[u] = answer[u]
      BY <1>2, <1>5 DEF Served
    <2>2. QED
      BY <2>1, ServeAt, ServeOthers DEF ThreadOK
  <1>6. ThreadOK(t)'
    <2>1. Wanted(t)' = Wanted(t)
      BY <1>3 DEF Wanted, Cursor, MakeKind, TargetKind, InsertKind
    <2>2. JobOK(t)'
      <3>1. job[t] \in Jobs
        BY <1>3, JobThere
      <3>2. QED
        BY <1>3, <2>1, <3>1 DEF JobOK
    <2>3. AnswerOK(t)'
      BY <1>1, <1>2, <2>1 DEF AnswerOK, Served
    <2>4. QED
      BY <2>2, <2>3, ServeAt DEF ThreadOK
  <1>7. QED
    BY <1>4, <1>5, <1>6 DEF Inv

-----------------------------------------------------------------------------
(* The invariant, and what follows from it *)

(* embed_existing gives a position to a path, which only MayAsk looks at.   *)
LEMMA UpgradeInv ==
  ASSUME Inv, NEW t \in Thread, Upgrade(t)
  PROVE  Inv'
  <1>1. /\ content' = content /\ call' = call /\ answer' = answer /\ pc' = pc /\ job' = job
        /\ todo' = todo /\ unlisted' = unlisted /\ removed' = removed /\ stored' = stored
        /\ due' = due
    BY DEF Upgrade, tree, history
  <1>2. Types'
    BY <1>1 DEF Inv, Types
  <1>3. \A u \in Thread : Keeps(u)
    BY <1>1 DEF Keeps
  <1>4. QED
    BY <1>1, <1>2, <1>3, KeptThread DEF Inv

LEMMA InitInv == Init => Inv
  <1> SUFFICES ASSUME Init PROVE Inv
    OBVIOUS
  <1>1. Types
    <2>1. content \in [Path -> Contents \cup {Nil}] /\ content[Root] # Nil
      BY InitiallyAssumption DEF Init, StoreInit, Contents
    <2>2. <<>> \in Seq(Path)
      OBVIOUS
    <2>3. call \in [Thread -> AnyCall] /\ answer \in [Thread -> AnyAnswer]
      BY DEF Init, StoreInit, AnyCall, AnyAnswer
    <2>4. QED
      BY <2>1, <2>2, <2>3 DEF Init, Types, Steps
  <1>2. ASSUME NEW t \in Thread PROVE ThreadOK(t)
    <2>1. /\ pc[t] = "idle" /\ job[t] = Idle /\ todo[t] = <<>> /\ unlisted[t] = {} /\ due[t] = {}
          /\ call[t] = Idle /\ answer[t] = Nil
      BY DEF Init, StoreInit
    <2>2. At(t, pc[t], todo[t])
      BY <2>1 DEF At, KindAt, TodoAt, GroundedAt, DueAt, OutcomeAt, Putting, Embedding
    <2>3. JobOK(t) /\ AnswerOK(t)
      BY <2>1 DEF JobOK, AnswerOK
    <2>4. QED
      BY <2>2, <2>3 DEF ThreadOK
  <1>3. QED
    BY <1>1, <1>2 DEF Inv

LEMMA NextInv == Inv /\ [Next]_vars => Inv'
  <1> SUFFICES ASSUME Inv, [Next]_vars PROVE Inv'
    OBVIOUS
  <1>1. CASE UNCHANGED vars
    <2>1. Types'
      BY <1>1 DEF vars, tree, history, Inv, Types
    <2>2. ASSUME NEW u \in Thread PROVE ThreadOK(u)'
      <3>1. content' = content /\ Keeps(u)
        BY <1>1 DEF vars, tree, history, Keeps
      <3>2. QED
        BY <3>1, KeptThread DEF Inv
    <2>3. QED
      BY <2>1, <2>2 DEF Inv
  <1>2. ASSUME NEW t \in Thread, Begin(t) PROVE Inv'
    BY <1>2, BeginInv
  <1>3. ASSUME NEW t \in Thread, Ask(t) PROVE Inv'
    BY <1>3, AskInv
  <1>4. ASSUME NEW t \in Thread, Serve(t) PROVE Inv'
    BY <1>4, ServeInv
  <1>5. ASSUME NEW t \in Thread, React(t) PROVE Inv'
    BY <1>5, ReactInv
  <1>6. ASSUME NEW t \in Thread, StartList(t) PROVE Inv'
    BY <1>6, StartListInv
  <1>7. ASSUME NEW t \in Thread, Listed(t) PROVE Inv'
    BY <1>7, ListedInv
  <1>8. ASSUME NEW t \in Thread, End(t) PROVE Inv'
    BY <1>8, EndInv
  <1>9. ASSUME NEW t \in Thread, NEW p \in Path, List(t, p) PROVE Inv'
    BY <1>9, ListInv
  <1>10. ASSUME NEW t \in Thread, Upgrade(t) PROVE Inv'
    BY <1>10, UpgradeInv
  <1>11. QED
    BY <1>1, <1>2, <1>3, <1>4, <1>5, <1>6, <1>7, <1>8, <1>9, <1>10 DEF Next, Step

(* Whatever jobs interleave, as far as their calls keep the rules: the     *)
(* ancestors a put has found missing are a chain up from its path; each    *)
(* step writes below or onto what is there or was removed while the job    *)
(* ran; and what an embed_all owes is there and ahead of it.               *)
THEOREM StorageInvariant == Spec => []Inv
  BY InitInv, NextInv, PTL DEF Spec

StubsOK == stubs \subseteq Path

LEMMA StubsType == Spec => []StubsOK
  <1>1. Init => StubsOK
    BY DEF Init, StubsOK
  <1>2. StubsOK /\ [Next]_vars => StubsOK'
    <2> SUFFICES ASSUME StubsOK, [Next]_vars PROVE StubsOK'
      OBVIOUS
    <2>1. CASE UNCHANGED stubs
      BY <2>1 DEF StubsOK
    <2>2. ASSUME NEW t \in Thread, Serve(t) PROVE StubsOK'
      BY <2>2 DEF Serve, Positions, StubsOK
    <2>3. ASSUME NEW t \in Thread, Upgrade(t) PROVE StubsOK'
      BY <2>3 DEF Upgrade, StubsOK
    <2>4. QED
      BY <2>1, <2>2, <2>3
         DEF Next, Step, Begin, Ask, React, StartList, Listed, End, List, vars
  <1>3. QED
    BY <1>1, <1>2, PTL DEF Spec

(* The calls on the tree are those of the steps, about paths of the store. *)
THEOREM TypeCorrect == Spec => []TypeOK
  <1>1. Inv /\ StubsOK => TypeOK
    <2> SUFFICES ASSUME Inv, StubsOK PROVE TypeOK
      OBVIOUS
    <2>1. Types /\ \A t \in Thread : JobOK(t)
      BY DEF Inv, ThreadOK
    <2>2. \A t \in Thread : \A i \in 1 .. Len(todo[t]) : todo[t][i] \in Path
      BY <2>1, ListType DEF Types
    <2>3. QED
      BY <2>1, <2>2 DEF TypeOK, StubsOK, Types, JobOK, Contents, Steps
  <1>2. QED
    BY <1>1, StorageInvariant, StubsType, PTL

(* A put that answers Ok has had its value in the map while it ran, also   *)
(* when another job won the race to insert its path: if no delete of the   *)
(* path overlaps the insert, as the rules have it.                         *)
THEOREM PutsTakeEffect == Spec => []PutTookEffect
  <1>1. Inv => PutTookEffect
    BY DEF Inv, ThreadOK, At, OutcomeAt, PutTookEffect
  <1>2. QED
    BY <1>1, StorageInvariant, PTL

(* A put or an embed_all answers NotFound only if a path that it depends   *)
(* on was removed while it ran: if nothing was ever deleted above a path   *)
(* without a position, as the rules have it.                               *)
THEOREM NotFoundIsRemoval == Spec => []NotFoundMeansRemoved
  <1>1. Inv => NotFoundMeansRemoved
    BY DEF Inv, ThreadOK, At, OutcomeAt, NotFoundMeansRemoved
  <1>2. QED
    BY <1>1, StorageInvariant, PTL

(* An embed_all that answers Ok has embedded every key under its prefix    *)
(* that was there all along, whatever came and went while it listed.       *)
THEOREM EmbedAllComplete == Spec => []EmbedAllReaches
  <1>1. Inv => EmbedAllReaches
    BY DEF Inv, ThreadOK, At, OutcomeAt, EmbedAllReaches
  <1>2. QED
    BY <1>1, StorageInvariant, PTL

(* No step puts an empty directory where a client's file is: ancestors are *)
(* inserted, which the tree refuses if the path is there, and only a put   *)
(* writes over what is there.                                              *)
LEMMA StepKeepsFiles ==
  ASSUME Inv, Next, NEW p \in Path,
         content[p] # Nil, content'[p] # Nil, content[p].val \in Value
  PROVE  content'[p].val \in Value
  <1>1. CASE content' = content
    BY <1>1
  <1>2. CASE content' # content
    <2>1. PICK t \in Thread : Serve(t)
      BY <1>2 DEF Next, Step, Begin, Ask, Upgrade, React, Respond, StartList, Listed, End, List, tree
    <2>2. /\ pc[t] \in Calling /\ pc[t] # "idle" /\ call[t] = Wanted(t) /\ Types
          /\ At(t, pc[t], todo[t])
      BY <2>1, ServeFrame
    <2>3. content \in [Path -> Contents \cup {Nil}]
      BY <2>2 DEF Types
    <2>4. CASE Insert(t)
      <3>1. content[call[t].path] = Nil
            /\ content' = [content EXCEPT ![call[t].path] = Fresh(call[t].arg)]
        BY <1>2, <2>4 DEF Insert, Says
      <3>2. content'[p] = content[p]
        BY <2>3, <3>1
      <3>3. QED
        BY <3>2
    <2>5. CASE Change(t)
      <3>1. pc[t] = "update" /\ call[t].kind = "update_value"
        BY <2>2, <2>5, WantedType DEF Change, Pending
      <3>2. call[t].arg = job[t].arg /\ job[t].kind \in Puts
        BY <2>2, <3>1, WantedIs DEF Asks, At, KindAt, Putting
      <3>3. call[t].arg \in Value
        BY <2>2, <3>2, JobThere
      <3>4. content' = [content EXCEPT ![call[t].path] = [@ EXCEPT !.val = call[t].arg]]
        BY <1>2, <2>5, <3>1 DEF Change, Says
      <3>5. CASE call[t].path = p
        <4>1. PICK c \in Contents : c = content[p]
          BY <2>3
        <4>2. PICK v \in Value : v = call[t].arg
          BY <3>3
        <4>3. content'[p] = [c EXCEPT !.val = v]
          BY <2>3, <3>4, <3>5, <4>1, <4>2
        <4>4. QED
          BY <4>2, <4>3, ContentType
      <3>6. CASE call[t].path # p
        BY <2>3, <3>4, <3>6
      <3>7. QED
        BY <3>5, <3>6
    <2>6. CASE Delete(t)
      <3>1. content' = [content EXCEPT ![call[t].path] = Nil]
        BY <1>2, <2>6 DEF Delete, Says
      <3>2. content'[p] = content[p]
        BY <2>3, <3>1
      <3>3. QED
        BY <3>2
    <2>7. CASE Get(t) \/ Embed(t)
      BY <1>2, <2>7 DEF Get, Embed, Says
    <2>8. QED
      BY <2>1, <2>4, <2>5, <2>6, <2>7 DEF Serve
  <1>3. QED
    BY <1>1, <1>2

(* A file does not turn into a directory while it lives, whatever puts     *)
(* race below it: if its path is not made in both kinds at once, as the    *)
(* rules have it.                                                          *)
THEOREM FilesStay == Spec => FilesSurvive
  <1> DEFINE Stays == \A p \in Path :
        content[p] # Nil /\ content'[p] # Nil /\ content[p].val \in Value =>
          content'[p].val \in Value
  <1>1. Inv /\ [Next]_vars => [Stays]_vars
    <2> SUFFICES ASSUME Inv, Next PROVE Stays
      OBVIOUS
    <2>1. QED
      BY StepKeepsFiles
  <1> HIDE DEF Stays
  <1>2. Spec => [][Stays]_vars
    BY <1>1, StorageInvariant, PTL DEF Spec
  <1>3. QED
    BY <1>2 DEF FilesSurvive, Stays

==============================================================================
