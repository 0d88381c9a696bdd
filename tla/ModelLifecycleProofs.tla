-------------------------- MODULE ModelLifecycleProofs --------------------------
(***************************************************************************)
(* Proofs about the models from training to use, for every number of       *)
(* training runs, every grade they get and every moment at which a process *)
(* is killed: the files of the XGBoost models (ModelArtifacts), the        *)
(* downloaded weights (WeightDownload) and the autoencoder (LatentModel).  *)
(***************************************************************************)
EXTENDS ModelArtifacts, WeightDownload, LatentModel, SequenceTheorems,
        WellFoundedInduction, TLAPS

(* Short sequences are what they are made of.                              *)
LEMMA AreTwo ==
  ASSUME NEW S, NEW s \in Seq(S), Len(s) = 2
  PROVE  s = <<s[1], s[2]>>
OBVIOUS

LEMMA AreThree ==
  ASSUME NEW S, NEW s \in Seq(S), Len(s) = 3
  PROVE  s = <<s[1], s[2], s[3]>>
OBVIOUS

LEMMA AreFour ==
  ASSUME NEW S, NEW s \in Seq(S), Len(s) = 4
  PROVE  s = <<s[1], s[2], s[3], s[4]>>
OBVIOUS

LEMMA JoinTwo ==
  ASSUME NEW a, NEW b
  PROVE  <<a>> \o <<b>> = <<a, b>>
<1> DEFINE S == {a, b}
           u == <<a>>
           v == <<b>>
           t == u \o v
<1>1. /\ u \in Seq(S) /\ v \in Seq(S) /\ Len(u) = 1 /\ Len(v) = 1
      /\ u[1] = a /\ v[1] = b
  OBVIOUS
<1> HIDE DEF S, u, v
<1>2. /\ t \in Seq(S) /\ Len(t) = 2
      /\ t[1] = a /\ t[2] = b
  <2>1. /\ t \in Seq(S) /\ Len(t) = Len(u) + Len(v)
        /\ \A i \in 1..Len(u) + Len(v) : t[i] = IF i <= Len(u) THEN u[i] ELSE v[i - Len(u)]
    BY <1>1, ConcatProperties
  <2> HIDE DEF t
  <2> QED
    BY <1>1, <2>1
<1> HIDE DEF t
<1>3. t = <<t[1], t[2]>>
  BY <1>2, AreTwo
<1> QED
  BY <1>2, <1>3 DEF t, u, v

LEMMA JoinThree ==
  ASSUME NEW a, NEW b, NEW c
  PROVE  <<a>> \o <<b, c>> = <<a, b, c>>
<1> DEFINE S == {a, b, c}
           u == <<a>>
           v == <<b, c>>
           t == u \o v
<1>1. /\ u \in Seq(S) /\ v \in Seq(S) /\ Len(u) = 1 /\ Len(v) = 2
      /\ u[1] = a /\ v[1] = b /\ v[2] = c
  OBVIOUS
<1> HIDE DEF S, u, v
<1>2. /\ t \in Seq(S) /\ Len(t) = 3
      /\ t[1] = a /\ t[2] = b /\ t[3] = c
  <2>1. /\ t \in Seq(S) /\ Len(t) = Len(u) + Len(v)
        /\ \A i \in 1..Len(u) + Len(v) : t[i] = IF i <= Len(u) THEN u[i] ELSE v[i - Len(u)]
    BY <1>1, ConcatProperties
  <2> HIDE DEF t
  <2> QED
    BY <1>1, <2>1
<1> HIDE DEF t
<1>3. t = <<t[1], t[2], t[3]>>
  BY <1>2, AreThree
<1> QED
  BY <1>2, <1>3 DEF t, u, v

LEMMA JoinFour ==
  ASSUME NEW a, NEW b, NEW c, NEW d
  PROVE  <<a>> \o <<b, c, d>> = <<a, b, c, d>>
<1> DEFINE S == {a, b, c, d}
           u == <<a>>
           v == <<b, c, d>>
           t == u \o v
<1>1. /\ u \in Seq(S) /\ v \in Seq(S) /\ Len(u) = 1 /\ Len(v) = 3
      /\ u[1] = a /\ v[1] = b /\ v[2] = c /\ v[3] = d
  OBVIOUS
<1> HIDE DEF S, u, v
<1>2. /\ t \in Seq(S) /\ Len(t) = 4
      /\ t[1] = a /\ t[2] = b /\ t[3] = c /\ t[4] = d
  <2>1. /\ t \in Seq(S) /\ Len(t) = Len(u) + Len(v)
        /\ \A i \in 1..Len(u) + Len(v) : t[i] = IF i <= Len(u) THEN u[i] ELSE v[i - Len(u)]
    BY <1>1, ConcatProperties
  <2> HIDE DEF t
  <2> QED
    BY <1>1, <2>1
<1> HIDE DEF t
<1>3. t = <<t[1], t[2], t[3], t[4]>>
  BY <1>2, AreFour
<1> QED
  BY <1>2, <1>3 DEF t, u, v

-----------------------------------------------------------------------------
(* The files of the models.                                                *)

(* What a save has still to write: the rest of the list it began with.     *)
Saves(m) ==
  {<<>>, <<"metrics">>}
    \cup IF m = "A" THEN {<<"json", "metrics">>, <<"pkl", "json", "metrics">>}
         ELSE {<<"meta", "metrics">>, <<"json", "meta", "metrics">>,
               <<"pkl", "json", "meta", "metrics">>}

Copies == {<<>>, <<"A">>, <<"B">>, <<"A", "B">>}
Contents == -1..Len(grades)
Report == [ver : 0..Len(grades), pass : BOOLEAN]

TrainerTypes ==
  /\ grades \in Seq(Grades)
  /\ disk \in [Models -> [FileKinds -> Contents]]
  /\ trainer \in [m : Models, ver : 0..Len(grades), todo : Saves("A") \cup Saves("B"),
                  open : BOOLEAN]
  /\ trainer.todo \in Saves(trainer.m)

(* Only the newest model is being saved, its model file before the files   *)
(* that tell about it.                                                     *)
SavedInOrder ==
  Training =>
    /\ trainer.ver = Len(grades) /\ trainer.ver > 0
    /\ trainer.todo \in {<<"metrics">>, <<"meta", "metrics">>} =>
         disk[trainer.m]["json"] = trainer.ver

(* The metadata of B is that of the model beside it, except during a save  *)
(* and after one that was cut short.                                       *)
MetaFits ==
  "B" \notin cut /\ ~Saving("B") /\ Whole(disk["B"]["json"]) =>
    disk["B"]["meta"] = disk["B"]["json"]

TrainerInv == TrainerTypes /\ SavedInOrder /\ MetaFits /\ MetricsNotAhead

ReportTypes ==
  /\ prod \in [Models -> Contents] /\ approved \in [Models -> 0..Len(grades)]
  /\ evaluator \in [report : [Models -> Report], todo : Copies, open : BOOLEAN]

(* A report is about a model that existed, and the file it was about is    *)
(* only replaced by later models.  What is to be copied has passed.        *)
ReportsHold ==
  \A m \in Models :
    /\ Evaluated(m) =>
         /\ evaluator.report[m].ver > 0
         /\ evaluator.report[m].pass => ShouldDeploy(m, grades[evaluator.report[m].ver])
         /\ Whole(disk[m]["json"]) => disk[m]["json"] >= evaluator.report[m].ver
    /\ m \in ToSet(evaluator.todo) => evaluator.report[m].pass

(* Nobody reports about, or saves, a model older than the approved one.    *)
ApprovedIsPast ==
  \A m \in Models :
    /\ Evaluated(m) => evaluator.report[m].ver >= approved[m]
    /\ Whole(disk[m]["json"]) => disk[m]["json"] >= approved[m]

ReportInv == ReportTypes /\ ReportsHold /\ ProductionApproved /\ ApprovedIsPast

(* Who is between the two files of a load has a whole model.               *)
LoadingIsWhole ==
  /\ server \in [ver : Int, theta : Int, loading : {"models", "production", NoLoad}]
  /\ server.loading # NoLoad => Whole(server.ver)

ArtifactsInv == TrainerInv /\ ReportInv /\ LoadingIsWhole

(* The lists by name; they differ in length, or in their first file.       *)
S0 == <<>>
S1 == <<"metrics">>
S2 == <<"meta", "metrics">>
A2 == <<"json", "metrics">>
A3 == <<"pkl", "json", "metrics">>
B3 == <<"json", "meta", "metrics">>
B4 == <<"pkl", "json", "meta", "metrics">>

LEMMA SaveLists ==
  /\ Saves("A") = {S0, S1, A2, A3} /\ Saves("B") = {S0, S1, S2, B3, B4}
  /\ Head(S1) = "metrics" /\ Head(S2) = "meta" /\ Head(A2) = "json" /\ Head(B3) = "json"
  /\ Head(A3) = "pkl" /\ Head(B4) = "pkl"
  /\ Tail(S1) = S0 /\ Tail(S2) = S1 /\ Tail(A2) = S1 /\ Tail(A3) = A2 /\ Tail(B3) = S2
  /\ Tail(B4) = B3
  /\ S1 # S0 /\ S2 # S0 /\ A2 # S0 /\ A3 # S0 /\ B3 # S0 /\ B4 # S0
<1>1. Saves("A") = {S0, S1, A2, A3}
  BY DEF Saves, S0, S1, A2, A3
<1>2. Saves("B") = {S0, S1, S2, B3, B4}
  BY DEF Saves, S0, S1, S2, B3, B4
<1>3. /\ Head(S1) = "metrics" /\ Head(S2) = "meta" /\ Head(A2) = "json" /\ Head(B3) = "json"
      /\ Head(A3) = "pkl" /\ Head(B4) = "pkl"
  BY DEF S1, S2, A2, A3, B3, B4
<1>4. /\ Tail(S1) = S0 /\ Tail(S2) = S1 /\ Tail(A2) = S1 /\ Tail(A3) = A2 /\ Tail(B3) = S2
      /\ Tail(B4) = B3
  BY DEF S0, S1, S2, A2, A3, B3, B4
<1>5. /\ S1 # S0 /\ S2 # S0 /\ A2 # S0 /\ A3 # S0 /\ B3 # S0 /\ B4 # S0
  BY DEF S0, S1, S2, A2, A3, B3, B4
<1> QED
  BY <1>1, <1>2, <1>3, <1>4, <1>5

LEMMA SaveList ==
  ASSUME NEW m \in Models, NEW s \in Saves(m), s # S0
  PROVE  /\ Head(s) \in FileKinds /\ Tail(s) \in Saves(m)
         /\ Head(s) = "pkl" => Tail(s) # S0 /\ Tail(s) # S1 /\ Tail(s) # S2
                               /\ Head(Tail(s)) = "json"
         /\ Head(s) = "json" /\ m = "B" => Tail(s) = S2
         /\ Head(s) = "meta" => m = "B" /\ s = S2
         /\ Head(s) = "metrics" => s = S1
BY SaveLists DEF FileKinds, Models

LEMMA NewSave ==
  ASSUME NEW m \in Models, NEW c \in BOOLEAN
  PROVE  /\ FilesToWrite(m, c) \in Saves(m)
         /\ FilesToWrite(m, c) \notin {S0, S1, S2}
         /\ Head(FilesToWrite(m, c)) # "meta"
<1>1. /\ FilesToWrite("A", TRUE) = A3 /\ FilesToWrite("A", FALSE) = A2
      /\ FilesToWrite("B", TRUE) = B4 /\ FilesToWrite("B", FALSE) = B3
  <2>1. /\ FilesToWrite("A", TRUE) = <<"pkl">> \o A2 /\ FilesToWrite("A", FALSE) = <<>> \o A2
        /\ FilesToWrite("B", TRUE) = <<"pkl">> \o B3 /\ FilesToWrite("B", FALSE) = <<>> \o B3
    BY DEF FilesToWrite, A2, B3
  <2>2. <<>> \o A2 = A2 /\ <<>> \o B3 = B3
    BY DEF A2, B3
  <2>3. <<"pkl">> \o A2 = A3
    BY JoinThree DEF A2, A3
  <2>4. <<"pkl">> \o B3 = B4
    BY JoinFour DEF B3, B4
  <2> QED
    BY <2>1, <2>2, <2>3, <2>4
<1> QED
  BY <1>1, SaveLists DEF Models

-----------------------------------------------------------------------------
(* Training.                                                               *)
LEMMA GradesGrow ==
  ASSUME NEW g \in Grades, grades \in Seq(Grades), grades' = Append(grades, g)
  PROVE  /\ grades' \in Seq(Grades) /\ Len(grades) \in Nat /\ Len(grades') = Len(grades) + 1
         /\ \A v \in 1..Len(grades) : grades'[v] = grades[v]
         /\ Contents \subseteq Contents' /\ 0..Len(grades) \subseteq 0..Len(grades')
         /\ Len(grades) + 1 \in 0..Len(grades')
<1>1. /\ grades' \in Seq(Grades) /\ Len(grades) \in Nat /\ Len(grades') = Len(grades) + 1
      /\ \A v \in 1..Len(grades) : grades'[v] = grades[v]
  BY AppendProperties, LenProperties
<1> QED
  BY <1>1 DEF Contents

LEMMA FitInv ==
  ASSUME TrainerInv, NEW m \in Models, Fit(m)
  PROVE  TrainerInv'
<1>1. PICK g \in Grades : grades' = Append(grades, g)
  BY DEF Fit
<1>2. PICK c \in BOOLEAN : trainer' = [m |-> m, ver |-> Len(grades) + 1,
                                       todo |-> FilesToWrite(m, c), open |-> FALSE]
  BY DEF Fit
<1>3. disk' = disk /\ cut' = cut /\ ~Training
  BY DEF Fit
<1>4. /\ grades' \in Seq(Grades) /\ Len(grades) \in Nat /\ Len(grades') = Len(grades) + 1
      /\ Contents \subseteq Contents'
      /\ Len(grades) + 1 \in 0..Len(grades')
  BY <1>1, GradesGrow DEF TrainerInv, TrainerTypes
<1>5. /\ FilesToWrite(m, c) \in Saves(m) /\ FilesToWrite(m, c) \notin {S0, S1, S2}
      /\ Head(FilesToWrite(m, c)) # "meta"
  BY NewSave
<1>6. /\ trainer'.m = m /\ trainer'.ver = Len(grades') /\ trainer'.open = FALSE
      /\ trainer'.todo = FilesToWrite(m, c) /\ trainer'.ver > 0
  BY <1>2, <1>4
<1>7. Saves(m) \subseteq Saves("A") \cup Saves("B")
  BY DEF Models
<1>8. TrainerTypes'
  <2>1. disk' \in [Models -> [FileKinds -> Contents']]
    BY <1>3, <1>4 DEF TrainerInv, TrainerTypes
  <2>2. trainer' \in [m : Models, ver : 0..Len(grades'), todo : Saves("A") \cup Saves("B"),
                      open : BOOLEAN]
    BY <1>2, <1>4, <1>5, <1>7
  <2> QED
    BY <1>4, <1>5, <1>6, <2>1, <2>2 DEF TrainerTypes
<1>9. SavedInOrder'
  BY <1>5, <1>6 DEF SavedInOrder, S1, S2
<1>10. ~Saving("B") /\ ~Saving("B")'
  <2>1. ~Saving("B")
    BY <1>3 DEF Saving
  <2>2. ~Saving("B")'
    BY <1>5, <1>6 DEF Saving
  <2> QED
    BY <2>1, <2>2
<1>11. MetaFits' /\ MetricsNotAhead'
  BY <1>3, <1>10 DEF TrainerInv, MetaFits, MetricsNotAhead
<1> QED
  BY <1>8, <1>9, <1>11 DEF TrainerInv

LEMMA OpenFileInv ==
  ASSUME TrainerInv, OpenFile
  PROVE  TrainerInv'
<1> DEFINE m == trainer.m
           kind == Head(trainer.todo)
<1>1. /\ trainer.todo # S0 /\ m \in Models /\ trainer.todo \in Saves(m)
      /\ trainer' = [trainer EXCEPT !.open = TRUE]
      /\ disk' = [disk EXCEPT ![m][kind] = Torn]
      /\ UNCHANGED <<grades, cut>>
  BY DEF OpenFile, Training, TrainerInv, TrainerTypes, S0
<1>2. /\ kind \in FileKinds
      /\ trainer.todo = S2 \/ trainer.todo = S1 => kind # "json"
      /\ kind = "meta" => m = "B"
  BY <1>1, SaveList, SaveLists
<1>3. /\ trainer'.m = m /\ trainer'.ver = trainer.ver /\ trainer'.todo = trainer.todo
      /\ trainer'.open = TRUE
      /\ trainer' \in [m : Models, ver : 0..Len(grades), todo : Saves("A") \cup Saves("B"),
                       open : BOOLEAN]
  BY <1>1 DEF TrainerInv, TrainerTypes
<1> HIDE DEF m, kind
<1>4. Torn \in Contents /\ ~Whole(Torn)
  BY LenProperties DEF Torn, Contents, Whole, TrainerInv, TrainerTypes
<1>5. /\ disk' \in [Models -> [FileKinds -> Contents]]
      /\ \A n \in Models, k \in FileKinds :
           disk'[n][k] = IF n = m /\ k = kind THEN Torn ELSE disk[n][k]
  BY <1>1, <1>2, <1>4 DEF TrainerInv, TrainerTypes
<1>6. {"json", "meta", "metrics"} \subseteq FileKinds /\ "B" \in Models
  BY DEF FileKinds, Models
<1>7. TrainerTypes'
  <2>1. Contents' = Contents
    BY <1>1 DEF Contents
  <2> QED
    BY <1>1, <1>3, <1>5, <2>1 DEF TrainerTypes, TrainerInv, m
<1>8. SavedInOrder'
  BY <1>1, <1>2, <1>3, <1>5, <1>6 DEF SavedInOrder, TrainerInv, Training, S1, S2, m
<1>9. MetaFits'
  <2>1. CASE m = "B" /\ (kind = "json" \/ kind = "meta")
    <3>1. Saving("B")'
      BY <1>1, <1>3, <2>1 DEF Saving, Training, S0, m, kind
    <3> QED
      BY <3>1 DEF MetaFits
  <2>2. CASE ~(m = "B" /\ (kind = "json" \/ kind = "meta"))
    <3>1. disk'["B"]["json"] = disk["B"]["json"] /\ disk'["B"]["meta"] = disk["B"]["meta"]
      BY <1>5, <1>6, <2>2
    <3>2. Saving("B") <=> Saving("B")'
      BY <1>1, <1>3, <2>2 DEF Saving, Training, S0, m, kind
    <3> QED
      BY <1>1, <3>1, <3>2 DEF TrainerInv, MetaFits
  <2> QED
    BY <2>1, <2>2
<1>10. MetricsNotAhead'
  BY <1>4, <1>5, <1>6 DEF TrainerInv, MetricsNotAhead
<1> QED
  BY <1>7, <1>8, <1>9, <1>10 DEF TrainerInv

LEMMA CloseFileInv ==
  ASSUME TrainerInv, CloseFile
  PROVE  TrainerInv'
<1> DEFINE m == trainer.m
           kind == Head(trainer.todo)
           ver == trainer.ver
<1>1. /\ trainer.todo # S0 /\ m \in Models /\ trainer.todo \in Saves(m)
      /\ trainer' = [trainer EXCEPT !.open = FALSE, !.todo = Tail(@)]
      /\ disk' = [disk EXCEPT ![m][kind] = ver]
      /\ cut' = IF kind = "meta" THEN cut \ {m} ELSE cut
      /\ grades' = grades
  BY DEF CloseFile, Training, TrainerInv, TrainerTypes, S0
<1>2. /\ kind \in FileKinds /\ Tail(trainer.todo) \in Saves(m)
      /\ kind = "pkl" => Tail(trainer.todo) \notin {S0, S1, S2} /\ Head(Tail(trainer.todo)) = "json"
      /\ kind = "json" /\ m = "B" => Tail(trainer.todo) = S2
      /\ kind = "meta" => m = "B" /\ trainer.todo = S2
      /\ kind = "metrics" => trainer.todo = S1
  BY <1>1, SaveList
<1>3. /\ trainer'.m = m /\ trainer'.ver = ver /\ trainer'.todo = Tail(trainer.todo)
      /\ trainer'.open = FALSE
  BY <1>1 DEF TrainerInv, TrainerTypes
<1>4. /\ ver = Len(grades) /\ ver > 0
      /\ trainer.todo = S1 \/ trainer.todo = S2 => disk[m]["json"] = ver
  BY <1>1 DEF TrainerInv, SavedInOrder, Training, S0, S1, S2
<1>5. Saves(m) \subseteq Saves("A") \cup Saves("B")
  BY <1>1 DEF Models
<1>6. trainer' \in [m : Models, ver : 0..Len(grades), todo : Saves("A") \cup Saves("B"),
                    open : BOOLEAN]
  BY <1>1, <1>2, <1>5 DEF TrainerInv, TrainerTypes
<1> HIDE DEF m, kind, ver
<1>7. ver \in Contents /\ Len(grades) \in Nat /\ Contents' = Contents
  BY <1>1, <1>4, LenProperties DEF Contents, TrainerInv, TrainerTypes
<1>8. /\ disk' \in [Models -> [FileKinds -> Contents]]
      /\ \A n \in Models, k \in FileKinds :
           disk'[n][k] = IF n = m /\ k = kind THEN ver ELSE disk[n][k]
  BY <1>1, <1>2, <1>7 DEF TrainerInv, TrainerTypes
<1>9. {"json", "meta", "metrics"} \subseteq FileKinds /\ "B" \in Models
  BY DEF FileKinds, Models
<1>10. TrainerTypes'
  BY <1>1, <1>2, <1>3, <1>6, <1>7, <1>8 DEF TrainerTypes, TrainerInv
<1>11. SavedInOrder'
  <2>1. ASSUME trainer'.todo = S1 \/ trainer'.todo = S2 PROVE disk'[m]["json"] = ver
    <3>1. kind # "pkl" /\ kind # "metrics"
      BY <1>2, <1>3, <2>1, SaveLists
    <3>2. CASE kind = "json"
      BY <1>1, <1>8, <1>9, <3>2
    <3>3. CASE kind = "meta"
      BY <1>1, <1>2, <1>4, <1>8, <1>9, <3>3
    <3> QED
      BY <1>2, <3>1, <3>2, <3>3 DEF FileKinds
  <2> QED
    BY <1>1, <1>3, <1>4, <2>1 DEF SavedInOrder, S1, S2
<1>12. MetaFits'
  <2>1. CASE kind = "json" /\ m = "B"
    <3>1. Saving("B")'
      BY <1>2, <1>3, <2>1, SaveLists DEF Saving, Training, S0
    <3> QED
      BY <3>1 DEF MetaFits
  <2>2. CASE kind = "meta"
    <3>1. disk'["B"]["meta"] = ver /\ disk'["B"]["json"] = ver
      BY <1>1, <1>2, <1>4, <1>8, <1>9, <2>2
    <3> QED
      BY <3>1 DEF MetaFits
  <2>3. CASE kind # "meta" /\ ~(kind = "json" /\ m = "B")
    <3>1. /\ disk'["B"]["json"] = disk["B"]["json"] /\ disk'["B"]["meta"] = disk["B"]["meta"]
          /\ cut' = cut
      BY <1>1, <1>8, <1>9, <2>3
    <3>2. ~Saving("B")
      BY <2>3 DEF Saving, m, kind
    <3> QED
      BY <3>1, <3>2 DEF TrainerInv, MetaFits
  <2> QED
    BY <2>1, <2>2, <2>3
<1>13. MetricsNotAhead'
  <2> SUFFICES ASSUME NEW n \in Models, Whole(disk'[n]["metrics"]), Whole(disk'[n]["json"])
               PROVE  disk'[n]["metrics"] <= disk'[n]["json"]
    BY DEF MetricsNotAhead
  <2>1. disk[n]["metrics"] \in Contents
    BY <1>9 DEF TrainerInv, TrainerTypes
  <2>2. disk[n]["metrics"] <= ver
    BY <1>4, <1>7, <2>1 DEF Contents
  <2>3. CASE n = m /\ kind = "json"
    BY <1>8, <1>9, <2>2, <2>3
  <2>4. CASE n = m /\ kind = "metrics"
    <3>1. disk'[n]["metrics"] = ver /\ disk'[n]["json"] = ver
      BY <1>2, <1>4, <1>8, <1>9, <2>4
    <3> QED
      BY <1>4, <1>7, <3>1
  <2>5. CASE n # m \/ kind \notin {"json", "metrics"}
    <3>1. disk'[n]["metrics"] = disk[n]["metrics"] /\ disk'[n]["json"] = disk[n]["json"]
      BY <1>8, <1>9, <2>5
    <3> QED
      BY <3>1 DEF TrainerInv, MetricsNotAhead
  <2> QED
    BY <2>3, <2>4, <2>5
<1> QED
  BY <1>10, <1>11, <1>12, <1>13 DEF TrainerInv

LEMMA KillTrainerInv ==
  ASSUME TrainerInv, KillTrainer
  PROVE  TrainerInv'
<1>1. /\ trainer' = NoTrainer /\ UNCHANGED <<disk, grades>>
      /\ cut' = IF Saving(trainer.m) /\ trainer.m = "B" THEN cut \cup {"B"} ELSE cut
  BY DEF KillTrainer
<1>2. trainer'.todo = <<>> /\ trainer'.m = "A"
  BY <1>1 DEF NoTrainer
<1>3. TrainerTypes'
  <2>1. trainer' \in [m : Models, ver : 0..Len(grades), todo : Saves("A") \cup Saves("B"),
                      open : BOOLEAN]
    BY <1>1, LenProperties DEF NoTrainer, Models, Saves, TrainerInv, TrainerTypes
  <2> QED
    BY <1>1, <1>2, <2>1 DEF TrainerTypes, TrainerInv, Saves, Contents
<1>4. SavedInOrder'
  BY <1>2 DEF SavedInOrder, Training
<1>5. Saving("B") => "B" \in cut'
  BY <1>1 DEF Saving
<1>6. cut \subseteq cut'
  BY <1>1
<1>7. MetaFits' /\ MetricsNotAhead'
  BY <1>1, <1>5, <1>6 DEF TrainerInv, MetaFits, MetricsNotAhead
<1> QED
  BY <1>3, <1>4, <1>7 DEF TrainerInv

(* What the other processes see of a step of the training run.             *)
LEMMA TrainerMoves ==
  ASSUME TrainerInv, (\E m \in Models : Fit(m)) \/ OpenFile \/ CloseFile \/ KillTrainer
  PROVE  /\ UNCHANGED <<prod, approved, evaluator, server>>
         /\ Len(grades) <= Len(grades') /\ Contents \subseteq Contents'
         /\ \A v \in 1..Len(grades) : grades'[v] = grades[v]
         /\ \A m \in Models : Whole(disk'[m]["json"]) =>
              disk'[m]["json"] = disk[m]["json"] \/ disk'[m]["json"] = Len(grades)
<1>1. UNCHANGED <<prod, approved, evaluator, server>>
  BY DEF Fit, OpenFile, CloseFile, KillTrainer
<1>2. Len(grades) \in Nat
  BY LenProperties DEF TrainerInv, TrainerTypes
<1>3. CASE \E m \in Models : Fit(m)
  <2>1. disk' = disk /\ \E g \in Grades : grades' = Append(grades, g)
    BY <1>3 DEF Fit
  <2> QED
    BY <1>1, <1>2, <2>1, GradesGrow DEF TrainerInv, TrainerTypes
<1>4. CASE OpenFile
  <2>1. grades' = grades /\ disk' = [disk EXCEPT ![trainer.m][Head(trainer.todo)] = Torn]
    BY <1>4 DEF OpenFile
  <2>2. \A m \in Models : disk'[m]["json"] = disk[m]["json"] \/ disk'[m]["json"] = Torn
    BY <2>1 DEF TrainerInv, TrainerTypes, FileKinds
  <2> QED
    BY <1>1, <1>2, <2>1, <2>2 DEF Contents, Whole, Torn
<1>5. CASE CloseFile
  <2>1. /\ grades' = grades /\ trainer.ver = Len(grades)
        /\ disk' = [disk EXCEPT ![trainer.m][Head(trainer.todo)] = trainer.ver]
    BY <1>5 DEF CloseFile, TrainerInv, SavedInOrder
  <2>2. \A m \in Models : disk'[m]["json"] = disk[m]["json"] \/ disk'[m]["json"] = Len(grades)
    BY <2>1 DEF TrainerInv, TrainerTypes, FileKinds
  <2> QED
    BY <1>1, <1>2, <2>1, <2>2 DEF Contents
<1>6. CASE KillTrainer
  BY <1>1, <1>2, <1>6 DEF KillTrainer, Contents
<1> QED
  BY <1>3, <1>4, <1>5, <1>6

-----------------------------------------------------------------------------
(* Evaluation and deployment.                                              *)
LEMMA CopyLists ==
  /\ ToSet(<<>>) = {} /\ ToSet(<<"A">>) = {"A"} /\ ToSet(<<"B">>) = {"B"}
  /\ ToSet(<<"A", "B">>) = {"A", "B"}
  /\ \A s \in Copies : s # <<>> =>
       /\ Head(s) \in Models /\ Head(s) \in ToSet(s)
       /\ Tail(s) \in Copies /\ ToSet(Tail(s)) \subseteq ToSet(s)
<1>1. /\ ToSet(<<>>) = {} /\ ToSet(<<"A">>) = {"A"} /\ ToSet(<<"B">>) = {"B"}
      /\ ToSet(<<"A", "B">>) = {"A", "B"}
  BY DEF ToSet
<1>2. /\ Head(<<"A">>) = "A" /\ Head(<<"B">>) = "B" /\ Head(<<"A", "B">>) = "A"
      /\ Tail(<<"A">>) = <<>> /\ Tail(<<"B">>) = <<>> /\ Tail(<<"A", "B">>) = <<"B">>
  OBVIOUS
<1> QED
  BY <1>1, <1>2 DEF Copies, Models

LEMMA NewCopies ==
  ASSUME NEW a, NEW b,
         a = <<>> \/ a = <<"A">>, b = <<>> \/ b = <<"B">>
  PROVE  /\ a \o b \in Copies
         /\ "A" \in ToSet(a \o b) => a = <<"A">>
         /\ "B" \in ToSet(a \o b) => b = <<"B">>
<1>1. /\ <<>> \o <<>> = <<>> /\ <<"A">> \o <<>> = <<"A">> /\ <<>> \o <<"B">> = <<"B">>
  OBVIOUS
<1>2. <<"A">> \o <<"B">> = <<"A", "B">>
  BY JoinTwo
<1>3. /\ <<>> # <<"A">> /\ <<>> # <<"B">> /\ "A" # "B"
  OBVIOUS
<1> QED
  BY <1>1, <1>2, <1>3, CopyLists DEF Copies

(* The report about a model is none, or of one that existed.               *)
LEMMA NoReports ==
  /\ evaluator = NoEvaluator => /\ \A m \in Models : ~Evaluated(m)
                                /\ evaluator.todo = <<>>
  /\ \A m \in Models : evaluator.report[m].pass => Evaluated(m)
<1>1. evaluator = NoEvaluator => /\ \A m \in Models : ~Evaluated(m)
                                 /\ evaluator.todo = <<>>
  BY DEF NoEvaluator, Evaluated
<1>2. ASSUME NEW m \in Models, evaluator.report[m].pass PROVE Evaluated(m)
  <2>1. NoReport.pass = FALSE
    BY DEF NoReport
  <2> QED
    BY <1>2, <2>1 DEF Evaluated
<1> QED
  BY <1>1, <1>2

LEMMA TrainingKeepsReports ==
  ASSUME TrainerInv, ReportInv,
         (\E m \in Models : Fit(m)) \/ OpenFile \/ CloseFile \/ KillTrainer
  PROVE  ReportInv'
<1>1. /\ UNCHANGED <<prod, approved, evaluator>>
      /\ Len(grades) <= Len(grades') /\ Contents \subseteq Contents'
      /\ \A v \in 1..Len(grades) : grades'[v] = grades[v]
      /\ \A m \in Models : Whole(disk'[m]["json"]) =>
           disk'[m]["json"] = disk[m]["json"] \/ disk'[m]["json"] = Len(grades)
  BY TrainerMoves
<1>2. Len(grades) \in Nat /\ Len(grades') \in Nat
  <2>1. TrainerTypes' /\ TrainerTypes
    BY FitInv, OpenFileInv, CloseFileInv, KillTrainerInv DEF TrainerInv
  <2> QED
    BY <2>1, LenProperties DEF TrainerTypes
<1>3. 0..Len(grades) \subseteq 0..Len(grades')
  BY <1>1, <1>2
<1>4. Report \subseteq Report'
  BY <1>3 DEF Report
<1>5. ReportTypes'
  <2>1. prod' \in [Models -> Contents'] /\ approved' \in [Models -> 0..Len(grades')]
    BY <1>1, <1>3 DEF ReportInv, ReportTypes
  <2>2. evaluator' \in [report : [Models -> Report'], todo : Copies, open : BOOLEAN]
    BY <1>1, <1>4 DEF ReportInv, ReportTypes
  <2> QED
    BY <2>1, <2>2 DEF ReportTypes
<1>6. \A m \in Models : /\ evaluator.report[m].ver \in 0..Len(grades)
                        /\ approved[m] \in 0..Len(grades) /\ prod[m] \in Contents
  BY DEF ReportInv, ReportTypes, Report
<1>7. ReportsHold'
  <2> SUFFICES ASSUME NEW m \in Models, Evaluated(m)
               PROVE  LET v == evaluator.report[m].ver IN
                      /\ v > 0 /\ evaluator.report[m].pass => ShouldDeploy(m, grades'[v])
                      /\ Whole(disk'[m]["json"]) => disk'[m]["json"] >= v
    BY <1>1 DEF ReportsHold, ReportInv, Evaluated
  <2> DEFINE v == evaluator.report[m].ver
  <2>1. /\ v > 0 /\ v \in 1..Len(grades)
        /\ evaluator.report[m].pass => ShouldDeploy(m, grades[v])
        /\ Whole(disk[m]["json"]) => disk[m]["json"] >= v
    BY <1>2, <1>6 DEF ReportInv, ReportsHold
  <2>2. grades'[v] = grades[v]
    BY <1>1, <2>1
  <2>3. Whole(disk'[m]["json"]) => disk'[m]["json"] >= v
    BY <1>1, <1>2, <2>1
  <2> QED
    BY <2>1, <2>2, <2>3
<1>8. ProductionApproved'
  <2> SUFFICES ASSUME NEW m \in Models, Whole(prod[m])
               PROVE  /\ Whole(approved[m])
                      /\ (m = "A" => grades'[approved[m]].ic)
                      /\ grades'[approved[m]].brier /\ grades'[approved[m]].ece
                      /\ prod[m] >= approved[m]
    BY <1>1 DEF ProductionApproved
  <2>1. /\ Whole(approved[m])
        /\ (m = "A" => grades[approved[m]].ic)
        /\ grades[approved[m]].brier /\ grades[approved[m]].ece
        /\ prod[m] >= approved[m]
    BY DEF ReportInv, ProductionApproved
  <2>2. approved[m] \in 1..Len(grades)
    BY <1>2, <1>6, <2>1 DEF Whole
  <2>3. grades'[approved[m]] = grades[approved[m]]
    BY <1>1, <2>2
  <2> QED
    BY <2>1, <2>3
<1>9. ApprovedIsPast'
  <2> SUFFICES ASSUME NEW m \in Models
               PROVE  /\ Evaluated(m) => evaluator.report[m].ver >= approved[m]
                      /\ Whole(disk'[m]["json"]) => disk'[m]["json"] >= approved[m]
    BY <1>1 DEF ApprovedIsPast, Evaluated
  <2>1. /\ Evaluated(m) => evaluator.report[m].ver >= approved[m]
        /\ Whole(disk[m]["json"]) => disk[m]["json"] >= approved[m]
    BY DEF ReportInv, ApprovedIsPast
  <2>2. approved[m] <= Len(grades)
    BY <1>2, <1>6
  <2> QED
    BY <1>1, <1>2, <2>1, <2>2
<1> QED
  BY <1>5, <1>7, <1>8, <1>9 DEF ReportInv

LEMMA EvaluateInv ==
  ASSUME TrainerInv, ReportInv, NEW m \in Models, Evaluate(m)
  PROVE  ReportInv'
<1> DEFINE v == disk[m]["json"]
           r == [ver |-> v, pass |-> ShouldDeploy(m, grades[v])]
<1>1. UNCHANGED <<disk, prod, approved, grades>> /\ ~Evaluated(m)
  BY DEF Evaluate
<1>2. ProductionApproved'
  BY <1>1 DEF ReportInv, ProductionApproved
<1>3. prod' \in [Models -> Contents'] /\ approved' \in [Models -> 0..Len(grades')]
  BY <1>1 DEF ReportInv, ReportTypes, Contents
<1>4. CASE ~Whole(v)
  <2>1. evaluator' = NoEvaluator
    BY <1>4 DEF Evaluate
  <2>2. evaluator' \in [report : [Models -> Report'], todo : Copies, open : BOOLEAN]
    BY <2>1, <1>1, LenProperties DEF NoEvaluator, NoReport, Report, Copies, TrainerInv, TrainerTypes
  <2>3. /\ \A n \in Models : ~Evaluated(n)'
        /\ evaluator'.todo = <<>>
    BY <2>1 DEF NoEvaluator, Evaluated
  <2>4. ReportsHold'
    BY <2>3, CopyLists DEF ReportsHold
  <2>5. ApprovedIsPast'
    BY <1>1, <2>3 DEF ReportInv, ApprovedIsPast
  <2> QED
    BY <1>2, <1>3, <2>2, <2>4, <2>5 DEF ReportInv, ReportTypes
<1>5. CASE Whole(v)
  <2>1. evaluator' = [evaluator EXCEPT !.report[m] = r]
    BY <1>5 DEF Evaluate
  <2>2. v \in 1..Len(grades) /\ r \in Report
    <3>1. v \in 1..Len(grades)
      BY <1>5, LenProperties DEF TrainerInv, TrainerTypes, Contents, Whole, FileKinds
    <3>2. grades[v] \in Grades
      BY <3>1, ElementOfSeq DEF TrainerInv, TrainerTypes
    <3>3. ShouldDeploy(m, grades[v]) \in BOOLEAN
      BY <3>2, ArtifactsAssumption DEF ShouldDeploy
    <3> HIDE DEF v
    <3> QED
      BY <3>1, <3>3 DEF Report
  <2> HIDE DEF r
  <2>3. /\ evaluator' \in [report : [Models -> Report], todo : Copies, open : BOOLEAN]
        /\ evaluator'.todo = evaluator.todo
        /\ \A n \in Models : evaluator'.report[n] = IF n = m THEN r ELSE evaluator.report[n]
    BY <2>1, <2>2 DEF ReportInv, ReportTypes
  <2>4. m \notin ToSet(evaluator.todo)
    BY <1>1, NoReports DEF ReportInv, ReportsHold
  <2>5. r.ver = v /\ r.pass = ShouldDeploy(m, grades[v])
    BY DEF r
  <2>6. ReportsHold'
    <3> SUFFICES ASSUME NEW n \in Models
                 PROVE  /\ Evaluated(n)' =>
                             /\ evaluator'.report[n].ver > 0
                             /\ evaluator'.report[n].pass =>
                                  ShouldDeploy(n, grades[evaluator'.report[n].ver])
                             /\ Whole(disk[n]["json"]) =>
                                  disk[n]["json"] >= evaluator'.report[n].ver
                        /\ n \in ToSet(evaluator.todo) => evaluator'.report[n].pass
      BY <1>1, <2>3 DEF ReportsHold
    <3>1. CASE n = m
      <4>1. evaluator'.report[n] = r
        BY <2>3, <3>1
      <4> QED
        BY <2>2, <2>4, <2>5, <3>1, <4>1, LenProperties DEF TrainerInv, TrainerTypes
    <3>2. CASE n # m
      BY <2>3, <3>2 DEF ReportInv, ReportsHold, Evaluated
    <3> QED
      BY <3>1, <3>2
  <2>7. Report' = Report
    BY <1>1 DEF Report
  <2>8. ApprovedIsPast'
    <3> SUFFICES ASSUME NEW n \in Models
                 PROVE  /\ Evaluated(n)' => evaluator'.report[n].ver >= approved[n]
                        /\ Whole(disk[n]["json"]) => disk[n]["json"] >= approved[n]
      BY <1>1 DEF ApprovedIsPast
    <3>1. CASE n = m
      <4>1. evaluator'.report[n].ver = v
        BY <2>3, <2>5, <3>1
      <4>2. v >= approved[m]
        BY <1>5 DEF ReportInv, ApprovedIsPast, v
      <4> QED
        BY <3>1, <4>1, <4>2 DEF ReportInv, ApprovedIsPast
    <3>2. CASE n # m
      BY <2>3, <3>2 DEF ReportInv, ApprovedIsPast, Evaluated
    <3> QED
      BY <3>1, <3>2
  <2> QED
    BY <1>2, <1>3, <2>3, <2>6, <2>7, <2>8 DEF ReportInv, ReportTypes
<1> QED
  BY <1>4, <1>5

(* A run that has ended tells and copies nothing.                          *)
LEMMA EndOfRun ==
  ASSUME TrainerInv, ReportInv, evaluator' = NoEvaluator, UNCHANGED grades
  PROVE  /\ evaluator' \in [report : [Models -> Report'], todo : Copies, open : BOOLEAN]
         /\ ReportsHold'
<1>1. evaluator' \in [report : [Models -> Report'], todo : Copies, open : BOOLEAN]
  BY LenProperties DEF NoEvaluator, NoReport, Report, Copies, TrainerInv, TrainerTypes
<1>2. /\ \A n \in Models : ~Evaluated(n)'
      /\ evaluator'.todo = <<>>
  BY DEF NoEvaluator, Evaluated
<1> QED
  BY <1>1, <1>2, CopyLists DEF ReportsHold

LEMMA DecideInv ==
  ASSUME TrainerInv, ReportInv, Decide
  PROVE  ReportInv'
<1> DEFINE Passed(m) == IF evaluator.report[m].pass THEN <<m>> ELSE <<>>
           passed == Passed("A") \o Passed("B")
<1>1. /\ UNCHANGED <<disk, prod, approved, grades>>
      /\ evaluator' = NoEvaluator \/ evaluator' = [evaluator EXCEPT !.todo = passed]
  BY DEF Decide
<1>2. ProductionApproved' /\ prod' \in [Models -> Contents'] /\ approved' \in [Models -> 0..Len(grades')]
  BY <1>1 DEF ReportInv, ReportTypes, ProductionApproved, Contents
<1>3. /\ passed \in Copies
      /\ "A" \in ToSet(passed) => Passed("A") = <<"A">>
      /\ "B" \in ToSet(passed) => Passed("B") = <<"B">>
  <2>1. /\ Passed("A") = <<>> \/ Passed("A") = <<"A">>
        /\ Passed("B") = <<>> \/ Passed("B") = <<"B">>
    OBVIOUS
  <2> HIDE DEF Passed
  <2> QED
    BY <2>1, NewCopies
<1>4. \A m \in Models : m \in ToSet(passed) => evaluator.report[m].pass
  <2>1. <<"A">> # <<>> /\ <<"B">> # <<>>
    OBVIOUS
  <2>2. /\ Passed("A") = <<"A">> => evaluator.report["A"].pass
        /\ Passed("B") = <<"B">> => evaluator.report["B"].pass
    BY <2>1
  <2> HIDE DEF passed, Passed
  <2> QED
    BY <1>3, <2>2 DEF Models
<1> HIDE DEF passed
<1>5. CASE evaluator' = NoEvaluator
  <2>1. \A m \in Models : ~Evaluated(m)'
    BY <1>5 DEF NoEvaluator, Evaluated
  <2>2. ApprovedIsPast'
    BY <1>1, <2>1 DEF ReportInv, ApprovedIsPast
  <2> QED
    BY <1>1, <1>2, <1>5, <2>2, EndOfRun DEF ReportInv, ReportTypes
<1>6. CASE evaluator' = [evaluator EXCEPT !.todo = passed]
  <2>1. /\ evaluator' \in [report : [Models -> Report], todo : Copies, open : BOOLEAN]
        /\ evaluator'.todo = passed /\ evaluator'.report = evaluator.report
    BY <1>3, <1>6 DEF ReportInv, ReportTypes
  <2>2. Report' = Report
    BY <1>1 DEF Report
  <2>3. ReportsHold'
    BY <1>1, <1>4, <2>1 DEF ReportInv, ReportsHold, Evaluated
  <2>4. ApprovedIsPast'
    BY <1>1, <2>1 DEF ReportInv, ApprovedIsPast, Evaluated
  <2> QED
    BY <1>2, <2>1, <2>2, <2>3, <2>4 DEF ReportInv, ReportTypes
<1> QED
  BY <1>1, <1>5, <1>6

LEMMA CopyInv ==
  ASSUME TrainerInv, ReportInv, CopyBegin \/ CopyEnd
  PROVE  ReportInv'
<1> DEFINE c == Head(evaluator.todo)
<1>1. /\ UNCHANGED <<disk, grades>> /\ evaluator.todo \in Copies /\ evaluator.todo # <<>>
      /\ Len(grades) \in Nat
  BY LenProperties DEF CopyBegin, CopyEnd, ReportInv, ReportTypes, TrainerInv, TrainerTypes
<1>2. /\ c \in Models /\ c \in ToSet(evaluator.todo)
      /\ Tail(evaluator.todo) \in Copies
      /\ ToSet(Tail(evaluator.todo)) \subseteq ToSet(evaluator.todo)
  BY <1>1, CopyLists
<1>3. /\ evaluator.report[c].pass /\ evaluator.report[c].ver \in 1..Len(grades)
      /\ ShouldDeploy(c, grades[evaluator.report[c].ver])
      /\ Whole(disk[c]["json"]) => disk[c]["json"] >= evaluator.report[c].ver
  <2>1. evaluator.report[c].pass /\ Evaluated(c)
    BY <1>2, NoReports DEF ReportInv, ReportsHold
  <2>2. evaluator.report[c].ver \in 0..Len(grades)
    BY <1>2 DEF ReportInv, ReportTypes, Report
  <2> QED
    BY <1>1, <1>2, <2>1, <2>2 DEF ReportInv, ReportsHold
<1> HIDE DEF c
<1>4. disk[c]["json"] \in Contents /\ Torn \in Contents /\ ~Whole(Torn)
  BY <1>1, <1>2 DEF TrainerInv, TrainerTypes, FileKinds, Torn, Whole, Contents
<1>5. Contents' = Contents /\ Report' = Report
  BY <1>1 DEF Contents, Report
<1>6. CASE CopyBegin
  <2>1. /\ prod' = [prod EXCEPT ![c] = Torn] /\ approved' = approved
        /\ evaluator' = [evaluator EXCEPT !.open = TRUE]
    BY <1>6 DEF CopyBegin, c
  <2>2. ReportTypes'
    BY <1>1, <1>2, <1>4, <1>5, <2>1 DEF ReportInv, ReportTypes
  <2>3. evaluator'.report = evaluator.report /\ evaluator'.todo = evaluator.todo
    BY <2>1 DEF ReportInv, ReportTypes
  <2>4. ReportsHold'
    BY <1>1, <2>3 DEF ReportInv, ReportsHold, Evaluated
  <2>5. \A m \in Models : prod'[m] = prod[m] \/ ~Whole(prod'[m])
    BY <1>2, <1>4, <2>1 DEF ReportInv, ReportTypes
  <2>6. ProductionApproved'
    BY <1>1, <2>1, <2>5 DEF ReportInv, ProductionApproved
  <2>7. ApprovedIsPast'
    BY <1>1, <2>1, <2>3 DEF ReportInv, ApprovedIsPast, Evaluated
  <2> QED
    BY <2>2, <2>4, <2>6, <2>7 DEF ReportInv
<1>7. CASE CopyEnd
  <2>1. /\ prod' = [prod EXCEPT ![c] = disk[c]["json"]]
        /\ approved' = [approved EXCEPT ![c] = evaluator.report[c].ver]
        /\ evaluator' = NoEvaluator
           \/ evaluator' = [evaluator EXCEPT !.todo = Tail(@), !.open = FALSE]
    BY <1>7 DEF CopyEnd, c
  <2>2. /\ prod' \in [Models -> Contents] /\ approved' \in [Models -> 0..Len(grades)]
        /\ prod'[c] = disk[c]["json"] /\ approved'[c] = evaluator.report[c].ver
        /\ \A m \in Models : m # c => prod'[m] = prod[m] /\ approved'[m] = approved[m]
    BY <1>2, <1>3, <1>4, <2>1 DEF ReportInv, ReportTypes
  <2>3. ProductionApproved'
    <3> SUFFICES ASSUME NEW m \in Models, Whole(prod'[m])
                 PROVE  /\ Whole(approved'[m])
                        /\ (m = "A" => grades[approved'[m]].ic)
                        /\ grades[approved'[m]].brier /\ grades[approved'[m]].ece
                        /\ prod'[m] >= approved'[m]
      BY <1>1 DEF ProductionApproved
    <3>1. CASE m = c
      BY <1>3, <2>2, <3>1 DEF Whole, ShouldDeploy
    <3>2. CASE m # c
      BY <2>2, <3>2 DEF ReportInv, ProductionApproved
    <3> QED
      BY <3>1, <3>2
  <2>4. CASE evaluator' = NoEvaluator
    <3>1. \A m \in Models : ~Evaluated(m)'
      BY <2>4 DEF NoEvaluator, Evaluated
    <3>2. ApprovedIsPast'
      BY <1>1, <1>3, <2>2, <3>1 DEF ReportInv, ApprovedIsPast
    <3> QED
      BY <1>1, <1>5, <2>2, <2>3, <2>4, <3>2, EndOfRun DEF ReportInv, ReportTypes
  <2>5. CASE evaluator' = [evaluator EXCEPT !.todo = Tail(@), !.open = FALSE]
    <3>1. /\ evaluator' \in [report : [Models -> Report], todo : Copies, open : BOOLEAN]
          /\ evaluator'.report = evaluator.report /\ evaluator'.todo = Tail(evaluator.todo)
      BY <1>2, <2>5 DEF ReportInv, ReportTypes
    <3>2. ReportsHold'
      BY <1>1, <1>2, <3>1 DEF ReportInv, ReportsHold, Evaluated
    <3>3. ApprovedIsPast'
      <4> SUFFICES ASSUME NEW m \in Models
                   PROVE  /\ Evaluated(m) => evaluator.report[m].ver >= approved'[m]
                          /\ Whole(disk[m]["json"]) => disk[m]["json"] >= approved'[m]
        BY <1>1, <3>1 DEF ApprovedIsPast, Evaluated
      <4>1. CASE m = c
        BY <1>1, <1>3, <2>2, <4>1
      <4>2. CASE m # c
        BY <2>2, <4>2 DEF ReportInv, ApprovedIsPast
      <4> QED
        BY <4>1, <4>2
    <3> QED
      BY <1>1, <1>5, <2>2, <2>3, <3>1, <3>2, <3>3 DEF ReportInv, ReportTypes
  <2> QED
    BY <2>1, <2>4, <2>5
<1> QED
  BY <1>6, <1>7

-----------------------------------------------------------------------------
(* All of it.                                                              *)
LEMMA ArtifactsInit ==
  ASSUME Init
  PROVE  ArtifactsInv
<1>1. /\ grades = <<>> /\ Len(grades) = 0 /\ grades \in Seq(Grades) /\ 0 \in Contents
  BY EmptySeq DEF Init, Contents
<1>2. TrainerTypes
  <2>1. disk \in [Models -> [FileKinds -> Contents]]
    BY <1>1 DEF Init, Absent
  <2>2. trainer \in [m : Models, ver : 0..Len(grades), todo : Saves("A") \cup Saves("B"),
                     open : BOOLEAN]
        /\ trainer.todo \in Saves(trainer.m)
    BY <1>1 DEF Init, NoTrainer, Models, Saves
  <2> QED
    BY <1>1, <2>1, <2>2 DEF TrainerTypes
<1>3. SavedInOrder /\ MetaFits /\ MetricsNotAhead
  BY DEF Init, SavedInOrder, MetaFits, MetricsNotAhead, Training, NoTrainer, Whole, Absent,
         Models, FileKinds
<1>4. ReportTypes
  <2>1. prod \in [Models -> Contents] /\ approved \in [Models -> 0..Len(grades)]
    BY <1>1 DEF Init, Absent
  <2>2. evaluator \in [report : [Models -> Report], todo : Copies, open : BOOLEAN]
    BY <1>1 DEF Init, NoEvaluator, NoReport, Report, Copies
  <2> QED
    BY <2>1, <2>2 DEF ReportTypes
<1>5. ReportsHold
  <2>1. /\ \A m \in Models : ~Evaluated(m)
        /\ evaluator.todo = <<>>
    BY NoReports DEF Init
  <2> QED
    BY <2>1, CopyLists DEF ReportsHold
<1>6. ProductionApproved /\ LoadingIsWhole
  BY DEF Init, ProductionApproved, LoadingIsWhole, Whole, Absent
<1>7. ApprovedIsPast
  <2>1. \A m \in Models : ~Evaluated(m) /\ ~Whole(disk[m]["json"])
    BY NoReports DEF Init, Whole, Absent, FileKinds
  <2> QED
    BY <2>1 DEF ApprovedIsPast
<1> QED
  BY <1>2, <1>3, <1>4, <1>5, <1>6, <1>7 DEF ArtifactsInv, TrainerInv, ReportInv

LEMMA ArtifactsStep ==
  ASSUME ArtifactsInv, [Next]_vars
  PROVE  ArtifactsInv'
<1>1. TrainerInv /\ ReportInv /\ LoadingIsWhole
  BY DEF ArtifactsInv
<1> DEFINE Trains == (\E m \in Models : Fit(m)) \/ OpenFile \/ CloseFile \/ KillTrainer
           Deploys == (\E m \in Models : Evaluate(m)) \/ Decide \/ CopyBegin \/ CopyEnd
                      \/ KillEvaluator
           Loads == (\E dir \in {"models", "production"} : LoadModel(dir)) \/ LoadMeta
                    \/ UNCHANGED vars
<1>2. CASE Trains
  <2>1. TrainerInv'
    BY <1>1, <1>2, FitInv, OpenFileInv, CloseFileInv, KillTrainerInv
  <2>2. ReportInv'
    BY <1>1, <1>2, TrainingKeepsReports
  <2>3. LoadingIsWhole'
    BY <1>1, <1>2, TrainerMoves DEF LoadingIsWhole
  <2> QED
    BY <2>1, <2>2, <2>3 DEF ArtifactsInv
<1>3. CASE Deploys
  <2>1. UNCHANGED <<disk, grades, trainer, cut, server>>
    BY <1>3 DEF Evaluate, Decide, CopyBegin, CopyEnd, KillEvaluator
  <2>2. TrainerInv' /\ LoadingIsWhole'
    BY <1>1, <2>1 DEF TrainerInv, TrainerTypes, SavedInOrder, MetaFits, MetricsNotAhead,
                      LoadingIsWhole, Contents, Training, Saving
  <2>3. ReportInv'
    <3>1. CASE KillEvaluator
      <4>1. UNCHANGED <<disk, prod, approved, grades>> /\ evaluator' = NoEvaluator
        BY <3>1 DEF KillEvaluator
      <4>2. prod' \in [Models -> Contents'] /\ approved' \in [Models -> 0..Len(grades')]
        BY <1>1, <4>1 DEF ReportInv, ReportTypes, Contents
      <4>3. ProductionApproved'
        BY <1>1, <4>1 DEF ReportInv, ProductionApproved
      <4>4. \A m \in Models : ~Evaluated(m)'
        BY <4>1 DEF NoEvaluator, Evaluated
      <4>5. ApprovedIsPast'
        BY <1>1, <4>1, <4>4 DEF ReportInv, ApprovedIsPast
      <4> QED
        BY <1>1, <4>1, <4>2, <4>3, <4>5, EndOfRun DEF ReportInv, ReportTypes
    <3> QED
      BY <1>1, <1>3, <3>1, EvaluateInv, DecideInv, CopyInv
  <2> QED
    BY <2>2, <2>3 DEF ArtifactsInv
<1>4. CASE Loads
  <2>1. UNCHANGED <<disk, prod, approved, grades, trainer, cut, evaluator>>
    BY <1>4 DEF LoadModel, LoadMeta, vars
  <2>2. TrainerInv'
    BY <1>1, <2>1 DEF TrainerInv, TrainerTypes, SavedInOrder, MetaFits, MetricsNotAhead,
                      Contents, Training, Saving
  <2>3. ReportInv'
    BY <1>1, <2>1 DEF ReportInv, ReportTypes, ReportsHold, ProductionApproved,
                      ApprovedIsPast, Contents, Report, Evaluated
  <2>4. LoadingIsWhole'
    <3>1. disk["B"]["json"] \in Int /\ disk["B"]["meta"] \in Int /\ prod["B"] \in Int
      BY <1>1, LenProperties DEF TrainerInv, TrainerTypes, ReportInv, ReportTypes, Contents,
                                 Models, FileKinds
    <3>2. ASSUME NEW dir \in {"models", "production"}, LoadModel(dir) PROVE LoadingIsWhole'
      BY <1>1, <3>1, <3>2 DEF LoadModel, LoadingIsWhole
    <3>3. CASE LoadMeta
      BY <1>1, <3>1, <3>3 DEF LoadMeta, LoadingIsWhole, ThetaLoaded
    <3>4. CASE UNCHANGED vars
      BY <1>1, <3>4 DEF LoadingIsWhole, vars
    <3> QED
      BY <1>4, <3>2, <3>3, <3>4
  <2> QED
    BY <2>2, <2>3, <2>4 DEF ArtifactsInv
<1> QED
  BY <1>2, <1>3, <1>4 DEF Next

(* The threshold is read from the metadata of the model just loaded.       *)
LEMMA ThetaStep ==
  ASSUME ArtifactsInv, [Next]_vars,
         server.loading = "models", server'.loading = NoLoad,
         "B" \notin cut, ~Saving("B"), server.ver = disk["B"]["json"]
  PROVE  server'.theta = server'.ver
<1>1. server.loading # NoLoad
  BY DEF NoLoad
<1>2. LoadMeta
  <2>1. server' # server
    BY DEF NoLoad
  <2>2. \A dir \in {"models", "production"} : ~LoadModel(dir)
    BY <1>1 DEF LoadModel
  <2> QED
    BY <2>1, <2>2 DEF Next, vars, Fit, Evaluate, OpenFile, CloseFile, KillTrainer, Decide,
                      CopyBegin, CopyEnd, KillEvaluator
<1>3. disk["B"]["meta"] = server.ver /\ Whole(server.ver)
  BY <1>1 DEF ArtifactsInv, TrainerInv, MetaFits, LoadingIsWhole
<1>4. server' = [server EXCEPT !.theta = server.ver, !.loading = NoLoad]
  BY <1>2, <1>3 DEF LoadMeta, ThetaLoaded
<1> QED
  BY <1>4 DEF ArtifactsInv, LoadingIsWhole

(* Only the end of a copy approves, and it approves what was reported.     *)
LEMMA ApprovalStep ==
  ASSUME ArtifactsInv, [Next]_vars, NEW m \in Models
  PROVE  approved'[m] >= approved[m]
<1>1. approved \in [Models -> 0..Len(grades)] /\ Len(grades) \in Nat
  BY LenProperties DEF ArtifactsInv, ReportInv, ReportTypes, TrainerInv, TrainerTypes
<1>2. CASE approved' = approved
  BY <1>1, <1>2
<1>3. CASE CopyEnd
  <2> DEFINE c == Head(evaluator.todo)
  <2>1. /\ evaluator.todo \in Copies /\ evaluator.todo # <<>>
        /\ approved' = [approved EXCEPT ![c] = evaluator.report[c].ver]
    BY <1>3 DEF CopyEnd, ArtifactsInv, ReportInv, ReportTypes
  <2>2. c \in Models /\ c \in ToSet(evaluator.todo)
    BY <2>1, CopyLists
  <2>3. Evaluated(c)
    BY <2>2, NoReports DEF ArtifactsInv, ReportInv, ReportsHold
  <2>4. evaluator.report[c].ver >= approved[c]
    BY <2>2, <2>3 DEF ArtifactsInv, ReportInv, ApprovedIsPast
  <2> HIDE DEF c
  <2> QED
    BY <1>1, <2>1, <2>2, <2>4
<1> QED
  BY <1>2, <1>3 DEF Next, vars, Fit, Evaluate, OpenFile, CloseFile, KillTrainer, Decide,
                    CopyBegin, KillEvaluator, LoadModel, LoadMeta

(* The invariant of the files: who writes them, what the report and        *)
(* production/ know of them, and who is reading them.                      *)
THEOREM ArtifactsInvariant == Spec => []ArtifactsInv
<1>1. Init => ArtifactsInv
  BY ArtifactsInit
<1>2. ArtifactsInv /\ [Next]_vars => ArtifactsInv'
  BY ArtifactsStep
<1> QED
  BY <1>1, <1>2, PTL DEF Spec

(* Metrics never run ahead of their model; production/ holds a model that  *)
(* passed or one saved in its place before the copy, and never goes back   *)
(* to an older approval; a load that no save disturbs takes the threshold  *)
(* of its own model: whenever a process is killed.                         *)
THEOREM ArtifactsAlwaysSound == Spec => ArtifactsSound
<1>1. ArtifactsInv => MetricsNotAhead /\ ProductionApproved
  BY DEF ArtifactsInv, TrainerInv, ReportInv
<1>2. ArtifactsInv /\ [Next]_vars =>
        [LET finished == server.loading = "models" /\ server'.loading = NoLoad
         IN  finished /\ "B" \notin cut /\ ~Saving("B")
               /\ server.ver = disk["B"]["json"]
             => server'.theta = server'.ver]_vars
  BY ThetaStep
<1>3. ArtifactsInv /\ [Next]_vars => [\A m \in Models : approved'[m] >= approved[m]]_vars
  BY ApprovalStep
<1> QED
  BY <1>1, <1>2, <1>3, ArtifactsInvariant, PTL
  DEF ArtifactsSound, LoadedThetaFits, ProductionAdvances, Spec

-----------------------------------------------------------------------------
(* The downloader: what is left of the list of a run, no file twice.       *)
AllFiles == {"lstm", "xgb-a", "xgb-b"}
Downloads ==
  {<<>>, <<"lstm">>, <<"xgb-a">>, <<"xgb-b">>, <<"xgb-a", "xgb-b">>, WeightFiles}

DownloadTypes ==
  /\ weights \in [AllFiles -> {"none", "part", "full"}]
  /\ downloader \in [todo : Downloads, force : BOOLEAN, at : {"file", "writing"},
                     failed : BOOLEAN, wanted : SUBSET AllFiles]

(* A partial file is being written or an orphan.                           *)
PartIsKnown ==
  \A k \in AllFiles :
    weights[k] = "part" =>
      k \in orphans \/ (Downloading /\ Current = k /\ downloader.at = "writing")

(* Until a file fails, every file wanted is there or still to be fetched.  *)
WantedOrLeft ==
  ~downloader.failed =>
    \A k \in downloader.wanted : k \in ToSet(downloader.todo) \/ weights[k] # "none"

DownloadInv == DownloadTypes /\ PartIsKnown /\ WantedOrLeft

LEMMA DownloadLists ==
  /\ ToSet(WeightFiles) = AllFiles /\ ToSet(<<>>) = {}
  /\ \A s \in Downloads : s # <<>> =>
       /\ Head(s) \in AllFiles /\ Tail(s) \in Downloads
       /\ ToSet(s) = {Head(s)} \cup ToSet(Tail(s))
  /\ \A k \in AllFiles : <<k>> \in Downloads /\ <<k>> # <<>> /\ ToSet(<<k>>) = {k}
  /\ WeightFiles \in Downloads /\ WeightFiles # <<>>
<1>1. /\ ToSet(<<>>) = {} /\ ToSet(<<"lstm">>) = {"lstm"} /\ ToSet(<<"xgb-a">>) = {"xgb-a"}
      /\ ToSet(<<"xgb-b">>) = {"xgb-b"}
  BY DEF ToSet
<1>2. ToSet(<<"xgb-a", "xgb-b">>) = {"xgb-a", "xgb-b"}
  BY DEF ToSet
<1>3. ToSet(<<"lstm", "xgb-a", "xgb-b">>) = {"lstm", "xgb-a", "xgb-b"}
  BY DEF ToSet
<1>4. /\ Head(<<"lstm">>) = "lstm" /\ Head(<<"xgb-a">>) = "xgb-a" /\ Head(<<"xgb-b">>) = "xgb-b"
      /\ Tail(<<"lstm">>) = <<>> /\ Tail(<<"xgb-a">>) = <<>> /\ Tail(<<"xgb-b">>) = <<>>
  OBVIOUS
<1>5. /\ Head(<<"xgb-a", "xgb-b">>) = "xgb-a" /\ Tail(<<"xgb-a", "xgb-b">>) = <<"xgb-b">>
      /\ Head(<<"lstm", "xgb-a", "xgb-b">>) = "lstm"
      /\ Tail(<<"lstm", "xgb-a", "xgb-b">>) = <<"xgb-a", "xgb-b">>
  OBVIOUS
<1>6. /\ <<"lstm">> # <<>> /\ <<"xgb-a">> # <<>> /\ <<"xgb-b">> # <<>>
      /\ <<"lstm", "xgb-a", "xgb-b">> # <<>>
  OBVIOUS
<1> QED
  BY <1>1, <1>2, <1>3, <1>4, <1>5, <1>6 DEF Downloads, WeightFiles, AllFiles

LEMMA DownloadInitHolds ==
  ASSUME DownloadInit
  PROVE  DownloadInv
<1>1. weights \in [AllFiles -> {"none", "part", "full"}] /\ \A k \in AllFiles : weights[k] = "none"
  BY DownloadLists DEF DownloadInit
<1>2. /\ downloader \in [todo : Downloads, force : BOOLEAN, at : {"file", "writing"},
                         failed : BOOLEAN, wanted : SUBSET AllFiles]
      /\ downloader.wanted = {}
  BY DEF DownloadInit, NoDownload, Downloads
<1> QED
  BY <1>1, <1>2 DEF DownloadInv, DownloadTypes, PartIsKnown, WantedOrLeft

(* The current file is settled and the run goes on.                        *)
LEMMA NextFileInv ==
  ASSUME DownloadInv, Downloading, NEW ok \in BOOLEAN, downloader' = NextFile(ok),
         weights' \in [AllFiles -> {"none", "part", "full"}],
         \A k \in AllFiles : k # Current => weights'[k] = weights[k]
                                            /\ (k \in orphans => k \in orphans'),
         weights'[Current] = "part" => Current \in orphans',
         ok => weights'[Current] # "none"
  PROVE  DownloadInv'
<1>1. /\ downloader.todo \in Downloads /\ downloader.todo # <<>>
      /\ downloader.wanted \subseteq AllFiles
  BY DEF DownloadInv, DownloadTypes, Downloading
<1>2. /\ Current \in AllFiles /\ Tail(downloader.todo) \in Downloads
      /\ ToSet(downloader.todo) = {Current} \cup ToSet(Tail(downloader.todo))
  BY <1>1, DownloadLists DEF Current
<1>3. /\ downloader'.todo = Tail(downloader.todo) /\ downloader'.wanted = downloader.wanted
      /\ downloader'.failed = (downloader.failed \/ ~ok) /\ downloader'.at = "file"
      /\ downloader'.force = downloader.force
  BY DEF NextFile, DownloadInv, DownloadTypes
<1>4. DownloadTypes'
  <2>1. downloader' \in [todo : Downloads, force : BOOLEAN, at : {"file", "writing"},
                         failed : BOOLEAN, wanted : SUBSET AllFiles]
    BY <1>2 DEF NextFile, DownloadInv, DownloadTypes
  <2> QED
    BY <2>1 DEF DownloadTypes
<1>5. PartIsKnown'
  <2> SUFFICES ASSUME NEW k \in AllFiles, weights'[k] = "part"
               PROVE  k \in orphans'
    BY DEF PartIsKnown
  <2>1. CASE k # Current
    BY <2>1 DEF DownloadInv, PartIsKnown
  <2> QED
    BY <2>1
<1>6. WantedOrLeft'
  <2> SUFFICES ASSUME ~downloader'.failed, NEW k \in downloader.wanted
               PROVE  k \in ToSet(Tail(downloader.todo)) \/ weights'[k] # "none"
    BY <1>3 DEF WantedOrLeft
  <2>1. ~downloader.failed /\ ok
    BY <1>3
  <2>2. k \in ToSet(downloader.todo) \/ weights[k] # "none"
    BY <2>1 DEF DownloadInv, WantedOrLeft
  <2> QED
    BY <1>1, <1>2, <2>1, <2>2
<1> QED
  BY <1>4, <1>5, <1>6 DEF DownloadInv

LEMMA DownloadStepInv ==
  ASSUME DownloadInv, [DownloadNext]_downloadVars
  PROVE  DownloadInv'
<1>1. /\ weights \in [AllFiles -> {"none", "part", "full"}]
      /\ Downloading => Current \in AllFiles
  BY DownloadLists DEF DownloadInv, DownloadTypes, Downloading, Current
<1>2. CASE StartDownload
  <2>1. PICK force \in BOOLEAN,
             models \in {WeightFiles} \cup {<<k>> : k \in ToSet(WeightFiles)} :
          downloader' = [todo |-> models, force |-> force, at |-> "file",
                         failed |-> FALSE, wanted |-> ToSet(models)]
    BY <1>2 DEF StartDownload
  <2>2. ~Downloading /\ UNCHANGED <<weights, orphans>>
    BY <1>2 DEF StartDownload
  <2>3. models \in Downloads /\ ToSet(models) \subseteq AllFiles
    BY DownloadLists
  <2>4. DownloadTypes'
    BY <1>1, <2>1, <2>2, <2>3 DEF DownloadTypes
  <2>5. PartIsKnown'
    BY <2>2 DEF DownloadInv, PartIsKnown
  <2>6. WantedOrLeft'
    BY <2>1 DEF WantedOrLeft
  <2> QED
    BY <2>4, <2>5, <2>6 DEF DownloadInv
<1>3. ASSUME NEW content \in {"none", "full"}, NEW ok \in BOOLEAN, Downloading,
             Stored(content, ok), ok => content = "full"
      PROVE  DownloadInv'
  <2>1. /\ weights' = [weights EXCEPT ![Current] = content]
        /\ orphans' = orphans \ {Current} /\ downloader' = NextFile(ok)
    BY <1>3 DEF Stored
  <2>2. /\ weights' \in [AllFiles -> {"none", "part", "full"}] /\ weights'[Current] = content
        /\ \A k \in AllFiles : k # Current => weights'[k] = weights[k]
                                              /\ (k \in orphans => k \in orphans')
    BY <1>1, <1>3, <2>1
  <2>3. content # "part" /\ (ok => content # "none")
    BY <1>3
  <2> QED
    BY <1>3, <2>1, <2>2, <2>3, NextFileInv
<1>4. CASE HubFetch \/ UrlFails \/ UrlDone
  BY <1>3, <1>4 DEF HubFetch, UrlFails, UrlDone
<1>5. CASE SkipExisting
  <2>1. /\ Downloading /\ weights[Current] # "none" /\ downloader' = NextFile(TRUE)
        /\ UNCHANGED <<weights, orphans>> /\ downloader.at = "file"
    BY <1>5 DEF SkipExisting
  <2>2. weights[Current] = "part" => Current \in orphans
    BY <1>1, <2>1 DEF DownloadInv, PartIsKnown
  <2> QED
    BY <1>1, <2>1, <2>2, NextFileInv
<1>6. CASE UrlStarts
  <2>1. /\ Downloading /\ weights' = [weights EXCEPT ![Current] = "part"] /\ orphans' = orphans
        /\ downloader' = [downloader EXCEPT !.at = "writing"] /\ downloader.at = "file"
    BY <1>6 DEF UrlStarts
  <2>2. /\ weights' \in [AllFiles -> {"none", "part", "full"}]
        /\ \A k \in AllFiles : weights'[k] = IF k = Current THEN "part" ELSE weights[k]
    BY <1>1, <2>1
  <2>3. /\ downloader'.todo = downloader.todo /\ downloader'.wanted = downloader.wanted
        /\ downloader'.failed = downloader.failed /\ downloader'.at = "writing"
        /\ downloader' \in [todo : Downloads, force : BOOLEAN, at : {"file", "writing"},
                            failed : BOOLEAN, wanted : SUBSET AllFiles]
    BY <2>1 DEF DownloadInv, DownloadTypes
  <2>4. Downloading' /\ Current' = Current
    BY <2>1, <2>3 DEF Downloading, Current
  <2>5. PartIsKnown'
    BY <2>1, <2>2, <2>3, <2>4 DEF DownloadInv, PartIsKnown
  <2>6. WantedOrLeft'
    BY <2>2, <2>3 DEF DownloadInv, DownloadTypes, WantedOrLeft
  <2> QED
    BY <2>2, <2>3, <2>5, <2>6 DEF DownloadInv, DownloadTypes
<1>7. CASE KillDownloader
  <2>1. /\ downloader' = NoDownload /\ weights' = weights
        /\ orphans' = IF downloader.at = "writing" THEN orphans \cup {Current} ELSE orphans
    BY <1>7 DEF KillDownloader
  <2>2. DownloadTypes'
    BY <1>1, <2>1 DEF DownloadTypes, NoDownload, Downloads
  <2>3. PartIsKnown'
    BY <2>1 DEF DownloadInv, PartIsKnown
  <2>4. WantedOrLeft'
    BY <2>1 DEF WantedOrLeft, NoDownload
  <2> QED
    BY <2>2, <2>3, <2>4 DEF DownloadInv
<1>8. CASE UNCHANGED downloadVars
  BY <1>8 DEF downloadVars, DownloadInv, DownloadTypes, PartIsKnown, WantedOrLeft,
              Downloading, Current
<1> QED
  BY <1>2, <1>4, <1>5, <1>6, <1>7, <1>8 DEF DownloadNext, DownloadStep

(* A download that ends without a failure has left every file that was     *)
(* asked for, and every partial file is being written or was left by a     *)
(* process that was killed, for any number of runs and kills.              *)
THEOREM DownloadsAlwaysHonest == DownloadSpec => []DownloadsHonest
<1>1. DownloadInit => DownloadInv
  BY DownloadInitHolds
<1>2. DownloadInv /\ [DownloadNext]_downloadVars => DownloadInv'
  BY DownloadStepInv
<1>3. DownloadInv => DownloadsHonest
  BY DownloadLists DEF DownloadInv, PartIsKnown, WantedOrLeft, DownloadsHonest, Downloading
<1> QED
  BY <1>1, <1>2, <1>3, PTL DEF DownloadSpec

-----------------------------------------------------------------------------
(* The autoencoder.                                                        *)
Checkpoint == [epoch : Nat \cup {-1, -2}, loss : Losses \cup {NaN, Inf}, weights : Nat]
Todos == {<<>>, <<"best">>, <<"last">>, <<"last", "best">>}

TrainingTypes ==
  /\ files \in [{"last", "best"} -> Checkpoint] /\ epochs \in Nat
  /\ run \in [at : {"idle", "epoch", "save", "test"}, epoch : Nat,
              best : Losses \cup {Inf}, score : Losses \cup {Inf}, counter : Nat,
              losses : Seq(Losses \cup {NaN}), todo : Todos, open : BOOLEAN]

(* The run knows its lowest loss, and has put it into the best checkpoint  *)
(* unless it is about to.                                                  *)
LowestLoss(x, s) ==
  /\ \A i \in 1..Len(s) : s[i] = NaN \/ x <= s[i]
  /\ x = Inf \/ \E i \in 1..Len(s) : s[i] = x
BestIsKept ==
  /\ LowestLoss(run.best, run.losses)
  /\ run.at = "idle" => run.losses = <<>>
  /\ run.at # "save" => run.todo = <<>>
  /\ run.at = "save" => run.losses # <<>>
  /\ run.open => run.todo # <<>>
  /\ IF run.todo \in {<<"best">>, <<"last", "best">>}
     THEN run.losses[Len(run.losses)] = run.best
     ELSE run.best # Inf => IsWhole(files["best"]) /\ files["best"].loss = run.best

(* The score is a loss from before the epochs that the counter counts, and *)
(* none of those was better by more than MinDelta.                         *)
Counts(s, score, counter) ==
  /\ counter <= Len(s)
  /\ score = Inf \/ \E i \in 1..Len(s) - counter : s[i] = score
  /\ \A i \in Len(s) - counter + 1..Len(s) : ~Below(s[i], score - MinDelta)
Before == SubSeq(run.losses, 1, Len(run.losses) - 1)
CounterCounts ==
  /\ Counts(IF run.at = "save" THEN Before ELSE run.losses, run.score, run.counter)
  /\ run.at # "test" => run.counter < Patience
  /\ run.at = "test" /\ run.losses # <<>> =>
       run.counter = Patience \/ run.epoch + 1 >= NumEpochs

TrainingInv == TrainingTypes /\ BestIsKept /\ CounterCounts

ServingTypes ==
  /\ engine \in Nat /\ now \in Nat
  /\ cache \in [Bars -> [weights : Nat, made : Nat, till : Nat]]
  /\ served \in [weights : Nat, made : Nat, till : Nat]

(* No vector outlives its entry in the cache.                              *)
CacheIsRecent ==
  \A b \in Bars : cache[b].weights # 0 => cache[b].till <= cache[b].made + LongTTL

ServingInv == ServingTypes /\ CacheIsRecent /\ LatentIsRecent

LEMMA LossNumbers ==
  /\ Losses \subseteq Nat /\ NaN \in Nat /\ Inf \in Nat
  /\ \A x \in Losses : x < Inf /\ x < NaN
  /\ MinDelta \in Nat /\ Patience \in Nat /\ Patience > 0 /\ NumEpochs \in Nat
  /\ Inf < NaN
BY LatentAssumption DEF NaN, Inf

LEMMA FileNumbers == NoFile \in Checkpoint /\ TornFile \in Checkpoint
BY DEF NoFile, TornFile, Checkpoint

LEMMA TodoLists ==
  /\ \A s \in Todos : s # <<>> => Head(s) \in {"last", "best"} /\ Tail(s) \in Todos
  /\ \A s \in Todos : s # <<>> /\ Head(s) = "best" => s = <<"best">> /\ Tail(s) = <<>>
  /\ \A s \in Todos : s # <<>> /\ Head(s) = "last" =>
       \/ s = <<"last">> /\ Tail(s) = <<>>
       \/ s = <<"last", "best">> /\ Tail(s) = <<"best">>
  /\ <<>> \notin {<<"best">>, <<"last", "best">>}
  /\ <<"last">> \notin {<<"best">>, <<"last", "best">>}
<1>1. /\ Head(<<"last">>) = "last" /\ Head(<<"best">>) = "best" /\ Head(<<"last", "best">>) = "last"
      /\ Tail(<<"last">>) = <<>> /\ Tail(<<"best">>) = <<>> /\ Tail(<<"last", "best">>) = <<"best">>
  OBVIOUS
<1>2. <<>> # <<"best">> /\ <<>> # <<"last", "best">>
  OBVIOUS
<1>3. <<"last">> # <<"best">> /\ <<"last">> # <<"last", "best">>
  OBVIOUS
<1> QED
  BY <1>1, <1>2, <1>3 DEF Todos

(* The counts of early stopping, one epoch later.                          *)
LEMMA CountsStart ==
  Counts(<<>>, Inf, 0)
BY DEF Counts

LEMMA CountsNext ==
  ASSUME NEW s \in Seq(Losses \cup {NaN}), s # <<>>,
         NEW score \in Losses \cup {Inf}, NEW counter \in Nat,
         Counts(SubSeq(s, 1, Len(s) - 1), score, counter)
  PROVE  LET loss == s[Len(s)] IN
         IF Below(loss, score - MinDelta) THEN Counts(s, loss, 0)
         ELSE Counts(s, score, counter + 1)
<1> DEFINE b == SubSeq(s, 1, Len(s) - 1)
           n == Len(s)
<1>1. /\ n \in Nat /\ n > 0 /\ Len(b) = n - 1
      /\ \A i \in 1..n - 1 : b[i] = s[i]
  <2>1. n \in Nat /\ n > 0
    BY EmptySeq, LenProperties
  <2>2. Len(b) = n - 1
    <3>1. \A i \in 1..n - 1 : s[i] \in Losses \cup {NaN}
      BY <2>1, ElementOfSeq
    <3>2. Len(b) = IF 1 <= n - 1 THEN n - 1 - 1 + 1 ELSE 0
      BY <2>1, <3>1, SubSeqProperties
    <3> HIDE DEF b, n
    <3> QED
      BY <2>1, <3>2
  <2>3. \A i \in 1..n - 1 : b[i] = s[i]
    BY <2>1
  <2> QED
    BY <2>1, <2>2, <2>3
<1>2. /\ counter <= Len(b)
      /\ score = Inf \/ \E i \in 1..Len(b) - counter : b[i] = score
      /\ \A i \in Len(b) - counter + 1..Len(b) : ~Below(b[i], score - MinDelta)
  BY DEF Counts
<1> HIDE DEF b
<1>3. CASE Below(s[n], score - MinDelta)
  BY <1>1, <1>3 DEF Counts
<1>4. CASE ~Below(s[n], score - MinDelta)
  <2>1. counter + 1 <= n
    BY <1>1, <1>2
  <2>2. score = Inf \/ \E i \in 1..n - (counter + 1) : s[i] = score
    <3>1. 1..Len(b) - counter = 1..n - (counter + 1)
      BY <1>1
    <3>2. \A i \in 1..Len(b) - counter : b[i] = s[i]
      BY <1>1
    <3> QED
      BY <1>2, <3>1, <3>2
  <2>3. \A i \in n - (counter + 1) + 1..n : ~Below(s[i], score - MinDelta)
    <3> SUFFICES ASSUME NEW i \in n - (counter + 1) + 1..n PROVE ~Below(s[i], score - MinDelta)
      OBVIOUS
    <3>1. CASE i = n
      BY <1>4, <3>1
    <3>2. CASE i # n
      <4>1. i \in Len(b) - counter + 1..Len(b) /\ i \in 1..n - 1
        BY <1>1, <1>2, <3>2
      <4> QED
        BY <1>1, <1>2, <4>1
    <3> QED
      BY <3>1, <3>2
  <2> QED
    BY <1>4, <2>1, <2>2, <2>3 DEF Counts
<1> QED
  BY <1>3, <1>4

(* The lowest loss, one epoch later.                                       *)
LEMMA LowestNext ==
  ASSUME NEW s \in Seq(Losses \cup {NaN}), NEW x \in Losses \cup {Inf}, LowestLoss(x, s),
         NEW loss \in Losses \cup {NaN}
  PROVE  /\ IsBest(loss, x) => loss \in Losses /\ LowestLoss(loss, Append(s, loss))
         /\ ~IsBest(loss, x) => LowestLoss(x, Append(s, loss))
<1> DEFINE t == Append(s, loss)
<1>1. /\ t \in Seq(Losses \cup {NaN}) /\ Len(s) \in Nat /\ Len(t) = Len(s) + 1
      /\ \A i \in 1..Len(s) : t[i] = s[i] /\ s[i] \in Losses \cup {NaN}
      /\ t[Len(s) + 1] = loss
  BY AppendProperties, LenProperties, ElementOfSeq
<1> HIDE DEF t
<1>2. \A i \in 1..Len(t) : i \in 1..Len(s) \/ i = Len(s) + 1
  BY <1>1
<1>3. \A i \in 1..Len(s) : i \in 1..Len(t)
  BY <1>1
<1>4. Len(s) + 1 \in 1..Len(t)
  BY <1>1
<1>5. CASE IsBest(loss, x)
  <2>1. loss \in Losses /\ loss < x /\ loss \in Nat /\ x \in Nat
    BY <1>5, LossNumbers DEF IsBest, Below
  <2>2. \A i \in 1..Len(s) : t[i] = NaN \/ loss <= t[i]
    <3> SUFFICES ASSUME NEW i \in 1..Len(s), t[i] # NaN PROVE loss <= t[i]
      OBVIOUS
    <3>1. x <= s[i] /\ t[i] = s[i] /\ s[i] \in Nat
      BY <1>1, LossNumbers DEF LowestLoss
    <3> QED
      BY <2>1, <3>1
  <2>3. loss <= t[Len(s) + 1]
    BY <1>1, <2>1
  <2> QED
    BY <1>1, <1>2, <1>4, <1>5, <2>1, <2>2, <2>3 DEF LowestLoss, t
<1>6. CASE ~IsBest(loss, x)
  <2>1. loss = NaN \/ x <= loss
    BY <1>6, LossNumbers DEF IsBest, Below
  <2>2. \A i \in 1..Len(s) : t[i] = NaN \/ x <= t[i]
    BY <1>1 DEF LowestLoss
  <2>3. x = Inf \/ \E i \in 1..Len(t) : t[i] = x
    BY <1>1, <1>3 DEF LowestLoss
  <2> QED
    BY <1>1, <1>2, <1>6, <2>1, <2>2, <2>3 DEF LowestLoss, t
<1> QED
  BY <1>5, <1>6

(* Training.                                                               *)
LEMMA IdleRun ==
  ASSUME run' = NoRun, files' \in [{"last", "best"} -> Checkpoint], epochs' \in Nat
  PROVE  TrainingInv'
<1>1. /\ run'.at = "idle" /\ run'.best = Inf /\ run'.score = Inf /\ run'.counter = 0
      /\ run'.losses = <<>> /\ run'.todo = <<>> /\ run'.open = FALSE
  BY DEF NoRun
<1>2. NoRun \in [at : {"idle", "epoch", "save", "test"}, epoch : Nat,
              best : Losses \cup {Inf}, score : Losses \cup {Inf}, counter : Nat,
              losses : Seq(Losses \cup {NaN}), todo : Todos, open : BOOLEAN]
  BY EmptySeq DEF NoRun, Todos
<1>3. Len(<<>>) = 0
  OBVIOUS
<1> QED
  BY <1>1, <1>2, <1>3, CountsStart, LossNumbers, TodoLists
     DEF TrainingInv, TrainingTypes, BestIsKept, LowestLoss, CounterCounts

LEMMA StartInv ==
  ASSUME TrainingInv, NEW resume \in BOOLEAN, Start(resume)
  PROVE  TrainingInv'
<1>1. /\ files' = files /\ epochs' = epochs
      /\ files \in [{"last", "best"} -> Checkpoint] /\ epochs \in Nat
  BY DEF Start, TrainingInv, TrainingTypes
<1>2. CASE run' = NoRun
  BY <1>1, <1>2, IdleRun
<1>3. CASE run' # NoRun
  <2> DEFINE last == files["last"]
             e == IF resume /\ IsWhole(last) THEN last.epoch + 1 ELSE 0
  <2>1. run' = [NoRun EXCEPT !.epoch = e, !.at = IF e < NumEpochs THEN "epoch" ELSE "test"]
    BY <1>3 DEF Start
  <2>2. e \in Nat
    BY <1>1 DEF Checkpoint, IsWhole
  <2> HIDE DEF e
  <2>3. run' = [at |-> IF e < NumEpochs THEN "epoch" ELSE "test", epoch |-> e,
                best |-> Inf, score |-> Inf, counter |-> 0, losses |-> <<>>, todo |-> <<>>,
                open |-> FALSE]
    BY <2>1 DEF NoRun
  <2>4. run' \in [at : {"idle", "epoch", "save", "test"}, epoch : Nat,
              best : Losses \cup {Inf}, score : Losses \cup {Inf}, counter : Nat,
              losses : Seq(Losses \cup {NaN}), todo : Todos, open : BOOLEAN]
    BY <2>2, <2>3, EmptySeq DEF Todos
  <2>5. /\ run'.at \in {"epoch", "test"} /\ run'.best = Inf /\ run'.score = Inf
        /\ run'.counter = 0 /\ run'.losses = <<>> /\ run'.todo = <<>> /\ run'.open = FALSE
    BY <2>3
  <2>6. Len(<<>>) = 0
    OBVIOUS
  <2>7. BestIsKept'
    BY <2>5, <2>6, TodoLists DEF BestIsKept, LowestLoss
  <2>8. CounterCounts'
    BY <2>5, <2>6, CountsStart, LossNumbers DEF CounterCounts
  <2> QED
    BY <1>1, <2>4, <2>7, <2>8 DEF TrainingInv, TrainingTypes
<1> QED
  BY <1>2, <1>3

LEMMA TrainEpochInv ==
  ASSUME TrainingInv, TrainEpoch
  PROVE  TrainingInv'
<1>1. PICK loss \in Losses \cup {NaN} :
        LET better == IsBest(loss, run.best)
        IN  run' = [run EXCEPT !.at = "save", !.losses = Append(@, loss),
                      !.best = IF better THEN loss ELSE @,
                      !.todo = IF better THEN <<"last", "best">> ELSE <<"last">>]
  BY DEF TrainEpoch
<1> DEFINE better == IsBest(loss, run.best)
<1>2. /\ run.at = "epoch" /\ files' = files /\ epochs' = epochs + 1
      /\ run.losses \in Seq(Losses \cup {NaN}) /\ run.best \in Losses \cup {Inf}
      /\ run.counter \in Nat /\ run.score \in Losses \cup {Inf} /\ run.open \in BOOLEAN
      /\ run.todo = <<>> /\ ~run.open /\ run.epoch \in Nat
      /\ LowestLoss(run.best, run.losses)
  BY DEF TrainEpoch, TrainingInv, TrainingTypes, BestIsKept
<1>3. /\ run'.at = "save" /\ run'.losses = Append(run.losses, loss)
      /\ run'.best = (IF better THEN loss ELSE run.best)
      /\ run'.todo = (IF better THEN <<"last", "best">> ELSE <<"last">>)
      /\ run'.counter = run.counter /\ run'.score = run.score /\ run'.open = run.open
      /\ run'.epoch = run.epoch
  BY <1>1 DEF TrainingInv, TrainingTypes
<1>4. /\ better => loss \in Losses /\ LowestLoss(loss, Append(run.losses, loss))
      /\ ~better => LowestLoss(run.best, Append(run.losses, loss))
  BY <1>2, LowestNext
<1> HIDE DEF better
<1>5. /\ run'.losses \in Seq(Losses \cup {NaN}) /\ run'.losses # <<>>
      /\ run'.losses[Len(run'.losses)] = loss
      /\ SubSeq(run'.losses, 1, Len(run'.losses) - 1) = run.losses
  <2>1. /\ Append(run.losses, loss) \in Seq(Losses \cup {NaN}) /\ Len(run.losses) \in Nat
        /\ Len(Append(run.losses, loss)) = Len(run.losses) + 1
        /\ Append(run.losses, loss)[Len(run.losses) + 1] = loss
        /\ Append(run.losses, loss) # <<>>
    BY <1>2, AppendProperties, LenProperties
  <2>2. SubSeq(Append(run.losses, loss), 1, Len(run.losses)) = run.losses
    BY <1>2, <2>1, AppendIsConcat
  <2> QED
    BY <1>3, <2>1, <2>2
<1>6. TrainingTypes'
  <2>1. run'.best \in Losses \cup {Inf} /\ run'.todo \in Todos
    BY <1>2, <1>3, <1>4 DEF Todos
  <2>2. run' = [at |-> run'.at, epoch |-> run'.epoch, best |-> run'.best, score |-> run'.score,
                counter |-> run'.counter, losses |-> run'.losses, todo |-> run'.todo,
                open |-> run'.open]
    BY <1>1 DEF TrainingInv, TrainingTypes
  <2>3. run' \in [at : {"idle", "epoch", "save", "test"}, epoch : Nat,
              best : Losses \cup {Inf}, score : Losses \cup {Inf}, counter : Nat,
              losses : Seq(Losses \cup {NaN}), todo : Todos, open : BOOLEAN]
    BY <1>2, <1>3, <1>5, <2>1, <2>2
  <2> QED
    BY <1>2, <2>3 DEF TrainingInv, TrainingTypes
<1>7. BestIsKept'
  <2>1. LowestLoss(run'.best, run'.losses)
    BY <1>3, <1>4
  <2>2. CASE better
    BY <1>2, <1>3, <1>5, <2>1, <2>2, TodoLists DEF BestIsKept
  <2>3. CASE ~better
    <3>1. run.best # Inf => IsWhole(files["best"]) /\ files["best"].loss = run.best
      BY <1>2, TodoLists DEF TrainingInv, BestIsKept
    <3> QED
      BY <1>2, <1>3, <1>5, <2>1, <2>3, <3>1, TodoLists DEF BestIsKept
  <2> QED
    BY <2>2, <2>3
<1>8. CounterCounts'
  BY <1>2, <1>3, <1>5 DEF TrainingInv, CounterCounts, Before
<1> QED
  BY <1>6, <1>7, <1>8 DEF TrainingInv

LEMMA CheckpointInv ==
  ASSUME TrainingInv, OpenCheckpoint \/ CloseCheckpoint
  PROVE  TrainingInv'
<1> DEFINE name == Head(run.todo)
           n == Len(run.losses)
           c == [epoch |-> run.epoch, loss |-> run.losses[n], weights |-> epochs]
<1>1. /\ run.at = "save" /\ run.todo # <<>> /\ run.todo \in Todos /\ run.losses # <<>>
      /\ run.losses \in Seq(Losses \cup {NaN}) /\ run.epoch \in Nat
      /\ epochs' = epochs /\ epochs \in Nat
      /\ files \in [{"last", "best"} -> Checkpoint]
  BY DEF OpenCheckpoint, CloseCheckpoint, TrainingInv, TrainingTypes, BestIsKept
<1>2. /\ name \in {"last", "best"} /\ Tail(run.todo) \in Todos
      /\ name = "best" => run.todo = <<"best">> /\ Tail(run.todo) = <<>>
      /\ name = "last" => \/ run.todo = <<"last">> /\ Tail(run.todo) = <<>>
                          \/ run.todo = <<"last", "best">> /\ Tail(run.todo) = <<"best">>
  BY <1>1, TodoLists
<1>3. n \in 1..Len(run.losses) /\ run.losses[n] \in Losses \cup {NaN}
  BY <1>1, EmptySeq, LenProperties, ElementOfSeq
<1>4. c \in Checkpoint /\ IsWhole(c) /\ c.loss = run.losses[n]
  BY <1>1, <1>3 DEF Checkpoint, IsWhole
<1> HIDE DEF name, c, n
<1>5. CASE OpenCheckpoint
  <2>1. files' = [files EXCEPT ![name] = TornFile] /\ run' = [run EXCEPT !.open = TRUE]
    BY <1>5 DEF OpenCheckpoint, name
  <2>2. /\ files' \in [{"last", "best"} -> Checkpoint]
        /\ name = "last" => files'["best"] = files["best"]
    BY <1>1, <1>2, <2>1, FileNumbers
  <2>3. /\ run'.at = run.at /\ run'.best = run.best /\ run'.losses = run.losses
        /\ run'.todo = run.todo /\ run'.open = TRUE /\ run'.score = run.score
        /\ run'.counter = run.counter /\ run'.epoch = run.epoch
        /\ run' \in [at : {"idle", "epoch", "save", "test"}, epoch : Nat,
              best : Losses \cup {Inf}, score : Losses \cup {Inf}, counter : Nat,
              losses : Seq(Losses \cup {NaN}), todo : Todos, open : BOOLEAN]
    BY <2>1 DEF TrainingInv, TrainingTypes
  <2>4. BestIsKept'
    <3>1. CASE name = "best"
      BY <1>1, <1>2, <2>3, <3>1 DEF TrainingInv, BestIsKept
    <3>2. CASE name = "last"
      BY <1>1, <2>2, <2>3, <3>2 DEF TrainingInv, BestIsKept
    <3> QED
      BY <1>2, <3>1, <3>2
  <2>5. CounterCounts'
    BY <2>3 DEF TrainingInv, CounterCounts, Before
  <2> QED
    BY <1>1, <2>2, <2>3, <2>4, <2>5 DEF TrainingInv, TrainingTypes
<1>6. CASE CloseCheckpoint
  <2>1. /\ files' = [files EXCEPT ![name] = c]
        /\ run' = [run EXCEPT !.open = FALSE, !.todo = Tail(@)]
    BY <1>6 DEF CloseCheckpoint, name, c, n
  <2>2. /\ files' \in [{"last", "best"} -> Checkpoint]
        /\ files'["best"] = IF name = "best" THEN c ELSE files["best"]
    BY <1>1, <1>2, <1>4, <2>1
  <2>3. /\ run'.at = run.at /\ run'.best = run.best /\ run'.losses = run.losses
        /\ run'.todo = Tail(run.todo) /\ run'.open = FALSE /\ run'.score = run.score
        /\ run'.counter = run.counter /\ run'.epoch = run.epoch
        /\ run' \in [at : {"idle", "epoch", "save", "test"}, epoch : Nat,
              best : Losses \cup {Inf}, score : Losses \cup {Inf}, counter : Nat,
              losses : Seq(Losses \cup {NaN}), todo : Todos, open : BOOLEAN]
    BY <1>2, <2>1 DEF TrainingInv, TrainingTypes
  <2>4. BestIsKept'
    <3>1. CASE name = "best"
      <4>1. run.losses[n] = run.best
        BY <1>2, <3>1 DEF TrainingInv, BestIsKept, n
      <4> QED
        BY <1>1, <1>2, <1>4, <2>2, <2>3, <3>1, <4>1, TodoLists DEF TrainingInv, BestIsKept
    <3>2. CASE run.todo = <<"last">>
      BY <1>1, <1>2, <2>2, <2>3, <3>2, TodoLists DEF TrainingInv, BestIsKept
    <3>3. CASE name = "last" /\ run.todo = <<"last", "best">>
      <4>1. run'.todo = <<"best">>
        BY <1>2, <2>3, <3>3, TodoLists
      <4> QED
        BY <1>1, <2>3, <3>3, <4>1 DEF TrainingInv, BestIsKept
    <3> QED
      BY <1>2, <3>1, <3>2, <3>3
  <2>5. CounterCounts'
    BY <2>3 DEF TrainingInv, CounterCounts, Before
  <2> QED
    BY <1>1, <2>2, <2>3, <2>4, <2>5 DEF TrainingInv, TrainingTypes
<1> QED
  BY <1>5, <1>6

LEMMA EndEpochInv ==
  ASSUME TrainingInv, EndEpoch
  PROVE  TrainingInv'
<1> DEFINE n == Len(run.losses)
           c == Counted(run.losses[n])
           ends == c.counter >= Patience \/ run.epoch + 1 >= NumEpochs
<1>1. /\ run.at = "save" /\ run.todo = <<>> /\ UNCHANGED <<files, epochs>>
      /\ run' = [run EXCEPT !.score = c.score, !.counter = c.counter,
                   !.at = IF ends THEN "test" ELSE "epoch",
                   !.epoch = IF ends THEN @ ELSE @ + 1]
  BY DEF EndEpoch
<1>2. /\ run.losses # <<>> /\ run.losses \in Seq(Losses \cup {NaN}) /\ run.epoch \in Nat
      /\ run.score \in Losses \cup {Inf} /\ run.counter \in Nat /\ run.counter < Patience
      /\ Counts(Before, run.score, run.counter)
  BY <1>1 DEF TrainingInv, TrainingTypes, BestIsKept, CounterCounts
<1>3. n \in 1..Len(run.losses) /\ run.losses[n] \in Losses \cup {NaN}
  BY <1>2, EmptySeq, LenProperties, ElementOfSeq
<1>4. /\ c.score \in Losses \cup {Inf} /\ c.counter \in Nat /\ c.counter <= Patience
      /\ Counts(run.losses, c.score, c.counter)
  <2>1. CASE Below(run.losses[n], run.score - MinDelta)
    <3>1. c.score = run.losses[n] /\ c.counter = 0
      BY <2>1 DEF Counted
    <3>2. run.losses[n] # NaN
      BY <2>1 DEF Below
    <3>3. Counts(run.losses, run.losses[n], 0)
      BY <1>2, <2>1, CountsNext DEF Before
    <3> HIDE DEF c, n
    <3> QED
      BY <1>3, <3>1, <3>2, <3>3, LossNumbers
  <2>2. CASE ~Below(run.losses[n], run.score - MinDelta)
    <3>1. c.score = run.score /\ c.counter = run.counter + 1
      BY <2>2 DEF Counted
    <3>2. Counts(run.losses, run.score, run.counter + 1)
      BY <1>2, <2>2, CountsNext DEF Before
    <3> HIDE DEF c, n
    <3> QED
      BY <1>2, <3>1, <3>2, LossNumbers
  <2> QED
    BY <2>1, <2>2
<1> HIDE DEF c, n
<1>5. /\ run'.at = (IF ends THEN "test" ELSE "epoch") /\ run'.best = run.best
      /\ run'.losses = run.losses /\ run'.todo = run.todo /\ run'.open = run.open
      /\ run'.score = c.score /\ run'.counter = c.counter
      /\ run'.epoch = (IF ends THEN run.epoch ELSE run.epoch + 1)
  <2> HIDE DEF ends
  <2> QED
    BY <1>1 DEF TrainingInv, TrainingTypes
<1>6. run' \in [at : {"idle", "epoch", "save", "test"}, epoch : Nat,
              best : Losses \cup {Inf}, score : Losses \cup {Inf}, counter : Nat,
              losses : Seq(Losses \cup {NaN}), todo : Todos, open : BOOLEAN]
  <2>1. run'.at \in {"idle", "epoch", "save", "test"} /\ run'.epoch \in Nat
    BY <1>2, <1>5
  <2>2. run' = [at |-> run'.at, epoch |-> run'.epoch, best |-> run'.best, score |-> run'.score,
                counter |-> run'.counter, losses |-> run'.losses, todo |-> run'.todo,
                open |-> run'.open]
    BY <1>1 DEF TrainingInv, TrainingTypes
  <2>3. /\ run.best \in Losses \cup {Inf} /\ run.todo \in Todos /\ run.open \in BOOLEAN
    BY DEF TrainingInv, TrainingTypes
  <2> HIDE DEF ends
  <2> QED
    BY <1>2, <1>4, <1>5, <2>1, <2>2, <2>3
<1>7. BestIsKept'
  BY <1>1, <1>5 DEF TrainingInv, BestIsKept
<1>8. CounterCounts'
  <2>1. run'.at # "save"
    BY <1>5
  <2>2. run'.at # "test" => c.counter < Patience
    BY <1>4, <1>5, LossNumbers
  <2>3. run'.at = "test" => c.counter = Patience \/ run'.epoch + 1 >= NumEpochs
    BY <1>4, <1>5, LossNumbers
  <2> QED
    BY <1>4, <1>5, <2>1, <2>2, <2>3 DEF CounterCounts
<1> QED
  BY <1>1, <1>6, <1>7, <1>8 DEF TrainingInv, TrainingTypes

LEMMA TrainingStepInv ==
  ASSUME TrainingInv, [LatentNext]_latentVars
  PROVE  TrainingInv'
<1>1. ASSUME NEW resume \in BOOLEAN, Start(resume) PROVE TrainingInv'
  BY <1>1, StartInv
<1>2. ASSUME TrainEpoch PROVE TrainingInv'
  BY <1>2, TrainEpochInv
<1>3. ASSUME OpenCheckpoint \/ CloseCheckpoint PROVE TrainingInv'
  BY <1>3, CheckpointInv
<1>4. ASSUME EndEpoch PROVE TrainingInv'
  BY <1>4, EndEpochInv
<1>5. ASSUME Test \/ Kill PROVE TrainingInv'
  BY <1>5, IdleRun DEF Test, Kill, TrainingInv, TrainingTypes
<1>6. ASSUME UNCHANGED trainingVars PROVE TrainingInv'
  BY <1>6 DEF trainingVars, TrainingInv, TrainingTypes, BestIsKept, CounterCounts, Before
<1>7. LoadWeights \/ Tick \/ (\E b \in Bars : Encode(b)) \/ UNCHANGED latentVars
        => UNCHANGED trainingVars
  BY DEF LoadWeights, Tick, Encode, latentVars, trainingVars
<1> QED
  BY <1>1, <1>2, <1>3, <1>4, <1>5, <1>6, <1>7 DEF LatentNext, TrainingStep

(* Inference.                                                              *)
LEMMA CacheNumbers ==
  /\ ShortTTL \in Nat /\ LongTTL \in Nat /\ 0 < LongTTL /\ ShortTTL <= LongTTL
BY LatentAssumption

LEMMA EncodeInv ==
  ASSUME ServingInv, NEW bar \in Bars, Encode(bar)
  PROVE  ServingInv'
<1> DEFINE Latents == [weights : Nat, made : Nat, till : Nat]
           fresh == [weights |-> engine, made |-> now, till |-> 0]
<1>1. /\ engine' = engine /\ now' = now /\ engine \in Nat /\ now \in Nat
      /\ cache \in [Bars -> Latents] /\ fresh \in Latents
  BY DEF Encode, ServingInv, ServingTypes
<1>2. CASE Answer(bar) /\ served' = cache[bar] /\ UNCHANGED cache
  <2>1. served' \in Latents /\ CacheIsRecent'
    BY <1>1, <1>2 DEF ServingInv, CacheIsRecent
  <2>2. /\ cache[bar].till <= cache[bar].made + LongTTL /\ now < cache[bar].till
        /\ cache[bar].till \in Nat /\ cache[bar].made \in Nat
    BY <1>1, <1>2 DEF Answer, ServingInv, CacheIsRecent
  <2>3. LatentIsRecent'
    BY <1>1, <1>2, <2>2, CacheNumbers DEF LatentIsRecent
  <2> QED
    BY <1>1, <1>2, <2>1, <2>3 DEF ServingInv, ServingTypes
<1>3. CASE served' = fresh /\ \E till \in {now + ShortTTL, now + LongTTL} :
                cache' \in {cache, [cache EXCEPT ![bar] = [fresh EXCEPT !.till = till]]}
  <2>1. PICK till \in {now + ShortTTL, now + LongTTL} :
          cache' \in {cache, [cache EXCEPT ![bar] = [fresh EXCEPT !.till = till]]}
    BY <1>3
  <2> DEFINE kept == [fresh EXCEPT !.till = till]
  <2>2. till \in Nat /\ till <= now + LongTTL
    BY <1>1, CacheNumbers
  <2>3. kept \in Latents /\ kept.till <= kept.made + LongTTL
    BY <1>1, <2>2
  <2> HIDE DEF kept
  <2>4. cache' \in [Bars -> Latents]
    BY <1>1, <2>1, <2>3 DEF kept
  <2>5. CacheIsRecent'
    <3> SUFFICES ASSUME NEW b \in Bars
                 PROVE  cache'[b].weights # 0 => cache'[b].till <= cache'[b].made + LongTTL
      BY DEF CacheIsRecent
    <3>1. cache'[b] = cache[b] \/ cache'[b] = kept
      BY <1>1, <2>1 DEF kept
    <3> QED
      BY <2>3, <3>1 DEF ServingInv, CacheIsRecent
  <2>6. LatentIsRecent'
    BY <1>1, <1>3, CacheNumbers DEF LatentIsRecent
  <2> QED
    BY <1>1, <1>3, <2>4, <2>5, <2>6 DEF ServingInv, ServingTypes
<1> QED
  BY <1>2, <1>3 DEF Encode

LEMMA ServingStepInv ==
  ASSUME TrainingInv, ServingInv, [LatentNext]_latentVars
  PROVE  ServingInv'
<1>1. ASSUME LoadWeights PROVE ServingInv'
  <2>1. files["best"].weights \in Nat
    BY DEF TrainingInv, TrainingTypes, Checkpoint
  <2> QED
    BY <1>1, <2>1 DEF LoadWeights, ServingInv, ServingTypes, CacheIsRecent, LatentIsRecent
<1>2. ASSUME Tick PROVE ServingInv'
  BY <1>2 DEF Tick, ServingInv, ServingTypes, CacheIsRecent, LatentIsRecent, NoLatent
<1>3. ASSUME NEW b \in Bars, Encode(b) PROVE ServingInv'
  BY <1>3, EncodeInv
<1>4. ASSUME UNCHANGED servingVars PROVE ServingInv'
  BY <1>4 DEF servingVars, ServingInv, ServingTypes, CacheIsRecent, LatentIsRecent
<1>5. (\E resume \in BOOLEAN : Start(resume)) \/ TrainingStep \/ Kill \/ UNCHANGED latentVars
        => UNCHANGED servingVars
  BY DEF Start, TrainingStep, TrainEpoch, OpenCheckpoint, CloseCheckpoint, EndEpoch, Test, Kill,
         latentVars, servingVars
<1> QED
  BY <1>1, <1>2, <1>3, <1>4, <1>5 DEF LatentNext

LEMMA LatentStartsRight ==
  LatentInit => TrainingInv /\ ServingInv
<1> SUFFICES ASSUME LatentInit PROVE TrainingInv /\ ServingInv
  OBVIOUS
<1>1. /\ run.at = "idle" /\ run.best = Inf /\ run.score = Inf /\ run.counter = 0
      /\ run.losses = <<>> /\ run.todo = <<>> /\ run.open = FALSE
  BY DEF LatentInit, NoRun
<1>2. TrainingTypes
  BY EmptySeq, FileNumbers DEF LatentInit, TrainingTypes, NoRun, Todos
<1>3. Len(<<>>) = 0
  OBVIOUS
<1>4. BestIsKept
  BY <1>1, <1>3, TodoLists DEF BestIsKept, LowestLoss
<1>5. CounterCounts
  BY <1>1, <1>3, CountsStart, LossNumbers DEF CounterCounts
<1>6. ServingInv
  BY DEF LatentInit, ServingInv, ServingTypes, CacheIsRecent, LatentIsRecent, NoLatent
<1> QED
  BY <1>2, <1>4, <1>5, <1>6 DEF TrainingInv

(* The least of a set of natural numbers.                                  *)
LEMMA MinIsLeast ==
  ASSUME NEW T, T \subseteq Nat, T # {}
  PROVE  Min(T) \in T /\ \A y \in T : Min(T) <= y
<1> DEFINE R == OpToRel(<, Nat)
<1>1. \E x \in T : \A y \in T : ~ (<<y, x>> \in R)
  BY NatLessThanWellFounded, WFMin
<1>2. \A x, y \in Nat : <<y, x>> \in R <=> y < x
  BY DEF OpToRel
<1> HIDE DEF R
<1>3. PICK x \in T : \A y \in T : ~ (<<y, x>> \in R)
  BY <1>1
<1>4. ASSUME NEW y \in T PROVE x <= y
  <2>1. ~ (y < x)
    BY <1>2, <1>3, Zenon
  <2> QED
    BY <2>1
<1> QED
  BY <1>4 DEF Min

LEMMA BestStaysBest == TrainingInv => BestIsBest
<1> SUFFICES ASSUME TrainingInv, run.at \in {"epoch", "test"}, Finite # {}
             PROVE  IsWhole(files["best"]) /\ files["best"].loss = Min(Finite)
  BY DEF BestIsBest
<1> DEFINE n == Len(run.losses)
<1>1. /\ run.losses \in Seq(Losses \cup {NaN}) /\ run.best \in Losses \cup {Inf}
      /\ LowestLoss(run.best, run.losses) /\ run.todo = <<>>
      /\ run.best # Inf => IsWhole(files["best"]) /\ files["best"].loss = run.best
  BY TodoLists DEF TrainingInv, TrainingTypes, BestIsKept
<1>2. /\ DOMAIN run.losses = 1..n
      /\ \A i \in 1..n : run.losses[i] \in Losses \cup {NaN}
  BY <1>1, LenProperties, ElementOfSeq
<1>3. Finite \subseteq Losses /\ Finite \subseteq Nat
  BY <1>2, LossNumbers DEF Finite
<1>4. \A x \in Finite : run.best <= x
  BY <1>1, <1>2 DEF Finite, LowestLoss
<1>5. run.best # Inf
  <2>1. PICK x \in Finite : TRUE
    OBVIOUS
  <2>2. x \in Losses /\ x < Inf /\ x \in Nat /\ run.best <= x
    BY <1>3, <1>4, LossNumbers
  <2> QED
    BY <2>2, LossNumbers
<1>6. run.best \in Finite
  <2>1. run.best # NaN
    BY <1>1, <1>5, LossNumbers
  <2> QED
    BY <1>1, <1>2, <1>5, <2>1 DEF LowestLoss, Finite
<1>7. Min(Finite) = run.best
  <2>1. Min(Finite) \in Finite /\ \A y \in Finite : Min(Finite) <= y
    BY <1>3, MinIsLeast
  <2>2. run.best <= Min(Finite) /\ Min(Finite) <= run.best
    BY <1>4, <1>6, <2>1
  <2>3. run.best \in Nat /\ Min(Finite) \in Nat
    BY <1>3, <1>6, <2>1
  <2> HIDE DEF n
  <2> QED
    BY <2>2, <2>3
<1> QED
  BY <1>1, <1>5, <1>7

LEMMA StopsForAReason == TrainingInv => StoppedForAReason
<1> DEFINE n == Len(run.losses)
           k == n - Patience
           S == {run.losses[j] : j \in 1..k} \cup {Inf}
<1> SUFFICES ASSUME TrainingInv, run.at = "test", n > 0, run.epoch + 1 < NumEpochs
             PROVE  /\ k >= 0
                    /\ \A i \in (k + 1)..n : ~Below(run.losses[i], Min(S) - MinDelta)
  BY DEF StoppedForAReason
<1>1. /\ run.losses \in Seq(Losses \cup {NaN}) /\ n \in Nat /\ run.losses # <<>>
      /\ \A i \in 1..n : run.losses[i] \in Losses \cup {NaN}
      /\ run.epoch \in Nat /\ run.score \in Losses \cup {Inf}
  <2>1. /\ run.losses \in Seq(Losses \cup {NaN}) /\ run.epoch \in Nat
        /\ run.score \in Losses \cup {Inf}
    BY DEF TrainingInv, TrainingTypes
  <2> QED
    BY <2>1, EmptySeq, LenProperties, ElementOfSeq
<1>2. /\ Counts(run.losses, run.score, run.counter) /\ run.counter = Patience
  BY <1>1, LossNumbers DEF TrainingInv, CounterCounts
<1>3. k >= 0 /\ k \in Nat /\ k <= n
  BY <1>1, <1>2, LossNumbers DEF Counts
<1>4. S \subseteq Nat /\ S # {}
  <2>1. \A j \in 1..k : j \in 1..n /\ run.losses[j] \in Losses \cup {NaN}
    BY <1>1, <1>3
  <2> HIDE DEF k, n
  <2> QED
    BY <2>1, LossNumbers
<1>5. run.score \in S
  BY <1>1, <1>2 DEF Counts
<1>6. /\ \A i \in (k + 1)..n : ~Below(run.losses[i], run.score - MinDelta)
  BY <1>1, <1>2 DEF Counts
<1>7. Min(S) \in Nat /\ Min(S) <= run.score /\ run.score \in Nat
  BY <1>4, <1>5, MinIsLeast
<1> HIDE DEF S, k
<1>8. ASSUME NEW i \in (k + 1)..n PROVE ~Below(run.losses[i], Min(S) - MinDelta)
  <2>1. i \in 1..n
    BY <1>1, <1>3
  <2>2. run.losses[i] \in Nat
    BY <1>1, <2>1, LossNumbers
  <2>3. ~Below(run.losses[i], run.score - MinDelta)
    BY <1>6
  <2> HIDE DEF n
  <2> QED
    BY <1>7, <2>2, <2>3, LossNumbers DEF Below
<1> QED
  BY <1>3, <1>8

(* The best checkpoint holds the lowest loss of the run between epochs and *)
(* at its end, a run that stops early has gone its patience without a real *)
(* improvement, and no latent vector older than the longer time to live is *)
(* served: for every sequence of losses, NaN among them, every kill and    *)
(* resume, and every failure of the cache.                                 *)
THEOREM LatentAlwaysSound == LatentSpec => []LatentSound
<1>1. LatentInit => TrainingInv /\ ServingInv
  BY LatentStartsRight
<1>2. TrainingInv /\ ServingInv /\ [LatentNext]_latentVars => TrainingInv' /\ ServingInv'
  BY TrainingStepInv, ServingStepInv
<1>3. TrainingInv /\ ServingInv => LatentSound
  BY BestStaysBest, StopsForAReason DEF ServingInv, LatentSound, TrainingSound
<1> QED
  BY <1>1, <1>2, <1>3, PTL DEF LatentSpec

=============================================================================
