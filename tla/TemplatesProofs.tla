--------------------------- MODULE TemplatesProofs ---------------------------
(***************************************************************************)
(* Proofs about Templates for every number of threads, every history of    *)
(* the page and its include, and all texts and directories, also those     *)
(* whose keys coincide.                                                    *)
(***************************************************************************)
EXTENDS Templates, TLAPS

Pairs == {Text[v] : v \in 1..MaxPage} \X Nat
EnvType == [text : 1..MaxPage, mode : Modes, include : Nat]
JobType == [at : {"free", "compile", "compiled", "mj", "rendered"}, mode : Modes, text : 0..MaxPage,
            includeThen : Nat, shownThen : SUBSET Pairs, output : Nat \X Nat]

TplTypeOK ==
  /\ page \in 1..MaxPage /\ include \in Nat \ {0}
  /\ shown \in SUBSET Pairs
  /\ job \in [Threads -> JobType]
  /\ \A k \in DOMAIN cache : cache[k] \in EnvType

(* An environment is found under the key of its own text and mode, and what it
   has loaded was shown by the render that loaded it. *)
EnvOK(k) ==
  /\ Key(cache[k].text, cache[k].mode) = k
  /\ cache[k].mode = "loaded" /\ cache[k].include # NotLoaded
       => <<Text[cache[k].text], cache[k].include>> \in shown

JobKey(j) == Key(j.text, j.mode)

(* A job's environment has loaded nothing older than the job that was not
   shown before the job began. *)
Fresh(j) ==
  (/\ j.at \in {"compile", "compiled"} /\ j.mode = "loaded" /\ ~Ambiguous(j.text, "loaded")
   /\ JobKey(j) \in DOMAIN cache)
    => \/ cache[JobKey(j)].include = NotLoaded
       \/ cache[JobKey(j)].include >= j.includeThen
       \/ <<Text[j.text], cache[JobKey(j)].include>> \in j.shownThen

(* RendersItsText and StaleOnlyIfShown, of one job. *)
OwnText(j) ==
  j.output # NoOutput /\ ~Ambiguous(j.text, j.mode) =>
    /\ Text[j.output[1]] = Text[j.text]
    /\ j.output[2] = NotLoaded <=> j.mode = "inline"

StaleShown(j) ==
  (/\ j.output # NoOutput /\ j.mode = "loaded" /\ ~Ambiguous(j.text, "loaded")
   /\ j.output[2] < j.includeThen)
     => <<Text[j.output[1]], j.output[2]>> \in j.shownThen

JobOK(j) ==
  /\ j.at # "free" => j.text \in 1..MaxPage /\ j.includeThen <= include
  /\ j.at = "compiled" => JobKey(j) \in DOMAIN cache
  /\ Fresh(j) /\ OwnText(j) /\ StaleShown(j)

TplInv ==
  /\ TplTypeOK
  /\ \A k \in DOMAIN cache : EnvOK(k)
  /\ \A t \in Threads : JobOK(job[t])

(* A key that is not ambiguous belongs to one text and one mode. *)
LEMMA OneText ==
  ASSUME NEW v \in 1..MaxPage, NEW m \in Modes, NEW w, NEW l,
         ~Ambiguous(w, l), Key(v, m) = Key(w, l)
  PROVE  Text[v] = Text[w] /\ m = l
  BY DEF Ambiguous, Key

LEMMA TplTypes ==
  ASSUME TplTypeOK, NEW t \in Threads
  PROVE  /\ job[t] \in JobType
         /\ job[t].at \in {"free", "compile", "compiled", "mj", "rendered"}
         /\ job[t].mode \in Modes /\ job[t].text \in 0..MaxPage
         /\ job[t].includeThen \in Nat /\ job[t].shownThen \in SUBSET Pairs
         /\ job[t].output \in Nat \X Nat
<1>1. job[t] \in JobType
  BY DEF TplTypeOK
<1> QED
  BY <1>1 DEF JobType

(* What a step may do to the cache without disturbing a job that does not
   move: keep every environment, add one that has loaded nothing, and let one
   load the include as it is now. *)
Gently ==
  /\ include' \in Nat /\ include <= include'
  /\ \A k \in DOMAIN cache : k \in DOMAIN cache'
  /\ \A k \in DOMAIN cache' : \/ k \in DOMAIN cache /\ cache'[k].include = cache[k].include
                              \/ cache'[k].include \in {NotLoaded, include}

LEMMA OthersKeep ==
  ASSUME TplInv, Gently, NEW t \in Threads, job'[t] = job[t]
  PROVE  JobOK(job[t])'
<1> DEFINE j == job[t]
<1>0. JobOK(j) /\ TplTypeOK
  BY DEF TplInv
<1>1. j.includeThen \in Nat /\ include \in Nat
  BY <1>0, TplTypes DEF TplTypeOK
<1>2. (j.at # "free" => j.text \in 1..MaxPage /\ j.includeThen <= include)
  BY <1>0 DEF JobOK
<1> HIDE DEF j
<1>3. j.at # "free" => j.text \in 1..MaxPage /\ j.includeThen <= include'
  BY <1>1, <1>2 DEF Gently
<1>4. j.at = "compiled" => JobKey(j) \in DOMAIN cache'
  BY <1>0 DEF JobOK, Gently
<1>5. ASSUME j.at \in {"compile", "compiled"}, j.mode = "loaded", ~Ambiguous(j.text, "loaded"),
             JobKey(j) \in DOMAIN cache'
      PROVE  \/ cache'[JobKey(j)].include = NotLoaded
             \/ cache'[JobKey(j)].include >= j.includeThen
             \/ <<Text[j.text], cache'[JobKey(j)].include>> \in j.shownThen
  <2>1. CASE JobKey(j) \in DOMAIN cache /\ cache'[JobKey(j)].include = cache[JobKey(j)].include
    BY <1>0, <1>5, <2>1 DEF JobOK, Fresh
  <2>2. CASE cache'[JobKey(j)].include \in {NotLoaded, include}
    BY <1>1, <1>2, <1>5, <2>2
  <2> QED
    BY <1>5, <2>1, <2>2 DEF Gently
<1>6. OwnText(j) /\ StaleShown(j)
  BY <1>0 DEF JobOK
<1>7. /\ j.at # "free" => j.text \in 1..MaxPage /\ j.includeThen <= include'
      /\ j.at = "compiled" => JobKey(j) \in DOMAIN cache'
  BY <1>3, <1>4
<1> QED
  BY <1>5, <1>6, <1>7 DEF JobOK, Fresh, OwnText, StaleShown, JobKey, j, Key, Ambiguous

(* A job that has shown nothing satisfies what is said of outputs. *)
LEMMA Unshown ==
  ASSUME NEW j, j.output = NoOutput
  PROVE  OwnText(j) /\ StaleShown(j)
  BY DEF OwnText, StaleShown

(* Edits touch no environment and no job. *)
LEMMA EditsKeep == TplInv /\ (EditPage \/ EditInclude) => TplInv'
<1> SUFFICES ASSUME TplInv, EditPage \/ EditInclude PROVE TplInv'
  OBVIOUS
<1>0. TplTypeOK /\ \A k \in DOMAIN cache : EnvOK(k)
  BY DEF TplInv
<1>1. UNCHANGED <<cache, job, shown>>
  BY DEF EditPage, EditInclude
<1>2. page' \in 1..MaxPage /\ include' \in Nat \ {0} /\ include <= include'
  BY <1>0, VersionsAssumption DEF TplTypeOK, EditPage, EditInclude
<1>3. Gently
  BY <1>1, <1>2 DEF Gently
<1>4. \A t \in Threads : JobOK(job[t])'
  BY <1>1, <1>3, OthersKeep
<1>5. TplTypeOK'
  BY <1>0, <1>1, <1>2 DEF TplTypeOK
<1>6. (\A k \in DOMAIN cache : EnvOK(k))'
  BY <1>0, <1>1 DEF EnvOK, Key
<1> QED
  BY <1>4, <1>5, <1>6 DEF TplInv

(* A job that moves, while cache, include and history stay. *)
LEMMA JobMoves ==
  ASSUME TplInv, UNCHANGED <<page, include, cache, shown>>, NEW t \in Threads, NEW j \in JobType,
         job' = [job EXCEPT ![t] = j], JobOK(j)
  PROVE  TplInv'
<1>0. TplTypeOK /\ (\A k \in DOMAIN cache : EnvOK(k)) /\ (\A u \in Threads : JobOK(job[u]))
  BY DEF TplInv
<1>1. job' \in [Threads -> JobType] /\ job'[t] = j /\ \A u \in Threads : u # t => job'[u] = job[u]
  BY <1>0 DEF TplTypeOK
<1>2. TplTypeOK'
  BY <1>0, <1>1 DEF TplTypeOK
<1>3. (\A k \in DOMAIN cache : EnvOK(k))'
  BY <1>0 DEF EnvOK, Key
<1>4. ASSUME NEW u \in Threads PROVE JobOK(job[u])'
  <2>1. JobOK(job'[u])
    BY <1>0, <1>1
  <2> QED
    BY <2>1 DEF JobOK, Fresh, JobKey, Key, OwnText, StaleShown, Ambiguous
<1> QED
  BY <1>2, <1>3, <1>4 DEF TplInv

(* A free job, and a finished one. *)
LEMMA FreeOK == Free \in JobType /\ JobOK(Free)
<1>1. Free.at = "free" /\ Free.output = NoOutput
  BY DEF Free
<1>2. Free \in JobType
  BY VersionsAssumption DEF Free, JobType, Modes, NoOutput
<1>3. OwnText(Free) /\ StaleShown(Free)
  BY <1>1, Unshown
<1> QED
  BY <1>1, <1>2, <1>3 DEF JobOK, Fresh

LEMMA FinishKeeps == \A t \in Threads : TplInv /\ Finish(t) => TplInv'
<1> SUFFICES ASSUME NEW t \in Threads, TplInv, Finish(t) PROVE TplInv'
  OBVIOUS
<1> QED
  BY FreeOK, JobMoves DEF Finish, Done

(* A command reads its template: what a cached environment with its key has
   loaded was shown before. *)
LEMMA BeginKeeps ==
  ASSUME TplInv, NEW t \in Threads, NEW at \in {"compile", "mj"}, NEW mode \in Modes,
         NEW text \in 1..MaxPage, Begin(t, at, mode, text)
  PROVE  TplInv'
<1> DEFINE then == {o \in shown : mode = "loaded" /\ o[1] = Text[text]}
<1> DEFINE j == [at |-> at, mode |-> mode, text |-> text, output |-> NoOutput,
                 includeThen |-> include, shownThen |-> then]
<1>0. TplTypeOK /\ \A k \in DOMAIN cache : EnvOK(k)
  BY DEF TplInv
<1>1. UNCHANGED <<page, include, cache, shown>> /\ job' = [job EXCEPT ![t] = j]
  BY DEF Begin
<1>2. include \in Nat /\ include <= include /\ then \in SUBSET Pairs /\ MaxPage \in Nat
  BY <1>0, VersionsAssumption DEF TplTypeOK
<1>3. ASSUME mode = "loaded", ~Ambiguous(text, "loaded"), Key(text, mode) \in DOMAIN cache,
             cache[Key(text, mode)].include # NotLoaded
      PROVE  <<Text[text], cache[Key(text, mode)].include>> \in then
  <2> DEFINE e == cache[Key(text, mode)]
  <2>1. e \in EnvType /\ EnvOK(Key(text, mode))
    BY <1>0, <1>3 DEF TplTypeOK
  <2>2. e.text \in 1..MaxPage /\ e.mode \in Modes /\ Key(e.text, e.mode) = Key(text, mode)
    BY <2>1 DEF EnvType, EnvOK
  <2>3. Text[e.text] = Text[text] /\ e.mode = mode
    <3>1. ~Ambiguous(text, mode)
      BY <1>3
    <3> QED
      BY <2>2, <3>1, OneText
  <2>4. <<Text[e.text], e.include>> \in shown
    BY <1>3, <2>1, <2>3 DEF EnvOK
  <2> HIDE DEF e
  <2>5. <<Text[text], e.include>> \in then
    BY <1>3, <2>3, <2>4
  <2> QED
    BY <2>5 DEF e
<1> HIDE DEF then
<1>4. j \in JobType
  <2>1. text \in 0..MaxPage /\ NoOutput \in Nat \X Nat
    BY <1>2 DEF NoOutput
  <2> QED
    BY <1>2, <2>1 DEF JobType
<1>5. /\ j.at = at /\ j.mode = mode /\ j.text = text /\ j.output = NoOutput
      /\ j.includeThen = include /\ j.shownThen = then
  OBVIOUS
<1> HIDE DEF j
<1>6. OwnText(j) /\ StaleShown(j)
  BY <1>5, Unshown
<1>7. Fresh(j)
  BY <1>3, <1>5 DEF Fresh, JobKey
<1>8. JobOK(j)
  BY <1>2, <1>5, <1>6, <1>7 DEF JobOK
<1> QED
  BY <1>1, <1>4, <1>8, JobMoves

LEMMA ReadsKeep == \A t \in Threads : TplInv /\ (CompileReads(t) \/ MjReads(t)) => TplInv'
<1> SUFFICES ASSUME NEW t \in Threads, TplInv, CompileReads(t) \/ MjReads(t) PROVE TplInv'
  OBVIOUS
<1>1. page \in 1..MaxPage /\ "loaded" \in Modes /\ "inline" \in Modes
  BY DEF TplInv, TplTypeOK, Modes
<1>2. PICK at \in {"compile", "mj"}, mode \in Modes, text \in 1..MaxPage : Begin(t, at, mode, text)
  BY <1>1 DEF CompileReads, MjReads
<1> QED
  BY <1>2, BeginKeeps

(* `.mj` renders its own text with the include as it is. *)
LEMMA MjKeeps == \A t \in Threads : TplInv /\ MjRenders(t) => TplInv'
<1> SUFFICES ASSUME NEW t \in Threads, TplInv, MjRenders(t) PROVE TplInv'
  OBVIOUS
<1>0. TplTypeOK /\ JobOK(job[t])
  BY DEF TplInv
<1>1. UNCHANGED <<page, include, cache, shown>> /\ job[t].at = "mj"
  BY DEF MjRenders
<1>2. CASE job[t].text \in BadTexts
  BY <1>1, <1>2, FreeOK, JobMoves DEF MjRenders, Done
<1>3. CASE job[t].text \notin BadTexts
  <2> DEFINE out2 == IF job[t].mode = "inline" THEN NotLoaded ELSE include
  <2> DEFINE j == [job[t] EXCEPT !.at = "rendered", !.output = <<job[t].text, out2>>]
  <2>1. job' = [job EXCEPT ![t] = j]
    BY <1>0, <1>3 DEF MjRenders, TplTypeOK
  <2>2. /\ job[t] \in JobType /\ job[t].text \in 1..MaxPage /\ job[t].includeThen <= include
        /\ include \in Nat \ {0} /\ job[t].mode \in Modes /\ job[t].includeThen \in Nat
    BY <1>0, <1>1, TplTypes DEF JobOK, TplTypeOK
  <2>3. out2 \in Nat /\ (out2 = NotLoaded <=> job[t].mode = "inline")
    BY <2>2 DEF NotLoaded
  <2>4. j \in JobType
    <3>1. <<job[t].text, out2>> \in Nat \X Nat
      BY <2>2, <2>3
    <3> QED
      BY <2>2, <3>1 DEF JobType
  <2>5. /\ j.at = "rendered" /\ j.output = <<job[t].text, out2>> /\ j.mode = job[t].mode
        /\ j.text = job[t].text /\ j.includeThen = job[t].includeThen /\ j.shownThen = job[t].shownThen
    BY <2>2 DEF JobType
  <2>6. job[t].mode = "loaded" => ~(out2 < job[t].includeThen)
    BY <2>2
  <2> HIDE DEF j, out2
  <2>7. j.output[1] = job[t].text /\ j.output[2] = out2
    BY <2>5
  <2>8. OwnText(j) /\ StaleShown(j)
    BY <2>3, <2>5, <2>6, <2>7 DEF OwnText, StaleShown
  <2>9. JobOK(j)
    BY <2>2, <2>5, <2>8 DEF JobOK, Fresh
  <2> QED
    BY <1>1, <2>1, <2>4, <2>9, JobMoves
<1> QED
  BY <1>2, <1>3

(* A job as it was, one control state further. *)
LEMMA Advances ==
  ASSUME TplTypeOK, NEW t \in Threads
  PROVE  LET j == [job[t] EXCEPT !.at = "compiled"]
         IN  /\ j \in JobType /\ j.at = "compiled" /\ j.mode = job[t].mode /\ j.text = job[t].text
             /\ j.includeThen = job[t].includeThen /\ j.shownThen = job[t].shownThen
             /\ j.output = job[t].output
<1>1. job[t] \in JobType
  BY TplTypes
<1> QED
  BY <1>1 DEF JobType

(* `.mj compile` finds its environment or inserts a new one. *)
LEMMA InsertKeeps == \A t \in Threads : TplInv /\ CompileInserts(t) => TplInv'
<1> SUFFICES ASSUME NEW t \in Threads, TplInv, CompileInserts(t) PROVE TplInv'
  OBVIOUS
<1> DEFINE k == JobKey(job[t])
<1> DEFINE j == [job[t] EXCEPT !.at = "compiled"]
<1>0. TplTypeOK /\ JobOK(job[t]) /\ \A e \in DOMAIN cache : EnvOK(e)
  BY DEF TplInv
<1>1. UNCHANGED <<page, include, shown>> /\ job[t].at = "compile"
  BY DEF CompileInserts
<1>2. /\ j \in JobType /\ j.at = "compiled" /\ j.mode = job[t].mode /\ j.text = job[t].text
      /\ j.includeThen = job[t].includeThen /\ j.shownThen = job[t].shownThen
      /\ j.output = job[t].output
  BY <1>0, Advances
<1>3. [job EXCEPT ![t].at = "compiled"] = [job EXCEPT ![t] = j]
  BY <1>0 DEF TplTypeOK
<1> HIDE DEF j
<1>4. JobKey(j) = k /\ OwnText(j) /\ StaleShown(j)
  BY <1>0, <1>2 DEF JobOK, OwnText, StaleShown, JobKey
<1>5. job[t].text \in 1..MaxPage /\ job[t].includeThen <= include
  BY <1>0, <1>1 DEF JobOK
<1>6. CASE k \in DOMAIN cache
  <2>1. UNCHANGED cache /\ job' = [job EXCEPT ![t] = j]
    BY <1>3, <1>6 DEF CompileInserts, JobKey
  <2>2. Fresh(j)
    BY <1>0, <1>1, <1>2, <1>4 DEF JobOK, Fresh
  <2>3. JobOK(j)
    BY <1>2, <1>4, <1>5, <1>6, <2>2 DEF JobOK
  <2> QED
    BY <1>1, <1>2, <2>1, <2>3, JobMoves
<1>7. CASE k \notin DOMAIN cache /\ job[t].text \in BadTexts
  <2>1. UNCHANGED cache /\ job' = [job EXCEPT ![t] = Free]
    BY <1>7 DEF CompileInserts, JobKey, Done
  <2> QED
    BY <1>1, <2>1, FreeOK, JobMoves
<1>8. CASE k \notin DOMAIN cache /\ job[t].text \notin BadTexts
  <2> DEFINE env == [text |-> job[t].text, mode |-> job[t].mode, include |-> NotLoaded]
  <2>1. /\ job' = [job EXCEPT ![t] = j]
        /\ cache' = [e \in DOMAIN cache \cup {k} |-> IF e = k THEN env ELSE cache[e]]
    BY <1>3, <1>8 DEF CompileInserts, JobKey
  <2>2. DOMAIN cache' = DOMAIN cache \cup {k} /\ cache'[k] = env /\ \A e \in DOMAIN cache : cache'[e] = cache[e]
    BY <1>8, <2>1
  <2>3. env \in EnvType /\ env.include = NotLoaded /\ Key(env.text, env.mode) = k
    BY <1>0, <1>5, TplTypes DEF EnvType, NotLoaded, JobKey
  <2> HIDE DEF env, k
  <2>4. Gently
    BY <1>0, <1>1, <2>2, <2>3 DEF Gently, TplTypeOK
  <2>5. job' \in [Threads -> JobType] /\ job'[t] = j /\ \A u \in Threads : u # t => job'[u] = job[u]
    BY <1>0, <1>2, <2>1 DEF TplTypeOK
  <2>6. TplTypeOK'
    BY <1>0, <1>1, <2>2, <2>3, <2>5 DEF TplTypeOK
  <2>7. ASSUME NEW e \in DOMAIN cache' PROVE EnvOK(e)'
    <3>1. CASE e = k
      <4>1. cache'[e].include = NotLoaded /\ Key(cache'[e].text, cache'[e].mode) = e
        BY <2>2, <2>3, <3>1
      <4> QED
        BY <4>1 DEF EnvOK, Key
    <3>2. CASE e # k
      <4>1. e \in DOMAIN cache /\ cache'[e] = cache[e]
        BY <2>2, <3>2
      <4> QED
        BY <1>0, <1>1, <4>1 DEF EnvOK, Key
    <3> QED
      BY <3>1, <3>2
  <2>8. JobOK(job[t])'
    <3>1. JobKey(j) \in DOMAIN cache' /\ cache'[JobKey(j)].include = NotLoaded
      BY <1>4, <2>2, <2>3
    <3>2. j.text \in 1..MaxPage /\ j.includeThen <= include'
      BY <1>1, <1>2, <1>5
    <3> QED
      BY <1>4, <2>5, <3>1, <3>2 DEF JobOK, Fresh, JobKey, Key, OwnText, StaleShown, Ambiguous
  <2>9. \A u \in Threads : JobOK(job[u])'
    BY <2>4, <2>5, <2>8, OthersKeep
  <2> QED
    BY <2>6, <2>7, <2>9 DEF TplInv
<1> QED
  BY <1>6, <1>7, <1>8

(* `.mj render` uses the environment under the job's key. *)
LEMMA RenderKeeps == \A t \in Threads : TplInv /\ Render(t) => TplInv'
<1> SUFFICES ASSUME NEW t \in Threads, TplInv, Render(t) PROVE TplInv'
  OBVIOUS
<1> DEFINE k == JobKey(job[t])
<1> DEFINE env == cache[k]
<1> DEFINE inc == Loads(env)
<1> DEFINE j == [job[t] EXCEPT !.output = <<env.text, inc>>]
<1>0. TplTypeOK /\ JobOK(job[t]) /\ \A e \in DOMAIN cache : EnvOK(e)
  BY DEF TplInv
<1>1. /\ UNCHANGED <<page, include>> /\ job[t].at = "compiled"
      /\ cache' = [cache EXCEPT ![k].include = inc]
      /\ job' = [job EXCEPT ![t].output = <<env.text, inc>>]
      /\ shown' = shown \cup {<<Text[env.text], inc>>}
  BY DEF Render, GetCompiled, JobKey
<1>2. /\ k \in DOMAIN cache /\ job[t].text \in 1..MaxPage /\ job[t].includeThen <= include
      /\ job[t] \in JobType /\ job[t].includeThen \in Nat /\ include \in Nat \ {0} /\ job[t].mode \in Modes
  BY <1>0, <1>1, TplTypes DEF JobOK, TplTypeOK
<1>3. env \in EnvType /\ EnvOK(k)
  BY <1>0, <1>2 DEF TplTypeOK
<1>4. env.text \in 1..MaxPage /\ env.mode \in Modes /\ env.include \in Nat /\ Key(env.text, env.mode) = k
  BY <1>3 DEF EnvType, EnvOK
<1>5. /\ inc \in Nat /\ (env.mode = "inline" => inc = NotLoaded)
      /\ (env.mode = "loaded" => inc # NotLoaded /\ inc \in {env.include, include}
                                 /\ (env.include # NotLoaded => inc = env.include))
  BY <1>2, <1>4 DEF Loads, NotLoaded, Modes
<1>6. j \in JobType /\ job' = [job EXCEPT ![t] = j]
  <2>1. <<env.text, inc>> \in Nat \X Nat
    BY <1>4, <1>5
  <2> QED
    BY <1>0, <1>1, <1>2, <2>1 DEF JobType, TplTypeOK
<1>7. /\ j.at = job[t].at /\ j.mode = job[t].mode /\ j.text = job[t].text
      /\ j.includeThen = job[t].includeThen /\ j.shownThen = job[t].shownThen
      /\ j.output[1] = env.text /\ j.output[2] = inc
  BY <1>2 DEF JobType
<1>8. /\ DOMAIN cache' = DOMAIN cache /\ (\A e \in DOMAIN cache : e # k => cache'[e] = cache[e])
      /\ cache'[k] \in EnvType /\ cache'[k].text = env.text /\ cache'[k].mode = env.mode /\ cache'[k].include = inc
  <2>1. cache'[k] = [env EXCEPT !.include = inc]
    BY <1>1, <1>2
  <2>2. /\ [env EXCEPT !.include = inc] \in EnvType /\ [env EXCEPT !.include = inc].text = env.text
        /\ [env EXCEPT !.include = inc].mode = env.mode /\ [env EXCEPT !.include = inc].include = inc
    BY <1>3, <1>5 DEF EnvType
  <2> QED
    BY <1>1, <2>1, <2>2
<1>9. EnvOK(k)
  BY <1>3
<1>10. Fresh(job[t])
  BY <1>0 DEF JobOK
<1> HIDE DEF inc, j, env
<1>11. ASSUME ~Ambiguous(job[t].text, job[t].mode)
       PROVE  Text[env.text] = Text[job[t].text] /\ env.mode = job[t].mode
  BY <1>4, <1>11, OneText DEF JobKey
<1>12. OwnText(j)
  BY <1>2, <1>5, <1>7, <1>11 DEF OwnText, Modes
<1>13. ASSUME job[t].mode = "loaded", ~Ambiguous(job[t].text, "loaded")
       PROVE  \/ inc >= job[t].includeThen
              \/ <<Text[job[t].text], inc>> \in job[t].shownThen
  <2>1. env.mode = "loaded"
    BY <1>11, <1>13
  <2>2. CASE env.include = NotLoaded
    <3>1. inc = include
      BY <1>5, <2>1, <2>2
    <3> QED
      BY <1>2, <3>1
  <2>3. CASE env.include # NotLoaded
    <3>1. inc = env.include
      BY <1>5, <2>1, <2>3
    <3> QED
      BY <1>1, <1>2, <1>10, <1>13, <2>3, <3>1 DEF Fresh, env
  <2> QED
    BY <2>2, <2>3
<1>14. StaleShown(j)
  <2>1. ASSUME job[t].mode = "loaded", ~Ambiguous(job[t].text, "loaded"), inc < job[t].includeThen
        PROVE  <<Text[env.text], inc>> \in job[t].shownThen
    BY <1>2, <1>5, <1>11, <1>13, <2>1
  <2> QED
    BY <1>7, <2>1 DEF StaleShown
<1>15. Gently
  <2>1. cache'[k].include \in {NotLoaded, include} \/ cache'[k].include = cache[k].include
    BY <1>4, <1>5, <1>8 DEF Modes, env
  <2> HIDE DEF k
  <2> QED
    BY <1>1, <1>2, <1>8, <2>1 DEF Gently
<1>16. job' \in [Threads -> JobType] /\ job'[t] = j /\ \A u \in Threads : u # t => job'[u] = job[u]
  BY <1>0, <1>6 DEF TplTypeOK
<1>17. TplTypeOK'
  <2>1. <<Text[env.text], inc>> \in Pairs
    BY <1>4, <1>5 DEF Pairs
  <2>2. shown' \in SUBSET Pairs
    BY <1>0, <1>1, <2>1 DEF TplTypeOK
  <2>3. \A e \in DOMAIN cache' : cache'[e] \in EnvType
    BY <1>0, <1>8 DEF TplTypeOK
  <2> QED
    BY <1>0, <1>1, <1>16, <2>2, <2>3 DEF TplTypeOK
<1>18. ASSUME NEW e \in DOMAIN cache' PROVE EnvOK(e)'
  <2>1. CASE e = k
    <3>1. Key(cache'[e].text, cache'[e].mode) = e
      BY <1>4, <1>8, <2>1
    <3>2. <<Text[cache'[e].text], cache'[e].include>> \in shown'
      BY <1>1, <1>8, <2>1
    <3> QED
      BY <3>1, <3>2 DEF EnvOK, Key
  <2>2. CASE e # k
    <3>1. e \in DOMAIN cache /\ cache'[e] = cache[e] /\ EnvOK(e)
      BY <1>0, <1>8, <2>2
    <3>2. \A o \in shown : o \in shown'
      BY <1>1
    <3>3. /\ Key(cache'[e].text, cache'[e].mode) = e
          /\ cache'[e].mode = "loaded" /\ cache'[e].include # NotLoaded
               => <<Text[cache'[e].text], cache'[e].include>> \in shown'
      BY <3>1, <3>2 DEF EnvOK
    <3> QED
      BY <3>3 DEF EnvOK, Key
  <2> QED
    BY <2>1, <2>2
<1>19. JobOK(job[t])'
  <2>1. JobKey(j) = k
    BY <1>7 DEF JobKey
  <2>2. ASSUME j.mode = "loaded", ~Ambiguous(j.text, "loaded")
        PROVE  \/ cache'[JobKey(j)].include >= j.includeThen
               \/ <<Text[j.text], cache'[JobKey(j)].include>> \in j.shownThen
    BY <1>7, <1>8, <1>13, <2>1, <2>2
  <2>3. /\ j.text \in 1..MaxPage /\ j.includeThen <= include' /\ JobKey(j) \in DOMAIN cache'
    BY <1>1, <1>2, <1>7, <1>8, <2>1
  <2>4. OwnText(j) /\ StaleShown(j)
    BY <1>12, <1>14
  <2> QED
    BY <1>16, <2>2, <2>3, <2>4 DEF JobOK, Fresh, JobKey, Key, OwnText, StaleShown, Ambiguous
<1>20. \A u \in Threads : JobOK(job[u])'
  BY <1>15, <1>16, <1>19, OthersKeep
<1> QED
  BY <1>17, <1>18, <1>20 DEF TplInv

LEMMA TplInitially == TplInit => TplInv
<1> SUFFICES ASSUME TplInit PROVE TplInv
  OBVIOUS
<1>1. DOMAIN cache = {} /\ page = 1 /\ include = 1 /\ shown = {} /\ \A t \in Threads : job[t] = Free
  BY DEF TplInit
<1>2. job \in [Threads -> JobType]
  BY FreeOK DEF TplInit
<1>3. 1 \in 1..MaxPage
  BY VersionsAssumption
<1>4. TplTypeOK
  BY <1>1, <1>2, <1>3 DEF TplTypeOK
<1> QED
  BY <1>1, <1>4, FreeOK DEF TplInv

LEMMA TplStep == TplInv /\ [TplNext]_tplVars => TplInv'
<1> SUFFICES ASSUME TplInv, [TplNext]_tplVars PROVE TplInv'
  OBVIOUS
<1>1. CASE UNCHANGED tplVars
  <2>1. UNCHANGED <<page, include, cache, job, shown>>
    BY <1>1 DEF tplVars
  <2>2. TplTypeOK /\ \A k \in DOMAIN cache : EnvOK(k)
    BY DEF TplInv
  <2>3. Gently
    BY <2>1, <2>2 DEF Gently, TplTypeOK
  <2>4. TplTypeOK'
    BY <2>1, <2>2 DEF TplTypeOK
  <2>5. (\A k \in DOMAIN cache : EnvOK(k))'
    BY <2>1, <2>2 DEF EnvOK, Key
  <2>6. (\A t \in Threads : JobOK(job[t]))'
    BY <2>1, <2>3, OthersKeep
  <2> QED
    BY <2>4, <2>5, <2>6 DEF TplInv
<1>2. CASE EditPage \/ EditInclude
  BY <1>2, EditsKeep
<1>3. CASE \E t \in Threads : CompileReads(t) \/ MjReads(t)
  BY <1>3, ReadsKeep
<1>4. CASE \E t \in Threads : CompileInserts(t)
  BY <1>4, InsertKeeps
<1>5. CASE \E t \in Threads : Render(t)
  BY <1>5, RenderKeeps
<1>6. CASE \E t \in Threads : MjRenders(t)
  BY <1>6, MjKeeps
<1>7. CASE \E t \in Threads : Finish(t)
  BY <1>7, FinishKeeps
<1> QED
  BY <1>1, <1>2, <1>3, <1>4, <1>5, <1>6, <1>7 DEF TplNext

(* The inductive invariant of the template cache and its users. *)
THEOREM TplInvariance == TplSpec => []TplInv
  BY TplInitially, TplStep, PTL DEF TplSpec

(* CompiledTemplate::render finds what `.mj compile` put into the cache:
   get_compiled(hash).expect("template not in cache") never panics. *)
THEOREM CompiledIsCached ==
  TplSpec => [](\A t \in Threads : job[t].at = "compiled" => Key(job[t].text, job[t].mode) \in DOMAIN cache)
<1>1. TplInv => \A t \in Threads : job[t].at = "compiled" => Key(job[t].text, job[t].mode) \in DOMAIN cache
  BY DEF TplInv, JobOK, JobKey
<1> QED
  BY <1>1, TplInvariance, PTL

(* A render shows the text its thread compiled, loaded or inline as compiled,
   whatever the shared cache held, unless its key is another pair's too. *)
THEOREM AlwaysRendersItsText == TplSpec => []RendersItsText
<1>1. TplInv => RendersItsText
  BY DEF TplInv, JobOK, OwnText, RendersItsText
<1> QED
  BY <1>1, TplInvariance, PTL

(* An include older than the compile is shown only if a render of the same
   page text had shown it before the compile. *)
THEOREM StaleWasShown == TplSpec => []StaleOnlyIfShown
<1>1. TplInv => StaleOnlyIfShown
  BY DEF TplInv, JobOK, StaleShown, StaleOnlyIfShown
<1> QED
  BY <1>1, TplInvariance, PTL
=============================================================================
