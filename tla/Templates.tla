------------------------------ MODULE Templates ------------------------------
(***************************************************************************)
(* The template commands of src/commands.rs: `.mj`, `.mj compile` and      *)
(* `.mj render`, and the cache of compiled templates they share for the    *)
(* life of the process, across requests and reloads.                       *)
(*                                                                         *)
(* One page and one file that it includes, both edited outside, as         *)
(* version numbers; a topic of the store takes the place of a file alike.  *)
(* An inline template is some version's text without a loader.  Texts and  *)
(* directories are sequences of pieces: the cache key runs them together.  *)
(***************************************************************************)
EXTENDS Naturals, Sequences

CONSTANTS Threads,    \* evaluation threads
          Text,       \* Text[v]: the page's text in version v
          Dir,        \* Dir[m]: base_dir of a page that is loaded, or inline
          BadTexts,   \* versions of the page that do not parse
          MaxPage,    \* bound: versions of the page
          MaxInclude  \* bound: versions of the included file

ASSUME VersionsAssumption == MaxPage \in Nat \ {0} /\ MaxInclude \in Nat \ {0}

VARIABLES
  page,     \* the page's current version
  include,  \* the included file's current version
  cache,    \* TEMPLATE_CACHE: the environments inserted, by key
  job,      \* [Threads -> what the thread is doing with a template]
  shown     \* history: <<text, include>> pairs renders of cached templates showed

tplVars == <<page, include, cache, job, shown>>

Modes == {"loaded", "inline"}
NotLoaded == 0
NoOutput == <<0, 0>>

Free == [at |-> "free", mode |-> "loaded", text |-> 0, includeThen |-> 0, shownThen |-> {},
         output |-> NoOutput]

TplInit ==
  /\ page = 1 /\ include = 1
  /\ cache = [k \in {} |-> 0]
  /\ job = [t \in Threads |-> Free]
  /\ shown = {}

-----------------------------------------------------------------------------
EditPage ==
  /\ page < MaxPage /\ page' = page + 1
  /\ UNCHANGED <<include, cache, job, shown>>

EditInclude ==
  /\ include < MaxInclude /\ include' = include + 1
  /\ UNCHANGED <<page, cache, job, shown>>

Begin(t, at, mode, text) ==
  /\ job[t].at = "free"
  /\ job' = [job EXCEPT ![t] = [at |-> at, mode |-> mode, text |-> text, output |-> NoOutput,
                                includeThen |-> include,
                                shownThen |-> {o \in shown : mode = "loaded" /\ o[1] = Text[text]}]]
  /\ UNCHANGED <<page, include, cache, shown>>

(* `.mj compile` reads the file or the topic, or has its text inline. *)
CompileReads(t) ==
  \/ Begin(t, "compile", "loaded", page)
  \/ \E text \in 1..MaxPage : Begin(t, "compile", "inline", text)

BadKey(text, mode) == Text[text]   \* hash the source only

(* hash_source_and_path: the text and then where its includes come from, with
   nothing in between (the hash itself is taken to have no collisions) *)
Key(text, mode) == Text[text] \o Dir[mode]

Done(t) == job' = [job EXCEPT ![t] = Free]

(* compile_template_with_loader, under the write lock: an environment that is
   there already is kept, with what it has loaded; a text that does not parse
   is not inserted. *)
CompileInserts(t) ==
  /\ job[t].at = "compile"
  /\ LET k == Key(job[t].text, job[t].mode)
     IN  IF k \in DOMAIN cache
           THEN job' = [job EXCEPT ![t].at = "compiled"] /\ UNCHANGED cache
           ELSE IF job[t].text \in BadTexts
           THEN Done(t) /\ UNCHANGED cache
           ELSE /\ job' = [job EXCEPT ![t].at = "compiled"]
                /\ cache' = [e \in DOMAIN cache \cup {k} |->
                               IF e = k THEN [text |-> job[t].text, mode |-> job[t].mode,
                                              include |-> NotLoaded]
                                        ELSE cache[e]]
  /\ UNCHANGED <<page, include, shown>>

BadLoads(env) ==             \* one loader's memory for the whole process
  IF env.mode = "inline" THEN NotLoaded
  ELSE IF \E e \in DOMAIN cache : cache[e].include # NotLoaded
    THEN cache[CHOOSE e \in DOMAIN cache : cache[e].include # NotLoaded].include
    ELSE include

(* An environment loads an include when a render first needs it, and keeps it
   (external: minijinja's loader); inline templates have none. *)
Loads(env) ==
  IF env.mode = "inline" THEN NotLoaded
  ELSE IF env.include = NotLoaded THEN include ELSE env.include

(* CompiledTemplate::render: get_compiled(hash).expect("template not in cache") *)
GetCompiled(t) == cache[Key(job[t].text, job[t].mode)]

(* `.mj render`, any number of times *)
Render(t) ==
  /\ job[t].at = "compiled"
  /\ LET env == GetCompiled(t)
         output == <<env.text, Loads(env)>>
     IN  /\ cache' = [cache EXCEPT ![Key(job[t].text, job[t].mode)].include = Loads(env)]
         /\ job' = [job EXCEPT ![t].output = output]
         /\ shown' = shown \cup {<<Text[env.text], Loads(env)>>}
  /\ UNCHANGED <<page, include>>

(* `.mj`: an environment of its own for every call *)
MjReads(t) ==
  \/ Begin(t, "mj", "loaded", page)
  \/ \E text \in 1..MaxPage : Begin(t, "mj", "inline", text)

MjRenders(t) ==
  /\ job[t].at = "mj"
  /\ IF job[t].text \in BadTexts
       THEN Done(t)
       ELSE job' = [job EXCEPT ![t].at = "rendered",
                               ![t].output = <<job[t].text, IF job[t].mode = "inline" THEN NotLoaded
                                                            ELSE include>>]
  /\ UNCHANGED <<page, include, cache, shown>>

(* The handler, or the engine that held the compiled template, is gone. *)
Finish(t) ==
  /\ job[t].at \in {"compiled", "rendered"}
  /\ Done(t)
  /\ UNCHANGED <<page, include, cache, shown>>

TplNext ==
  \/ EditPage \/ EditInclude
  \/ \E t \in Threads : \/ CompileReads(t) \/ CompileInserts(t) \/ Render(t)
                        \/ MjReads(t) \/ MjRenders(t) \/ Finish(t)

TplSpec == TplInit /\ [][TplNext]_tplVars

-----------------------------------------------------------------------------
(* Another text and directory that run together into the same key *)
Ambiguous(text, mode) ==
  \E v \in 1..MaxPage, m \in Modes :
    /\ <<Text[v], m>> # <<Text[text], mode>>
    /\ Text[v] \o Dir[m] = Text[text] \o Dir[mode]

(* A render shows the text its thread compiled, whatever other threads and
   earlier engines have put into the shared cache, and includes are resolved
   where the template says: never for an inline one with the same text.  Only
   a text that runs together with its directory into the key of another pair
   ("synthetic base_dir for cache key uniqueness") can show that other one. *)
RendersItsText ==
  \A t \in Threads : job[t].output # NoOutput /\ ~Ambiguous(job[t].text, job[t].mode) =>
    /\ Text[job[t].output[1]] = Text[job[t].text]
    /\ job[t].output[2] = NotLoaded <=> job[t].mode = "inline"

(* A reload can render an include that is older than its compile, because the
   environment is found in the cache - but only what a render of the very same
   page text had shown before: an edit of the page always brings the includes
   up to date, and `.mj` is never stale. *)
StaleOnlyIfShown ==
  \A t \in Threads :
    (/\ job[t].output # NoOutput /\ job[t].mode = "loaded"
     /\ ~Ambiguous(job[t].text, "loaded")
     /\ job[t].output[2] < job[t].includeThen)
      => <<Text[job[t].output[1]], job[t].output[2]>> \in job[t].shownThen
=============================================================================
