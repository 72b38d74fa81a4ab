------------------------------ MODULE LtmStore ------------------------------
(***************************************************************************)
(* What the LTM package remembers (packages/ltm/src): the turns of chats as *)
(* episodes, which fade into summaries, and the facts they state, of which  *)
(* the newest in a slot is shown.  Logs are append-only and each change is  *)
(* in the log when it is in memory; what a crash loses is the coroutines    *)
(* and the entry ids an ingest had not saved.                               *)
(*                                                                         *)
(* Turns are numbered in the order of their timestamps.  The maintenance    *)
(* commands (redact, purge, canonicalize) need the server stopped, because  *)
(* the store has one writer: they run while no coroutine does.              *)
(***************************************************************************)
EXTENDS Naturals, FiniteSetsExt

CONSTANTS
    LastTurn,    \* turns are 1..LastTurn
    Talkers,
    ChatOf,      \* the session of each turn
    Facts,
    Says,        \* the fact that the extractor finds in each turn, or Nothing
    Nothing,
    Slots,       \* sets of facts of which only one can be true: opposites, or
                 \* values of one single-valued predicate; a fact is in one at most
    Canonical,   \* the canonical fact of each fact
    Legacy,      \* facts learned before predicates were made canonical, and shown
    Workers,     \* ingests under way at once
    MaxRuns, MaxFolds, MaxCuts, MaxOrders  \* bounds: ingests, folds under way,
                                  \* ingests cut short, maintenance commands

Turns == 1..LastTurn

ASSUME LtmAssumption ==
    /\ LastTurn \in Nat /\ ChatOf \in [Turns -> Talkers]
    /\ Nothing \notin Facts /\ Says \in [Turns -> Facts \cup {Nothing}]
    /\ Slots \subseteq SUBSET Facts
    /\ \A s, r \in Slots : s = r \/ s \cap r = {}
    /\ \A s \in Slots : \A f, g \in s \cap Legacy : f = g
    /\ Canonical \in [Facts -> Facts] /\ Legacy \subseteq Facts
    /\ {MaxRuns, MaxFolds, MaxCuts, MaxOrders} \subseteq Nat

VARIABLES
    spoken,     \* the turns in the session files
    entries,    \* ingest-state.json: the turns taken in
    episode,    \* the episodic record of each turn
    summaries,  \* the active summaries, each the set of turns it stands for
    fact,       \* facts.jsonl
    job,        \* the ingests under way
    folds,      \* the groups that consolidate() is having summarized
    told,       \* history: the turns that each fact was learned from
    overwritten, \* history: facts of which one ingest overwrote what another wrote
    unsure,     \* history: facts that were redacted, moved, or of which an older
                \* statement was learned after a newer one
    forgotten,  \* history: the turns that were redacted
    overlapped, \* history: two ingests of one session were under way
    cut,        \* history: an ingest was cut short, by a crash or an error
    bypassed,   \* history: a fact got into its slot past the rule
    stranded,   \* history: turns whose summary went without a replacement
    ltmRuns, ltmCuts, ltmOrders

learning == <<told, overwritten, unsure, bypassed>>
ltmHistory == <<learning, forgotten, overlapped, cut, stranded>>
ltmBounds == <<ltmRuns, ltmCuts, ltmOrders>>
ltmVars == <<spoken, entries, episode, summaries, fact, job, folds,
             ltmHistory, ltmBounds>>

NoJob == [stage |-> "idle"]
Fact(state, hidden, mentions, seen, sources) ==
    [state |-> state, hidden |-> hidden, mentions |-> mentions,
     seen |-> seen, sources |-> sources]
Unknown == Fact("none", FALSE, 0, 0, {})
Tombstone(f) == [f EXCEPT !.state = "redacted", !.mentions = 0, !.sources = {}]
Shown(facts) == {f \in Facts : facts[f].state = "active" /\ ~facts[f].hidden}
Rivals(f) == (UNION {s \in Slots : f \in s}) \ {f}
Of(chat, turns) == {t \in turns : ChatOf[t] = chat}

LtmInit ==
    /\ spoken = {} /\ entries = {}
    /\ episode = [t \in Turns |-> "none"] /\ summaries = {}
    /\ fact = [f \in Facts |->
                  IF f \in Legacy THEN Fact("active", FALSE, 0, 0, {}) ELSE Unknown]
    /\ job = [w \in Workers |-> NoJob] /\ folds = {}
    /\ told = [f \in Facts |-> {}] /\ overwritten = {} /\ unsure = {} /\ bypassed = FALSE
    /\ forgotten = {} /\ overlapped = FALSE /\ cut = FALSE /\ stranded = {}
    /\ ltmRuns = 0 /\ ltmCuts = 0 /\ ltmOrders = 0

-----------------------------------------------------------------------------
(* Facts.                                                                  *)

\* A slip of Superseded: the statement that comes last wins, not the newest.
SupersededAlways(facts, f, t) ==
    [r \in Facts |->
        IF r \in Rivals(f) \cap Shown(facts)
        THEN [facts[r] EXCEPT !.hidden = TRUE] ELSE facts[r]]

\* supersedeContradictions(): what f contradicts gives way, unless it was said
\* later than t.
Superseded(facts, f, t) ==
    [r \in Facts |->
        IF r \in Rivals(f) \cap Shown(facts) /\ facts[r].seen =< t
        THEN [facts[r] EXCEPT !.hidden = TRUE] ELSE facts[r]]

\* assertFact(), with what it read before it awaited the embedding: a fact that
\* is known is reinforced and shown again, another is new.
Asserted(facts, f, known, t) ==
    LET stated == IF known.state = "active"
                  THEN Fact("active", FALSE, known.mentions + 1, t,
                            known.sources \cup {t})
                  ELSE Fact("active", FALSE, 1, t, {t})
    IN  Superseded([facts EXCEPT ![f] = stated], f, t)

AssertFact(f, known, t) ==
    /\ fact' = Asserted(fact, f, known, t)
    /\ told' = [told EXCEPT ![f] = @ \cup {t}]
    /\ overwritten' = IF known.sources = fact[f].sources THEN overwritten ELSE overwritten \cup {f}
    /\ unsure' = IF \E u \in told[f] : u > t THEN unsure \cup {f} ELSE unsure
    /\ bypassed' = (bypassed \/ \E r \in Rivals(f) : r \in Shown(fact')
                                                    /\ fact'[r].seen > t)

-----------------------------------------------------------------------------
(* ingestFile().                                                           *)

\* A turn ends up in its session file.
Speak ==
    \E t \in Turns :
        /\ t = Cardinality(spoken) + 1
        /\ spoken' = spoken \cup {t}
        /\ UNCHANGED <<entries, episode, summaries, fact, job, folds,
                       ltmHistory, ltmBounds>>

\* After agent_end, at the end of a subagent, or from the backfill job: nothing
\* keeps two of them off one session.
StartIngest(w, chat) ==
    /\ job[w] = NoJob /\ ltmRuns < MaxRuns
    /\ Of(chat, spoken \ entries) # {}
    /\ ltmRuns' = ltmRuns + 1
    /\ job' = [job EXCEPT ![w] =
                  [stage |-> "extract", chat |-> chat, known |-> Unknown,
                   seen |-> Of(chat, entries),
                   left |-> Of(chat, spoken \ entries), done |-> {}]]
    /\ overlapped' = (overlapped \/ \E v \in Workers \ {w} :
                                        job[v] # NoJob /\ job[v].chat = chat)
    /\ UNCHANGED <<spoken, entries, episode, summaries, fact, folds, learning,
                   forgotten, cut, stranded, ltmCuts, ltmOrders>>

Turn(w) == Min(job[w].left)

\* The extractor answers.  One that fails has found nothing, and is not asked
\* about this turn again.  A fact that is known, embedded and worded alike is
\* reinforced at once; otherwise its embedding is awaited, and what was read of
\* it until now is what will be written.
Extracted(w) ==
    /\ job[w].stage = "extract"
    /\ LET t == Turn(w)
           f == Says[t]
       IN  \/ /\ job' = [job EXCEPT ![w].stage = "embed"]
              /\ UNCHANGED <<fact, learning>>
           \/ /\ f # Nothing /\ fact[f].state = "active"
              /\ AssertFact(f, fact[f], t)
              /\ job' = [job EXCEPT ![w].stage = "embed"]
           \/ /\ f # Nothing
              /\ job' = [job EXCEPT ![w].stage = "phrase", ![w].known = fact[f]]
              /\ UNCHANGED <<fact, learning>>
    /\ UNCHANGED <<spoken, entries, episode, summaries, folds, forgotten,
                   overlapped, cut, stranded, ltmBounds>>

Phrased(w) ==
    /\ job[w].stage = "phrase"
    /\ AssertFact(Says[Turn(w)], job[w].known, Turn(w))
    /\ job' = [job EXCEPT ![w].stage = "embed", ![w].known = Unknown]
    /\ UNCHANGED <<spoken, entries, episode, summaries, folds, forgotten,
                   overlapped, cut, stranded, ltmBounds>>

\* The text is embedded: on to the next turn, or the records of all are stored
\* and the turns are noted as taken in -- those this ingest knows of.
Embedded(w) ==
    /\ job[w].stage = "embed"
    /\ LET t == Turn(w)
           left == job[w].left \ {t}
           done == job[w].done \cup {t}
       IN  \/ /\ left # {}
              /\ job' = [job EXCEPT ![w].stage = "extract", ![w].left = left,
                                    ![w].done = done]
              /\ UNCHANGED <<episode, entries>>
           \/ /\ left = {}
              /\ episode' = [u \in Turns |-> IF u \in done THEN "active" ELSE episode[u]]
              /\ entries' = (entries \ Of(job[w].chat, Turns)) \cup job[w].seen \cup done
              /\ job' = [job EXCEPT ![w] = NoJob]
    /\ UNCHANGED <<spoken, summaries, fact, folds, ltmHistory, ltmBounds>>

\* The embedder fails: the ingest throws, and what it learned stays.
Fails(w) ==
    /\ job[w].stage = "embed" /\ ltmCuts < MaxCuts
    /\ ltmCuts' = ltmCuts + 1
    /\ cut' = TRUE
    /\ job' = [job EXCEPT ![w] = NoJob]
    /\ UNCHANGED <<spoken, entries, episode, summaries, fact, folds, learning,
                   forgotten, overlapped, stranded, ltmRuns, ltmOrders>>

\* The process dies or is stopped.
Stop ==
    /\ folds # {} \/ \E w \in Workers : job[w] # NoJob
    /\ ltmCuts < MaxCuts
    /\ ltmCuts' = ltmCuts + 1
    /\ cut' = (cut \/ \E w \in Workers : job[w] # NoJob)
    /\ job' = [w \in Workers |-> NoJob] /\ folds' = {}
    /\ UNCHANGED <<spoken, entries, episode, summaries, fact, learning, forgotten,
                   overlapped, stranded, ltmRuns, ltmOrders>>

-----------------------------------------------------------------------------
(* consolidate(): the faded turns of a session, two or more, become one.    *)

FoldStart(chat) ==
    /\ Cardinality(folds) < MaxFolds
    /\ \E group \in SUBSET Of(chat, {t \in Turns : episode[t] = "active"}) :
          /\ Cardinality(group) >= 2
          /\ folds' = folds \cup {group}
    /\ UNCHANGED <<spoken, entries, episode, summaries, fact, job,
                   ltmHistory, ltmBounds>>

\* The summary comes, or the summarizer fails or has nothing to say.
FoldEnd(group) ==
    /\ folds' = folds \ {group}
    /\ \/ /\ episode' = [t \in Turns |-> IF t \in group THEN "consolidated"
                                         ELSE episode[t]]
          /\ summaries' = summaries \cup {group}
       \/ UNCHANGED <<episode, summaries>>
    /\ UNCHANGED <<spoken, entries, fact, job, ltmHistory, ltmBounds>>

-----------------------------------------------------------------------------
(* With the server stopped.                                                *)

Stopped == folds = {} /\ \A w \in Workers : job[w] = NoJob

Order ==
    /\ Stopped /\ ltmOrders < MaxOrders
    /\ ltmOrders' = ltmOrders + 1

\* What the facts were learned from, of those that are left.
ToldOf(facts) == [f \in Facts |-> IF facts[f].state = "active" THEN told[f] ELSE {}]
Gone(facts) == {f \in Facts : fact[f].state = "active" /\ facts[f].state = "redacted"}

\* redactBySources(): a fact without evidence goes, another counts what is left.
WithoutSources(facts, gone) ==
    [f \in Facts |->
        IF facts[f].state # "active" \/ facts[f].sources \cap gone = {} THEN facts[f]
        ELSE IF facts[f].sources \subseteq gone THEN Tombstone(facts[f])
        ELSE [facts[f] EXCEPT !.sources = @ \ gone,
                              !.mentions = Cardinality(facts[f].sources \ gone)]]

\* redact(): of a record, or of a session with its summaries.  A summary that
\* held a redacted turn is made again of those that are left, if they are two.
Redact ==
    /\ Order
    /\ \E gone \in {{t} : t \in Turns} \cup {Of(c, Turns) : c \in Talkers},
          whole \in SUBSET summaries :
          /\ whole \in {{}} \cup {{s} : s \in summaries}
                       \cup {{s \in summaries : s \cap gone # {}}}
          /\ LET turns == {t \in gone : episode[t] \in {"active", "consolidated"}}
                 hit == {s \in summaries \ whole : s \cap turns # {}}
                 again == {s \in {h \ turns : h \in hit} : Cardinality(s) >= 2}
             IN  /\ turns # {} \/ whole # {}
                 /\ episode' = [t \in Turns |-> IF t \in turns THEN "redacted"
                                                ELSE episode[t]]
                 /\ fact' = WithoutSources(fact, turns)
                 /\ told' = ToldOf(fact') /\ unsure' = unsure \cup Gone(fact')
                 /\ summaries' = (summaries \ (whole \cup hit)) \cup again
                 /\ forgotten' = forgotten \cup turns
                 /\ stranded' = stranded \cup
                       ((UNION (whole \cup hit)) \ (UNION again))
    /\ UNCHANGED <<spoken, entries, job, folds, overwritten, bypassed, overlapped, cut,
                   ltmRuns, ltmCuts>>

\* purgeStaleFacts(): the facts that the extractor no longer finds in any source
\* it can read, unless that is more than half of all.
Purge ==
    /\ Order
    /\ \E stale \in SUBSET Shown(fact) :
          /\ stale # {} /\ 2 * Cardinality(stale) =< Cardinality(Shown(fact))
          /\ fact' = [f \in Facts |-> IF f \in stale THEN Tombstone(fact[f]) ELSE fact[f]]
          /\ told' = ToldOf(fact') /\ unsure' = unsure \cup stale
    /\ UNCHANGED <<spoken, entries, episode, summaries, job, folds, overwritten, bypassed,
                   forgotten, overlapped, cut, stranded, ltmRuns, ltmCuts>>

\* canonicalizeAndDedup(), for one fact: it is merged into its canonical form,
\* or becomes it.  Contradictions are not looked for.
Canonicalize ==
    /\ Order
    /\ \E f \in Shown(fact) :
          LET c == Canonical[f]
              merged == IF c \in Shown(fact)
                        THEN Fact("active", FALSE, fact[c].mentions + fact[f].mentions,
                                  Max({fact[c].seen, fact[f].seen}),
                                  fact[c].sources \cup fact[f].sources)
                        ELSE fact[f]
          IN  /\ c # f
              /\ fact' = [fact EXCEPT ![c] = merged, ![f] = Tombstone(@)]
              /\ told' = [told EXCEPT ![c] = IF c \in Shown(fact) THEN @ \cup told[f] ELSE told[f],
                                      ![f] = {}]
              /\ overwritten' = IF f \in overwritten THEN overwritten \cup {c} ELSE overwritten
              /\ unsure' = unsure \cup {f} \cup
                              IF c \in Shown(fact) /\ f \notin unsure THEN {} ELSE {c}
              /\ bypassed' = (bypassed \/ c \notin Shown(fact))
    /\ UNCHANGED <<spoken, entries, episode, summaries, job, folds, forgotten,
                   overlapped, cut, stranded, ltmRuns, ltmCuts>>

-----------------------------------------------------------------------------
LtmNext ==
    \/ Speak
    \/ \E w \in Workers :
          \/ \E c \in Talkers : StartIngest(w, c)
          \/ Extracted(w) \/ Phrased(w) \/ Embedded(w) \/ Fails(w)
    \/ Stop
    \/ \E c \in Talkers : FoldStart(c)
    \/ \E g \in folds : FoldEnd(g)
    \/ Redact \/ Purge \/ Canonicalize

LtmSpec == LtmInit /\ [][LtmNext]_ltmVars

-----------------------------------------------------------------------------
(* Properties.                                                             *)

FactOK(f) ==
    /\ f.state \in {"none", "active", "redacted"} /\ f.hidden \in BOOLEAN
    /\ f.mentions \in Nat /\ f.seen \in Turns \cup {0} /\ f.sources \subseteq Turns

LtmTypeOK ==
    /\ spoken \subseteq Turns /\ entries \subseteq spoken
    /\ episode \in [Turns -> {"none", "active", "consolidated", "redacted"}]
    /\ summaries \subseteq SUBSET Turns /\ folds \subseteq SUBSET Turns
    /\ DOMAIN fact = Facts /\ \A f \in Facts : FactOK(fact[f])
    /\ told \in [Facts -> SUBSET Turns] /\ overwritten \cup unsure \subseteq Facts
    /\ \A w \in Workers :
          job[w] # NoJob =>
              /\ job[w].stage \in {"extract", "phrase", "embed"}
              /\ job[w].left # {} /\ FactOK(job[w].known)
              /\ job[w].seen \cup job[w].left \cup job[w].done
                    \subseteq Of(job[w].chat, spoken)

\* Ingest is incremental: a turn's facts are learned from it once, however often
\* its session is ingested, with a crash or an error in between too as long as
\* none of them cuts an ingest short (pipeline/ingest.ts:3-5, 78-101).  A fact
\* rests on every turn it was learned from and that was not redacted, and its
\* count of mentions is their number -- unless two ingests of one session
\* overlapped, or one of another session wrote of the fact while this one awaited
\* its embedding, and what that wrote is lost (semantic/store.ts:149-193).
LearnedOnce ==
    overlapped \/
    \A f \in Facts \ overwritten :
        /\ fact[f].sources = told[f] \ forgotten
        /\ cut \/ fact[f].mentions = Cardinality(told[f] \ forgotten)

\* Not so: "re-running over a live store only processes new entries"
\* (pipeline/ingest.ts:3-5).  Two ingests of one session that overlap learn the
\* same turns twice.
IngestIsIncremental ==
    \A f \in Facts : ~cut => fact[f].mentions = Cardinality(fact[f].sources)

\* A slot shows one value -- unless a statement was learned after a rival's that
\* was made later, or canonicalisation moved a fact into the slot -- and that of a
\* fact that was stated is not empty, unless something in it was redacted
\* (semantic/store.ts:197-213).
OneValuePerSlot ==
    \A slot \in Slots :
        /\ bypassed \/ Cardinality(slot \cap Shown(fact)) =< 1
        /\ (\E f \in slot : fact[f].state = "active")
              /\ (\A f \in slot : fact[f].state # "redacted")
              => slot \cap Shown(fact) # {}

\* The newest statement wins: of the values of a slot the one that was stated last
\* shows, in whatever order the sessions are ingested -- unless a value in the slot
\* was redacted, purged or moved, or an older statement of the same value came after
\* a newer one, which puts its lastSeenAt back (semantic/store.ts:163, 197-214).
\* Statements of other sessions and redacted statements of a value count.
Newest(slot) ==
    {f \in slot : \E t \in told[f] : \A g \in slot \ {f} : \A u \in told[g] : u < t}
NewestShows ==
    \A slot \in Slots : slot \cap unsure = {} => Newest(slot) \subseteq Shown(fact)

\* Not so: "newest statement wins" (semantic/store.ts:196).  A value stated last
\* gives way to an older one, when a still older statement of it was learned since.
NewestWins ==
    \A slot \in Slots :
        (\A f \in slot : fact[f].state # "redacted") => Newest(slot) \subseteq Shown(fact)

\* What was redacted stays so: no ingest, fold or rebuilt summary brings a turn
\* back, nor a fact that rested on it (api/memory-system.ts:716-801) -- while an
\* ingest does not overwrite what another one noted.
StaysForgotten ==
    overlapped \/
    \A t \in forgotten :
        /\ episode[t] = "redacted"
        /\ \A s \in summaries : t \notin s
        /\ \A f \in Shown(fact) : t \notin fact[f].sources

\* Nothing fades without a trace: a turn that was taken in and not redacted is
\* active, or a summary stands for it (episodic/consolidate.ts:86-143).  A lone
\* survivor of a redaction is the exception (api/memory-system.ts:757-786).
NothingLost ==
    \A t \in Turns \ stranded :
        episode[t] = "consolidated" => \E s \in summaries : t \in s

\* What the store knows is what was said to it, through overlapping ingests, folds,
\* redactions and crashes: each turn counts once (LearnedOnce), the newest value of a
\* slot shows and no other (NewestShows, OneValuePerSlot), what was forgotten does
\* not come back, and what faded is in a summary.  Each part names above what the
\* code lets slip: mentions lost between overlapping ingests, or counted twice after
\* one was cut short, and older statements that were learned after newer ones.
LtmSound == LearnedOnce /\ OneValuePerSlot /\ NewestShows /\ StaysForgotten /\ NothingLost
=============================================================================
