------------------------------ MODULE Compaction ------------------------------
(***************************************************************************)
(* The size of a chat session's context: when it is found too large, how   *)
(* it is compacted -- before a prompt, in a running turn, or after the     *)
(* provider refused it -- and what is recorded of it                       *)
(* (server/src/compaction.ts with the hooks in server/src/manager.ts).     *)
(*                                                                         *)
(* One turn at a time: how starts race is in module Session, what happens  *)
(* to the file in module SessionFile.  Sizes are in thousands of tokens.   *)
(***************************************************************************)
EXTENDS Integers, Sequences

CONSTANTS
    Windows,          \* contextWindow of the models
    MaxOutput,        \* maxTokens of a model
    Cushion, Floor,   \* 16k and 32k: the reserve
    KeepRecent,       \* 20k: keepRecentTokens
    Inputs,           \* sizes of messages and of tool results
    SummarySizes,     \* sizes of summaries
    MaxSends, MaxLoops, MaxModels  \* bounds: messages, calls of tools, models set

ASSUME CompactionAssumption ==
    /\ Windows \subseteq Nat /\ \A w \in Windows : w >= 2
    /\ {MaxOutput, Cushion, Floor, KeepRecent} \subseteq Nat
    /\ Inputs \subseteq Nat \ {0} /\ SummarySizes \subseteq Nat \ {0}
    /\ {MaxSends, MaxLoops, MaxModels} \subseteq Nat

VARIABLES
    enabled,     \* YTSEJAM_COMPACTION_ENABLED, read when a session is opened
    window,      \* contextWindow of the session's model
    context,     \* what buildContext() gives: the messages
    stage,       \* what the session does
    input,       \* the message that waits for the compaction before it
    pendingComp, \* pendingCompaction
    retried,     \* reactiveRetryAttempted
    event,       \* the last compaction event recorded
    recoveries,  \* history: recoveries since a message came or a turn went well
    sends, loops, models

compVars == <<enabled, window, context, stage, input, pendingComp, retried, event,
              recoveries, sends, loops, models>>

Least(a, b) == IF a < b THEN a ELSE b
Largest(a, b) == IF a > b THEN a ELSE b

\* computeReserveTokens(); the budget is what is left.
Reserve(w) == Least(Largest(MaxOutput + Cushion, Floor), w \div 2)
Budget(w) == w - Reserve(w)

\* A message: its size, how much of it is text, and the usage that the provider
\* reported with it, 0 if none.
Msg(role, size, text, usage) == [role |-> role, size |-> size, text |-> text, usage |-> usage]
Note == Msg("note", 0, 0, 0)

Total(c, field) ==
    LET sum[i \in 0..Len(c)] == IF i = 0 THEN 0 ELSE sum[i - 1] + c[i][field]
    IN sum[Len(c)]
Size(c) == Total(c, "size")

\* estimateContextTokens() of pi-agent-core: the usage of the last answer, and
\* what came after it.
Estimate(c) ==
    LET measured == {i \in 1..Len(c) : c[i].usage > 0}
    IN IF measured = {} THEN Size(c)
       ELSE LET last == CHOOSE i \in measured : \A j \in measured : j <= i
            IN c[last].usage + Size(SubSeq(c, last + 1, Len(c)))

CompactionInit ==
    /\ enabled \in BOOLEAN /\ window \in Windows /\ context = <<>>
    /\ stage = "idle" /\ input = 0 /\ pendingComp = "none" /\ retried = FALSE
    /\ event = [path |-> "none", succeeded |-> FALSE, size |-> 0, window |-> window]
    /\ recoveries = 0 /\ sends = 0 /\ loops = 0 /\ models = 0

-----------------------------------------------------------------------------
(* The turn.                                                               *)

\* sendMessage() and injectMessage(): runPendingCompactionAtIdle() goes first.
Send(n) ==
    /\ stage = "idle" /\ sends < MaxSends
    /\ sends' = sends + 1 /\ recoveries' = 0
    /\ IF pendingComp = "none"
       THEN /\ stage' = "call" /\ context' = Append(context, Msg("user", n, n, 0))
            /\ UNCHANGED input
       ELSE stage' = "compact_idle" /\ input' = n /\ UNCHANGED context
    /\ UNCHANGED <<enabled, window, pendingComp, retried, event, loops, models>>

\* The context hook before each call of the model.
Hook ==
    /\ stage = "call"
    /\ stage' = IF pendingComp = "none" THEN "calling" ELSE "compact_inner_loop"
    /\ UNCHANGED <<enabled, window, context, input, pendingComp, retried, event, recoveries,
                   sends, loops, models>>

\* turn_end of a turn that did not fail: whether to compact.
Decided(c) ==
    IF enabled /\ Estimate(c) > Budget(window) THEN "proactive" ELSE pendingComp

TurnGoesWell(c) ==
    /\ context' = c
    /\ retried' = FALSE /\ recoveries' = 0
    /\ pendingComp' = Decided(c)

\* The model answers, after a call of tools with another call to come.
ModelAnswers ==
    /\ stage = "calling" /\ Size(context) <= window
    /\ LET used == Size(context) + 1
       IN \/ /\ TurnGoesWell(Append(context, Msg("answer", 1, 1, used)))
             /\ stage' = "ended" /\ UNCHANGED loops
          \/ /\ loops < MaxLoops /\ loops' = loops + 1
             /\ \E n \in Inputs :
                   TurnGoesWell(context \o <<Msg("answer", 1, 0, used), Msg("tool", n, n, 0)>>)
             /\ stage' = "call"
    /\ UNCHANGED <<enabled, window, input, event, sends, models>>

\* The user aborts the turn: its message has no usage.
TurnAborted ==
    /\ stage = "calling"
    /\ TurnGoesWell(Append(context, Msg("aborted", 0, 0, 0)))
    /\ stage' = "ended"
    /\ UNCHANGED <<enabled, window, input, event, sends, loops, models>>

TurnErrs ==
    /\ stage = "calling"
    /\ context' = Append(context, Msg("failed", 0, 0, 0))
    /\ stage' = "ended"
    /\ UNCHANGED <<enabled, window, input, pendingComp, retried, event, recoveries, sends,
                   loops, models>>

\* The provider refuses the prompt (classifyOverflow): a recovery is asked for,
\* or after one the session gives up with a note.
Overflows ==
    /\ stage = "calling" /\ Size(context) > window
    /\ stage' = "ended"
    /\ LET c == Append(context, Msg("overflow", 0, 0, 0))
       IN IF ~enabled THEN context' = c /\ UNCHANGED <<retried, pendingComp>>
          ELSE IF retried
          THEN context' = Append(c, Note) /\ retried' = FALSE /\ pendingComp' = "none"
          ELSE context' = c /\ retried' = TRUE /\ pendingComp' = "reactive"
    /\ UNCHANGED <<enabled, window, input, event, recoveries, sends, loops, models>>

AgentEnds ==
    /\ stage = "ended"
    /\ IF pendingComp = "reactive"
       THEN stage' = "compact_reactive_path" /\ recoveries' = recoveries + 1
       ELSE stage' = "idle" /\ UNCHANGED recoveries
    /\ UNCHANGED <<enabled, window, context, input, pendingComp, retried, event, sends, loops, models>>

SetModel ==
    /\ stage = "idle" /\ models < MaxModels
    /\ models' = models + 1
    /\ window' \in Windows \ {window}
    /\ UNCHANGED <<enabled, context, stage, input, pendingComp, retried, event, recoveries,
                   sends, loops>>

-----------------------------------------------------------------------------
(* Compactions.                                                            *)

\* pi-agent-core keeps the recent messages, not from a tool result on; there is
\* nothing to compact if that is all of them, or if a compaction was the last.
FirstKept(c) ==
    LET enough == {i \in 1..Len(c) : Size(SubSeq(c, i, Len(c))) >= KeepRecent
                                     /\ c[i].role \notin {"tool", "summary"}}
    IN IF enough = {} THEN 1 ELSE CHOOSE i \in enough : \A j \in enough : j <= i

NothingToCompact(c) == FirstKept(c) = 1

\* estimateKeptSetTokens(): of the summary only the harness's event knows.
KeptEstimate(c, path, summary) ==
    Total(c, "text") + IF path = "inner_loop" THEN 0 ELSE summary

\* recordCompactionEvent() and buildCompactionEvent().
Recorded(path, done, c, summary) ==
    event' = [path |-> path, size |-> Size(c), window |-> window,
              succeeded |-> done /\ (KeptEstimate(c, path, summary) > 0
                                => KeptEstimate(c, path, summary) < Budget(window))]

\* What follows a compaction: the prompt that waited, the call of the model, the
\* retry -- or a note that it was given up.
Continues(c) ==
    /\ context' = CASE stage = "compact_idle" -> Append(c, Msg("user", input, input, 0))
                    [] stage = "compact_reactive_path" -> Append(c, Msg("user", 1, 1, 0))
                    [] OTHER -> c
    /\ stage' = IF stage = "compact_inner_loop" THEN "calling" ELSE "call"

\* A slip of GivesUp: no note tells the user.
GivesUpSilently(c) ==
    /\ context' = c
    /\ stage' = IF stage = "compact_inner_loop" THEN "calling" ELSE "idle"

GivesUp(c) ==
    /\ context' = Append(c, Note)
    /\ stage' = IF stage = "compact_inner_loop" THEN "calling" ELSE "idle"

CompactionEnds ==
    /\ pendingComp' = "none" /\ input' = 0
    /\ UNCHANGED <<enabled, window, retried, recoveries, sends, loops, models>>

Path == CASE stage = "compact_idle" -> "idle"
          [] stage = "compact_inner_loop" -> "inner_loop"
          [] OTHER -> "reactive_path"
Compacting == stage \in {"compact_idle", "compact_inner_loop", "compact_reactive_path"}

\* buildPostCompactionMessages(): the summary, and what is kept.
Compacted(summary) ==
    <<Msg("summary", summary, 0, 0)>>
        \o SubSeq(context, FirstKept(context), Len(context))

CompactionDone ==
    /\ Compacting /\ ~NothingToCompact(context)
    /\ \E n \in SummarySizes :
          Continues(Compacted(n)) /\ Recorded(Path, TRUE, Compacted(n), n)
    /\ CompactionEnds

\* No backup, nothing to compact (which in the loop is no event), no key or no
\* summary: before a prompt and in the loop it goes on with the whole context.
CompactionFails ==
    /\ Compacting
    /\ IF stage = "compact_reactive_path" THEN GivesUp(context) ELSE Continues(context)
    /\ \/ Recorded(Path, FALSE, context, 0)
       \/ stage = "compact_inner_loop" /\ NothingToCompact(context) /\ UNCHANGED event
    /\ CompactionEnds

\* The session file does not load any more; in the loop it is restored.  What is
\* in memory is compacted, unless appending was what failed.
CompactionSpoils ==
    /\ Compacting /\ ~NothingToCompact(context)
    /\ \E c \in {context} \cup {Compacted(n) : n \in SummarySizes} :
          GivesUp(c) /\ Recorded(Path, FALSE, c, 0)
    /\ CompactionEnds

-----------------------------------------------------------------------------
CompactionNext ==
    \/ \E n \in Inputs : Send(n)
    \/ Hook \/ ModelAnswers \/ TurnAborted \/ TurnErrs \/ Overflows \/ AgentEnds
    \/ SetModel
    \/ CompactionDone \/ CompactionFails \/ CompactionSpoils

CompactionSpec == CompactionInit /\ [][CompactionNext]_compVars

-----------------------------------------------------------------------------
(* Properties.                                                             *)

CompactionTypeOK ==
    /\ enabled \in BOOLEAN /\ window \in Windows /\ Budget(window) > 0
    /\ stage \in {"idle", "call", "calling", "ended", "compact_idle",
                  "compact_inner_loop", "compact_reactive_path"}
    /\ pendingComp \in {"none", "proactive", "reactive"} /\ retried \in BOOLEAN
    /\ input # 0 => stage = "compact_idle"
    /\ \A i \in 1..Len(context) : context[i].text <= context[i].size

\* A refused prompt is settled: the chat never rests on an overflow without a
\* retry that ended otherwise or a note to the user, and a message has one
\* recovery at most until a turn goes well -- also when the recovery fails, the
\* retry overflows or fails, or the model is changed for a smaller one
\* (manager.ts:594-692).
OverflowIsSettled ==
    /\ enabled /\ stage = "idle" /\ context # <<>> =>
          context[Len(context)].role # "overflow"
    /\ recoveries <= 1

\* Not so, though the reserve is capped lest a compaction fires "on every turn
\* regardless of actual prompt size" (compaction.ts:40-43): after a compaction
\* and a turn that is aborted, the estimate rests on the usage from before, and
\* a small context is compacted again.
CompactsWhenFull ==
    [][pendingComp = "none" /\ pendingComp' = "proactive"
           => Size(context') > Budget(window)]_compVars

\* Not so: "succeeded is true only if" "the kept-set structural estimate fits
\* under budget" (compaction.ts:406-407), an estimate with "the compaction summary's
\* own token count" (compaction.ts:115): in the loop the summary is not counted.
SuccessFits == event.succeeded => event.size <= Budget(event.window)
===============================================================================
