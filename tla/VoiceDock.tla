------------------------------ MODULE VoiceDock ------------------------------
(***************************************************************************)
(* The voice assistant in the layout of the internal pages                 *)
(* (components/jarvis-voice-dock.tsx).  An effect makes a speech           *)
(* recognizer whenever the handler of commands changes, that is, whenever  *)
(* the page's context does, and its cleanup stops the one before; but a    *)
(* recognizer reports its results, errors and its end when the browser     *)
(* likes, and all of them report to the same component, or to one that is  *)
(* no more.  The recognizers are the browser's.                            *)
(*                                                                         *)
(* Whether the panel is open, and what is replied, is left out.            *)
(***************************************************************************)
EXTENDS Naturals

CONSTANTS
    Docked,     \* the pages visited that have the dock
    MaxRecs     \* bound on the recognizers made

ASSUME DockAssumption ==
    /\ Docked # {}
    /\ MaxRecs \in Nat \ {0}

VARIABLES
    place,      \* the page, or "outside" of the layout
    mic,        \* the state of each recognizer
    current,    \* recognitionRef, 0 if null
    count,      \* recognizers made so far
    starting,   \* startingRef
    listening,
    speaking

dockVars == <<place, mic, current, count, starting, listening, speaking>>

Recs == 1 .. MaxRecs

\* A recognizer has its callbacks unless the component is gone: "lost".
MicState == {"unmade", "ready", "live", "stopping", "failed", "lost"}

\* PAGE_CONTEXTS, matched by the beginning of the path; "case" is a page below business.
ContextOf(p) ==
    CASE p \in {"business", "case"} -> "business"
      [] p \in {"consult", "ops", "delivery", "marketing", "portal", "governance", "kpis"} -> p
      [] OTHER -> "default"

\* The quick actions of a context.
QuickActions(c) ==
    CASE c = "consult" -> {"business", "governance"}
      [] c = "business" -> {"consult", "portal"}
      [] c = "ops" -> {"delivery", "kpis"}
      [] c = "delivery" -> {"governance", "portal"}
      [] c = "marketing" -> {"business", "consult"}
      [] c = "portal" -> {"business", "kpis"}
      [] c = "governance" -> {"consult", "delivery"}
      [] c = "kpis" -> {"ops", "portal"}
      [] OTHER -> {"business", "consult"}

\* ROUTES
Routes == {"business", "ops", "delivery", "marketing", "portal", "governance", "kpis", "consult"}

\* KNOWLEDGE_TOPICS: the routes whose names are terms of a topic.
Topics == {"ops", "delivery", "marketing", "portal", "governance", "kpis"}

Commands == {"stop", "read", "help", "enterprise", "next", "other"} \cup Routes

-----------------------------------------------------------------------------

\* Mutant: the cleanup leaves the recognizer before to itself.
SilencedNot(m) == m

\* The cleanup of the effect, stop(): the end is reported later.
Silenced(m) == [r \in Recs |-> IF r = current /\ m[r] = "live" THEN "stopping" ELSE m[r]]

\* The effect: a new recognizer in place of the one before.
Renew(p) ==
    IF place # "outside" /\ ContextOf(p) = ContextOf(place)
    THEN UNCHANGED <<mic, current, count>>
    ELSE /\ count < MaxRecs
         /\ count' = count + 1
         /\ current' = count'
         /\ mic' = [Silenced(mic) EXCEPT ![count'] = "ready"]

\* The dock is unmounted: speech is cancelled, and nobody hears the callbacks.
Unmount ==
    /\ mic' = [r \in Recs |-> IF mic[r] \in {"live", "stopping", "failed"} THEN "lost" ELSE mic[r]]
    /\ current' = 0
    /\ starting' = FALSE /\ listening' = FALSE /\ speaking' = FALSE
    /\ UNCHANGED count

\* Another page: within the layout, or outside.
Visit(p) ==
    /\ p # place
    /\ place' = p
    /\ IF p \in Docked THEN Renew(p) /\ UNCHANGED <<starting, listening, speaking>>
       ELSE Unmount

\* Any link of the page, a quick action or none.
Follow(p) ==
    /\ p \in Docked \/ p \in QuickActions(ContextOf(place)) \/ p = "outside"
    /\ Visit(IF p \in Docked THEN p ELSE "outside")

\* handleCommand(): topics are looked for before routes, and so only the routes that
\* are no topic lead anywhere.
HandleCommand(command) ==
    IF command \in Routes \ Topics
    THEN LET p == IF command \in Docked THEN command ELSE "outside"
         IN IF p = place THEN UNCHANGED dockVars ELSE Visit(p)
    ELSE /\ speaking' = (command # "stop")
         /\ UNCHANGED <<place, mic, current, count, starting, listening>>

\* submitText()
Submit(command) == place # "outside" /\ HandleCommand(command)

\* onresult, also of a recognizer that was stopped.
Result(r, command) == mic[r] \in {"live", "stopping"} /\ HandleCommand(command)

\* toggleListening(): nothing is done while starting.
Toggle ==
    /\ current # 0 /\ ~ starting
    /\ IF listening
       THEN /\ mic' = Silenced(mic)
            /\ starting' = FALSE /\ listening' = FALSE
       ELSE \/ /\ mic[current] = "ready"
               /\ mic' = [mic EXCEPT ![current] = "live"]
               /\ starting' = TRUE /\ listening' = TRUE
            \/ /\ starting' = FALSE /\ listening' = FALSE
               /\ UNCHANGED mic
    /\ UNCHANGED <<place, current, count, speaking>>

\* onend
End(r) ==
    /\ mic[r] \in {"live", "stopping", "failed"}
    /\ mic' = [mic EXCEPT ![r] = "ready"]
    /\ starting' = FALSE /\ listening' = FALSE
    /\ UNCHANGED <<place, current, count, speaking>>

\* onerror, which an end follows.
Error(r) ==
    /\ mic[r] \in {"live", "stopping"}
    /\ mic' = [mic EXCEPT ![r] = "failed"]
    /\ starting' = FALSE /\ listening' = FALSE
    /\ UNCHANGED <<place, current, count, speaking>>

\* "Read" and "Mute"; or an utterance ends, perhaps one that was cancelled before.
Speech ==
    /\ place # "outside"
    /\ speaking' = ~ speaking
    /\ UNCHANGED <<place, mic, current, count, starting, listening>>

DockInit ==
    /\ place = "outside" /\ current = 0 /\ count = 0
    /\ mic = [r \in Recs |-> "unmade"]
    /\ starting = FALSE /\ listening = FALSE /\ speaking = FALSE

DockNext ==
    \/ \E p \in Docked \cup Routes \cup {"outside"} : Follow(p)
    \/ Toggle \/ Speech
    \/ \E command \in Commands :
           Submit(command) \/ \E r \in Recs : Result(r, command)
    \/ \E r \in Recs : End(r) \/ Error(r)

DockSpec == DockInit /\ [][DockNext]_dockVars

-----------------------------------------------------------------------------

DockTypeOK ==
    /\ place \in Docked \cup {"outside"}
    /\ mic \in [Recs -> MicState]
    /\ current \in Recs \cup {0}
    /\ count \in 0 .. MaxRecs
    /\ starting \in BOOLEAN /\ listening \in BOOLEAN /\ speaking \in BOOLEAN

\* Whatever pages are visited while it listens, and in whatever order the recognizers
\* report: none but the current one goes on listening without having been stopped, and
\* the button says that it listens only while one has yet to report its end.  (It may
\* say that it does not listen while one does: the end of another turns it off.)
OneMic ==
    /\ \A r \in Recs : mic[r] = "live" => r = current
    /\ listening => \E r \in Recs : mic[r] \in {"live", "stopping"}

=============================================================================
