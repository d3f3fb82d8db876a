----------------------------- MODULE FlashSession -----------------------------
(***************************************************************************)
(* middleware/session over its default store, a signed cookie that holds   *)
(* all values, and middleware/flash inside it.  A response carries the     *)
(* values its own request left behind: requests under way together do not  *)
(* see each other's, and the browser keeps the answer it sees last.        *)
(***************************************************************************)
EXTENDS Naturals, FiniteSets

CONSTANTS Visits,      \* requests of the browser that may be under way together
          MaxItems,    \* bound: values and messages written
          MaxRestarts  \* bound: restarts of the server

VARIABLES cookie,   \* the session cookie of the browser
          visit,    \* per request: where it is, its cookie, its session, what it changed, its answer
          written,  \* items written so far; an item is known by its number
          key,      \* the key of the store, a new one in every process
          shown,    \* history: messages handed to a request
          again,    \* history: messages handed to a second one
          arrived,  \* history: items that have been in the browser's cookie
          ended,    \* history: items a request that carried them removed or replaced
          raced,    \* history: items a request under way had not seen as they arrived
          excused   \* history: messages that may be shown again

flashVars == <<cookie, visit, written, key, shown, again, arrived, ended, raced, excused>>

NoItem == 0
NoValues == [value |-> NoItem, flash |-> NoItem]
ItemsOf(values) == {values.value, values.flash} \ {NoItem}

NoVisit == [at |-> "idle", sent |-> NoValues, values |-> NoValues, gone |-> {}, reply |-> FALSE]

Outstanding == {v \in Visits : visit[v].at # "idle"}

FlashInit == /\ cookie = [key |-> 0, values |-> NoValues]
             /\ visit = [v \in Visits |-> NoVisit]
             /\ written = 0 /\ key = 0
             /\ shown = {} /\ again = {} /\ arrived = {} /\ ended = {} /\ raced = {} /\ excused = {}

-----------------------------------------------------------------------------
(* The server                                                               *)

\* store.Get: a cookie of another key is an empty session, the error ignored.
\* A request does not outlive its process, so that it may be decoded when sent.
Decoded == IF cookie.key = key THEN cookie.values ELSE NoValues

\* The browser sends its cookie.  A message two requests carry is shown twice.
Visit(v) ==
    LET values == Decoded
    IN  /\ visit[v].at = "idle"
        /\ visit' = [visit EXCEPT ![v] = [NoVisit EXCEPT !.at = "sent", !.sent = values]]
        /\ excused' = excused \cup ({values.flash} \cap {visit[q].sent.flash : q \in Outstanding})
        /\ UNCHANGED <<cookie, written, key, shown, again, arrived, ended, raced>>

\* Mutant of TakeFlash: the message is read and stays.
PeekFlash(values) == values

\* Mutant of TakeFlash: the message goes, and everything else with it.
TakeAll(values) == NoValues

TakeFlash(values) == [values EXCEPT !.flash = NoItem]

\* Both middlewares up to the handler: whatever message the session holds is
\* the request's, and taken from the session.
WrapFlash(v) ==
    LET message == {visit[v].sent.flash} \ {NoItem}
    IN  /\ visit[v].at = "sent"
        /\ visit' = [visit EXCEPT ![v].at = "handling", ![v].gone = message,
                                  ![v].values = TakeFlash(visit[v].sent)]
        /\ shown' = shown \cup message
        /\ again' = again \cup (message \cap shown)
        /\ UNCHANGED <<cookie, written, key, arrived, ended, raced, excused>>

\* The handler stores a value (session.Set) or a message (flash.Set, where the
\* later one of a category replaces the earlier).
Store(v, slot) ==
    /\ visit[v].at = "handling" /\ written < MaxItems
    /\ written' = written + 1
    /\ visit' = [visit EXCEPT ![v].values[slot] = written',
                              ![v].gone = @ \cup ({visit[v].values[slot]} \ {NoItem})]
    /\ UNCHANGED <<cookie, key, shown, again, arrived, ended, raced, excused>>

ClearSession(v) ==
    /\ visit[v].at = "handling"
    /\ visit' = [visit EXCEPT ![v].values = NoValues, ![v].gone = @ \cup ItemsOf(visit[v].values)]
    /\ UNCHANGED <<cookie, written, key, shown, again, arrived, ended, raced, excused>>

\* saveWriter.save, once, at the first byte or when the handler has returned:
\* what the handler stores later reaches no cookie.
SaveSession(v) ==
    /\ visit[v].at = "handling"
    /\ visit' = [visit EXCEPT ![v].at = "answered", ![v].reply = TRUE]
    /\ UNCHANGED <<cookie, written, key, shown, again, arrived, ended, raced, excused>>

\* The handler panics below a recovery that writes past the saveWriter, or the
\* values do not fit a cookie, an error save ignores: an answer without a cookie.
SkipSave(v) ==
    /\ visit[v].at = "handling"
    /\ visit' = [visit EXCEPT ![v].at = "answered"]
    /\ excused' = excused \cup ({visit[v].sent.flash} \ {NoItem})
    /\ UNCHANGED <<cookie, written, key, shown, again, arrived, ended, raced>>

\* The process is replaced and its requests with it.
Restart ==
    /\ key < MaxRestarts
    /\ key' = key + 1
    /\ visit' = [v \in Visits |-> NoVisit]
    /\ ended' = ended \cup arrived
    /\ UNCHANGED <<cookie, written, shown, again, arrived, raced, excused>>

-----------------------------------------------------------------------------
(* The answers, in any order                                                *)

TakeAnswer(v) ==
    LET q == visit[v]
        new == ItemsOf(q.values) \ arrived
        unseen == {p \in Outstanding \ {v} : ~(new \subseteq ItemsOf(visit[p].sent))}
    IN  /\ q.at = "answered"
        /\ visit' = [visit EXCEPT ![v] = NoVisit]
        /\ IF q.reply
             THEN /\ cookie' = [key |-> key, values |-> q.values]
                  /\ arrived' = arrived \cup new
                  /\ ended' = ended \cup q.gone
                  /\ raced' = IF unseen = {} THEN raced ELSE raced \cup new
             ELSE UNCHANGED <<cookie, arrived, ended, raced>>
        /\ UNCHANGED <<written, key, shown, again, excused>>

DropAnswer(v) ==
    /\ visit[v].at = "answered"
    /\ visit' = [visit EXCEPT ![v] = NoVisit]
    /\ excused' = excused \cup ({visit[v].sent.flash} \ {NoItem})
    /\ UNCHANGED <<cookie, written, key, shown, again, arrived, ended, raced>>

FlashNext == \/ Restart
             \/ \E v \in Visits : \/ Visit(v) \/ WrapFlash(v) \/ ClearSession(v)
                                  \/ \E slot \in {"value", "flash"} : Store(v, slot)
                                  \/ SaveSession(v) \/ SkipSave(v) \/ TakeAnswer(v) \/ DropAnswer(v)

FlashSpec == FlashInit /\ [][FlashNext]_flashVars

-----------------------------------------------------------------------------
(* Properties                                                               *)

\* A message is handed to one request (middleware/flash reads and deletes it):
\* to a second one only if both carried it at once, or if the answer that
\* should have removed it had no cookie or was lost.
FlashOnce == again \subseteq excused

\* What an answer brought to the browser (Set, saved before the first byte) is
\* there until a request that carries it removes or replaces it, unless another
\* request was under way as it arrived: the answer of that one, or of one that
\* began with it, brings back the values of before.
KeptUnlessRaced == arrived \ (ended \cup raced) \subseteq ItemsOf(Decoded)
=============================================================================
