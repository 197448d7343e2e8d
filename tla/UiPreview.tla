------------------------------- MODULE UiPreview -------------------------------
(***************************************************************************)
(* The previews of ui-preview-helper.js: a popover on each link of a page, *)
(* shown when the pointer rests on the link, filled by the answer to an    *)
(* XMLHttpRequest, hidden when the pointer has left link and popover.      *)
(*                                                                         *)
(* The timers of the script run in ticks; only the order of their delays   *)
(* matters.  Bootstrap's Popover is external: show() appends an element    *)
(* (the tip) to the body, hide() takes it away when it has faded out.      *)
(***************************************************************************)
EXTENDS Integers, FiniteSets, SequencesExt

CONSTANTS Links,        \* links to resources, elements of the page
          Servers,      \* servers with a page: "am", "rm", "cm", "qm"
          Listed,       \* Listed[s]: the links in the page of s from the start; none in
                        \* that of a sample client of the dialogs
          AttachDelay, HideDelay, ShowDelay,  \* the delays of the script: 10, 200, 300 ms
          FadeTimes,    \* how long a tip fades out: 150 ms, or 0 with reduced motion
          Compacts,     \* the documents that may be the answers to a request
          MaxVisits     \* bound: how many times the pointer enters a link

\* What a tip shows that is not the preview of a link.
Loading == "Loading preview..."
Blank == "blank"          \* what Bootstrap's sanitizer leaves of an iframe
Undefined == "undefined"  \* the iframe of a preview without document

ASSUME PreviewAssumption ==
    /\ IsFiniteSet(Links) /\ Links \cap {Loading, Blank, Undefined} = {}
    /\ Servers \subseteq {"am", "rm", "cm", "qm"}
    /\ Listed \in [Servers -> SUBSET Links]
    /\ {AttachDelay, HideDelay, ShowDelay, MaxVisits} \subseteq Nat /\ FadeTimes \subseteq Nat
    /\ 0 < AttachDelay /\ AttachDelay < HideDelay /\ HideDelay < ShowDelay
    /\ \A f \in FadeTimes : f < ShowDelay

VARIABLES
    server,          \* whose page this is
    fadeTime,        \* how long a tip fades out in this browser
    links,           \* the links in the document
    made,            \* made[l]: how many popovers were made for l, one per setup
    disposed,        \* the popovers that were disposed of
    isPopoverShown,  \* isPopoverShown[p]: the variable of the handlers of popover p
    timers,          \* the timers and when they are due
    tips,            \* the popovers whose tips are in the document, in its order
    content,         \* content[p]: what the tip of p shows
    config,          \* config[p]: what the tip of p is made from when it is shown
    listeners,       \* <<p, q>>: the tip of p has the mouse handlers of popover q
    requests,        \* requests[l]: requests for the preview of l without an answer
    pointer,         \* where the mouse is
    visits,          \* how many times it has entered a link, bounded counter
    alone,           \* shown with no other tip there and no request for another (history)
    misplaced        \* some handlers went to the tip of another popover (history)

pageVars == <<server, fadeTime, links, made, disposed>>
mouseVars == <<pointer, visits>>
historyVars == <<alone, misplaced>>
vars == <<pageVars, isPopoverShown, timers, tips, content, config, listeners, requests,
          mouseVars, historyVars>>

Popovers == Links \X (1..Cardinality(Links))
Away == <<"away">>
OnLink(l) == <<"link", l>>
OnTip(p) == <<"tip", p>>
-----------------------------------------------------------------------------
(***************************************************************************)
(* setupUiPreviewOnPopover: what it makes, and its handlers.               *)
(***************************************************************************)
\* Mutant of setupUiPreviewOnPopover: the popovers that exist are not destroyed.
setupWithoutDispose(m, d, times) ==
    [made |-> [l \in Links |-> m[l] + times[l]], disposed |-> d]

\* Each run makes a popover for each of its links and destroys the one the link has;
\* times[l] is how many runs have l among their links.
setupUiPreviewOnPopover(m, d, times) ==
    [made |-> [l \in Links |-> m[l] + times[l]],
     disposed |-> d \cup {p \in Popovers : times[p[1]] > 0 /\ p[2] < m[p[1]] + times[p[1]]}]

\* The popovers whose handlers listen to the link.
Of(l) == {p \in Popovers : p[1] = l /\ p[2] <= made[l]}

Timer(task, p, delay) == [task |-> task, of |-> p, due |-> delay]
clearTimeout(ts, task, P) == {t \in ts : t.task # task \/ t.of \notin P}
clearTimeouts(ts, P) == clearTimeout(clearTimeout(ts, "show", P), "hide", P)

showPopover(ts, P) ==
    LET Q == {p \in P : ~isPopoverShown[p]}
    IN clearTimeouts(ts, Q) \cup {Timer("show", p, ShowDelay) : p \in Q}

\* Mutant of hidePopover: a popover that is about to be shown stays so.
hidePopoverOnly(ts, P) ==
    clearTimeout(ts, "hide", P) \cup {Timer("hide", p, HideDelay) : p \in P}

hidePopover(ts, P) ==
    clearTimeouts(ts, P) \cup {Timer("hide", p, HideDelay) : p \in P}

Hearing(p) == {q \in Popovers : <<p, q>> \in listeners}

\* Mutant of mouseleave: there is no handler for the popover.
mouseleaveOfLinks(ts, place) ==
    IF \E l \in Links : place = OnLink(l) THEN hidePopover(ts, Of(place[2])) ELSE ts

\* The events when the pointer leaves a place and when it enters one.
mouseleave(ts, place) ==
    CASE place = Away -> ts
      [] \E l \in Links : place = OnLink(l) -> hidePopover(ts, Of(place[2]))
      [] \E p \in Popovers : place = OnTip(p) -> hidePopover(ts, Hearing(place[2]))

mouseenter(ts, place) ==
    CASE place = Away -> ts
      [] \E l \in Links : place = OnLink(l) -> showPopover(ts, Of(place[2]))
      [] \E p \in Popovers : place = OnTip(p) -> clearTimeout(ts, "hide", Hearing(place[2]))

Init ==
    /\ server \in Servers /\ fadeTime \in FadeTimes
    /\ links = Listed[server]
    /\ LET ps == setupUiPreviewOnPopover([l \in Links |-> 0], {},
                                         [l \in Links |-> IF l \in links THEN 1 ELSE 0])
       IN made = ps.made /\ disposed = ps.disposed
    /\ isPopoverShown = [p \in Popovers |-> FALSE]
    /\ timers = {} /\ tips = <<>> /\ listeners = {}
    /\ content = [p \in Popovers |-> Loading] /\ config = content
    /\ requests = [l \in Links |-> 0]
    /\ pointer = Away /\ visits = 0
    /\ alone = {} /\ misplaced = FALSE

Places == {Away} \cup {OnLink(l) : l \in links} \cup {OnTip(p) : p \in ToSet(tips)}

\* The user moves the pointer.
Move(place) ==
    /\ pointer # place /\ pointer' = place
    /\ IF \E l \in links : place = OnLink(l)
       THEN visits < MaxVisits /\ visits' = visits + 1 ELSE UNCHANGED visits
    /\ timers' = mouseenter(mouseleave(timers, pointer), place)
    /\ UNCHANGED <<pageVars, isPopoverShown, tips, content, config, listeners, requests,
                   historyVars>>
-----------------------------------------------------------------------------
(***************************************************************************)
(* The timers.                                                             *)
(***************************************************************************)
Due(t, task) == t.task = task /\ t.due = 0

\* When nothing is due time goes on.
Tick ==
    /\ timers # {} /\ \A t \in timers : t.due > 0
    /\ timers' = {[t EXCEPT !.due = @ - 1] : t \in timers}
    /\ UNCHANGED <<pageVars, isPopoverShown, tips, content, config, listeners, requests,
                   mouseVars, historyVars>>

\* popover.show(): nothing is shown for a link that is no longer in the document.
Show(p) ==
    IF p[1] \in links
    THEN /\ tips' = Append(tips, p)
         /\ content' = [content EXCEPT ![p] = IF config[p] = Loading THEN Loading ELSE Blank]
         /\ alone' = IF tips = <<>> /\ \A l \in Links \ {p[1]} : requests[l] = 0
                     THEN alone \cup {p} ELSE alone \ {p}
    ELSE UNCHANGED <<tips, content, alone>>

\* show() of a popover that was disposed of throws.
showTimeout(t) ==
    LET p == t.of IN
    /\ Due(t, "show")
    /\ IF isPopoverShown[p] \/ p \in disposed
       THEN /\ timers' = timers \ {t}
            /\ UNCHANGED <<isPopoverShown, tips, content, requests, alone>>
       ELSE /\ isPopoverShown' = [isPopoverShown EXCEPT ![p] = TRUE]
            /\ timers' = (timers \ {t}) \cup {Timer("hover", p, AttachDelay)}
            /\ requests' = [requests EXCEPT ![p[1]] = @ + 1]
            /\ Show(p)
    /\ UNCHANGED <<pageVars, config, listeners, mouseVars, misplaced>>

\* document.querySelector: the first tip in the document, no matter whose it is.
tipFound == tips[1]

\* The tip found gets the handlers of the popover.
hoverTimeout(t) ==
    /\ Due(t, "hover")
    /\ timers' = timers \ {t}
    /\ IF tips = <<>> THEN UNCHANGED <<listeners, misplaced>>
       ELSE /\ listeners' = listeners \cup {<<tipFound, t.of>>}
            /\ misplaced' = (misplaced \/ tipFound # t.of)
    /\ UNCHANGED <<pageVars, isPopoverShown, tips, content, config, requests, mouseVars, alone>>

hideTimeout(t) ==
    LET p == t.of IN
    /\ Due(t, "hide")
    /\ isPopoverShown' = [isPopoverShown EXCEPT ![p] = FALSE]
    /\ timers' = (timers \ {t}) \cup
                 (IF isPopoverShown[p] /\ p \in ToSet(tips)
                  THEN {Timer("gone", p, fadeTime)} ELSE {})
    /\ UNCHANGED <<pageVars, tips, content, config, listeners, requests, mouseVars, historyVars>>

\* Bootstrap takes the tip out of the document.  No event tells that the pointer was on it.
gone(t) ==
    LET p == t.of IN
    /\ Due(t, "gone")
    /\ timers' = timers \ {t}
    /\ \E i \in DOMAIN tips : tips[i] = p /\ tips' = RemoveAt(tips, i)
    /\ listeners' = {x \in listeners : x[1] # p}
    /\ pointer' = IF pointer = OnTip(p) THEN Away ELSE pointer
    /\ UNCHANGED <<pageVars, isPopoverShown, content, config, requests, visits, historyVars>>
-----------------------------------------------------------------------------
(***************************************************************************)
(* The answers.                                                            *)
(***************************************************************************)
\* A Compact has a title or not.  A preview is absent, empty, or has some properties.
Readable(preview) ==
    /\ preview # {"absent"}
    /\ preview # {} => {"oslc:hintHeight", "oslc:hintWidth"} \subseteq preview

\* The structure, in a set; the set is empty when the function throws: a property that is
\* not there is read like one that is.
oslcCompactJsonStructure(compact) ==
    {s \in {[small |-> compact.small, large |-> compact.large]} :
        compact.title /\ Readable(compact.small) /\ Readable(compact.large)}

\* Popover.getInstance: the last popover of the link.
getInstance(l) == <<l, made[l]>>

\* Throws if there is no small preview.
attachIframeToHyperlinkElement(s, l) ==
    IF s.small = {} THEN UNCHANGED <<config, content>>
    ELSE LET iframe == IF "oslc:document" \in s.small THEN l ELSE Undefined IN
         /\ config' = [config EXCEPT ![getInstance(l)] = iframe]
         /\ content' = IF tips = <<>> THEN content
                       ELSE [content EXCEPT ![tipFound] = iframe]

Answered(l) ==
    /\ requests[l] > 0
    /\ requests' = [requests EXCEPT ![l] = @ - 1]
    /\ UNCHANGED <<pageVars, isPopoverShown, timers, tips, listeners, mouseVars, historyVars>>

\* onload of a request that was answered with 200.
onload(l) ==
    /\ Answered(l)
    /\ \E compact \in Compacts :
          LET structures == oslcCompactJsonStructure(compact) IN
          IF structures = {} THEN UNCHANGED <<config, content>>
          ELSE \E s \in structures : attachIframeToHyperlinkElement(s, l)

\* With another status "Error" is attached, which has no small preview and throws; of a
\* request that is lost the script does not hear.
onloadError(l) == Answered(l) /\ UNCHANGED <<config, content>>
-----------------------------------------------------------------------------
\* What a client presents: links that it has not presented before, each once.
Presentable ==
    {new \in UNION {[1..n -> {l \in Links : made[l] = 0}] : n \in 1..Cardinality(Links)} :
        \A i, j \in DOMAIN new : new[i] = new[j] => i = j}

\* The sample clients present what was selected or created: the links they had go, and
\* setup runs after each that comes, on all that have come.  The popovers made now have no
\* tip yet.  The pointer is in the dialog, where the user has just clicked.
Present ==
    /\ Listed[server] = {} /\ pointer = Away
    /\ \E new \in Presentable :
          LET times == [l \in Links |-> Cardinality({n \in DOMAIN new :
                                                        \E i \in 1..n : new[i] = l})]
              ps == setupUiPreviewOnPopover(made, disposed, times)
          IN /\ links' = {new[i] : i \in DOMAIN new}
             /\ made' = ps.made /\ disposed' = ps.disposed
    /\ UNCHANGED <<server, fadeTime, isPopoverShown, timers, tips, content, config, listeners,
                   requests, mouseVars, historyVars>>

Timeout == \E t \in timers : showTimeout(t) \/ hoverTimeout(t) \/ hideTimeout(t)
Handlers == (\E place \in Places : Move(place)) \/ Timeout
Answers == \E l \in Links : onload(l) \/ onloadError(l)

\* The pages of each server, with its copy of the script.
AmHandlers == server = "am" /\ Handlers
RmHandlers == server = "rm" /\ Handlers
CmHandlers == server = "cm" /\ Handlers
QmHandlers == server = "qm" /\ Handlers
AmAnswers == server = "am" /\ Answers
RmAnswers == server = "rm" /\ Answers
CmAnswers == server = "cm" /\ Answers
QmAnswers == server = "qm" /\ Answers

Next ==
    \/ AmHandlers \/ RmHandlers \/ CmHandlers \/ QmHandlers
    \/ AmAnswers \/ RmAnswers \/ CmAnswers \/ QmAnswers
    \/ Present
    \/ Tick \/ \E t \in timers : gone(t)

Spec == Init /\ [][Next]_vars

\* Timers run; answers may stay out, and the user need not move.
FairSpec == Spec /\ WF_vars(Tick \/ Timeout \/ \E t \in timers : gone(t))
-----------------------------------------------------------------------------
(***************************************************************************)
(* Properties.                                                             *)
(***************************************************************************)
Fading(p) == \E t \in timers : t.task = "gone" /\ t.of = p
Shown == {p \in ToSet(tips) : ~Fading(p)}

\* "Increased show delay to prevent flickering": a tip comes into the document only for the
\* link that the pointer is on, whatever it went over before and whenever the timers run.
NoFlicker == [][\A p \in ToSet(tips') \ ToSet(tips) : pointer = OnLink(p[1])]_vars

\* No handlers ever went to the tip of another popover, or none can: the tip of the popover
\* before is gone when they are attached.  Whether it is depends on the sum of four delays.
\* It is not at Bootstrap's default fade of 150 ms, 200 + 150 >= 300 + 10: if the pointer
\* goes from link to link without delay the handlers of the second popover go to the tip
\* of the first, which fades out.  Such behaviours are left out by this condition.
Undisturbed == HideDelay + fadeTime < ShowDelay + AttachDelay \/ ~misplaced

\* No two popovers are shown, not even for a link that was set up twice, wherever the
\* pointer goes while the timers run, unless handlers were misplaced.
AtMostOneShown == Undisturbed => Cardinality(Shown) <= 1

\* A popover that was shown with no other tip there and no request for another link under
\* way never shows the preview of another link, however late answers come, unless
\* handlers were misplaced.
OwnContentWhenAlone ==
    Undisturbed => \A p \in Shown \cap alone : content[p] \notin Links \ {p[1]}

\* When the pointer is away the popovers are hidden at last, those of links that are no
\* longer there too, unless handlers were misplaced: at the default fade a popover can
\* stay for ever, because entering the fading tip of another clears its hide timer.
HiddenAtLast == pointer = Away ~> Shown = {} \/ pointer # Away \/ ~Undisturbed
===============================================================================
