------------------------------ MODULE Dialogs ------------------------------
(***************************************************************************)
(* The open dialogs of an app (dialog.tsx): a stack of entries with one    *)
(* listener on the document, and the focus each dialog takes and gives     *)
(* back.  Dialogs close in any order, also without being dismissed.        *)
(***************************************************************************)
EXTENDS Naturals, Sequences, FiniteSets, SequencesExt

CONSTANTS
    DialogSet,     \* the dialogs of the app
    MaxKeys        \* bound: presses of Escape

VARIABLES
    dialogStack,   \* `stack`, the last one on top
    listening,     \* the keydown listener is on the document
    opened,        \* history: the open dialogs
    above,         \* history: the pairs of open dialogs of which the first opened later
    dismissals,    \* history: the dialogs whose onDismiss ran, in order
    keys,          \* history: how often Escape was pressed with a dialog open
    focus,         \* where the focus is: a dialog or "page"
    invoker        \* per open dialog, where the focus was before it took it

dialogVars == <<dialogStack, listening, opened, above, dismissals, keys, focus, invoker>>

DialogsInit ==
    /\ dialogStack = <<>>
    /\ listening = FALSE
    /\ opened = {} /\ above = {}
    /\ dismissals = <<>>
    /\ keys = 0
    /\ focus = "page"
    /\ invoker = [d \in DialogSet |-> "page"]

\* The effects of a dialog that is enabled: its entry, and the focus.
OpenDialog(d) ==
    /\ d \notin opened
    /\ dialogStack' = Append(dialogStack, d)
    /\ listening' = (listening \/ Len(dialogStack) = 0)
    /\ opened' = opened \union {d}
    /\ above' = above \union {<<d, e>> : e \in opened}
    /\ invoker' = [invoker EXCEPT ![d] = focus]
    /\ focus' = d
    /\ UNCHANGED <<dismissals, keys>>

\* Mutant of Spliced: the top goes, whichever dialog closes.
Popped(d) == Front(dialogStack)

\* The entry is taken out where it stands.
Spliced(d) == RemoveFirst(dialogStack, d)

\* Their cleanups.  Focusing an invoker that has gone does nothing; a dialog that goes with
\* the focus in it leaves the page with it.
CloseDialog(d) ==
    /\ d \in opened
    /\ dialogStack' = Spliced(d)
    /\ listening' = (listening /\ dialogStack' # <<>>)
    /\ opened' = opened \ {d}
    /\ above' = {pair \in above : d \notin {pair[1], pair[2]}}
    /\ focus' = IF invoker[d] \in opened \union {"page"} THEN invoker[d]
                ELSE IF focus = d THEN "page" ELSE focus
    /\ UNCHANGED <<dismissals, keys, invoker>>

\* The reader clicks on another open dialog or the page; Tab stays within the dialog.
FocusMoves ==
    /\ \E to \in opened \union {"page"} : to # focus /\ focus' = to
    /\ UNCHANGED <<dialogStack, listening, opened, above, dismissals, keys, invoker>>

\* onDocumentKeyDown: the app is told, and closes the dialog when it likes, if it does.
PressEscape ==
    /\ opened # {} /\ keys < MaxKeys
    /\ keys' = keys + 1
    /\ dismissals' = IF listening /\ dialogStack # <<>> THEN Append(dismissals, Last(dialogStack)) ELSE dismissals
    /\ UNCHANGED <<dialogStack, listening, opened, above, focus, invoker>>

DialogsNext ==
    \/ \E d \in DialogSet : OpenDialog(d) \/ CloseDialog(d)
    \/ FocusMoves
    \/ PressEscape

----------------------------------------------------------------------------
\* The dialog that opened last of those still open.
TopDialog == CHOOSE d \in opened : \A e \in opened \ {d} : <<d, e>> \in above

\* Every press of Escape dismisses the dialog that opened last of those still open, and the
\* listener stays on the document exactly as long as one is (dialog.tsx:39).
EscapeDismissesTop ==
    [][/\ keys' # keys => dismissals' = Append(dismissals, TopDialog)
       /\ listening' <=> opened' # {}]_dialogVars
=============================================================================
