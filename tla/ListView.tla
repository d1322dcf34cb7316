------------------------------ MODULE ListView ------------------------------
(***************************************************************************)
(* What the user sees and does in the popup: the list with its pages, its  *)
(* focus, search and filter, the keyboard, and the title of a favorite     *)
(* entered below its entry (src/src/view.rs, the handlers in app.rs).  The *)
(* history is the store of ClipboardStore and changes under the list.      *)
(*                                                                         *)
(* A click or a typed letter acts on the view last drawn, which is drawn   *)
(* anew after every message.  What a handler leaves to a task comes back   *)
(* as a later message and may meet another popup or none: the key that     *)
(* Navigation turns into Next, Previous or Enter, BeginFavorite, and the   *)
(* answer of the AI that suggests a title.                                 *)
(***************************************************************************)
EXTENDS ClipboardStore

CONSTANTS
  PerPage,  \* config.maximum_entries_by_page
  MaxTasks, \* bound on the tasks that wait at a time
  MaxFlows  \* bound on the titles the user starts to enter

ASSUME ListAssumption ==
  /\ PerPage \in Nat \ {0}
  /\ {MaxTasks, MaxFlows} \subseteq Nat

VARIABLES
  popup,                \* the kind of popup shown, or None
  focused, page,        \* AppState.focused, page: counted from 0
  show_favorites_only,  \* AppState.show_favorites_only
  qr_code,              \* is a QR code shown instead of the list?
  favoriting_state,     \* the title being entered, or None
  tasks,                \* messages that tasks will post
  copied,               \* what the last step put on the clipboard, or None
  flows                 \* titles begun so far

position == << popup, focused, page, show_favorites_only, qr_code >>
flow == << favoriting_state, tasks, flows >>
listVars == << vars, position, copied, flow >>

\* The popups with a list of entries, and any other.
Kinds == {"Popup", "Favorites", "Other"}
Favorite(id) == db.entries[id].is_favorite

ListInit ==
  /\ Init
  /\ popup = None /\ qr_code = FALSE
  /\ focused = 0 /\ page = 0 /\ show_favorites_only = FALSE
  /\ copied = None
  /\ favoriting_state = None /\ tasks = {} /\ flows = 0

-----------------------------------------------------------------------------
(* What is on the screen                                                   *)

Starred == {id \in Live : Favorite(id)}

\* The entries of the list in the order shown, all pages together.
Shown ==
  IF popup = "Favorites" THEN Selected(Iter(db), Starred)
  ELSE IF db.query # None THEN db.filtered
  ELSE IF show_favorites_only THEN Selected(ChronologicalIter(db), Starred)
  ELSE ChronologicalIter(db)

\* Is the entry at this place, counted from 0, on the screen?
OnScreen(place) ==
  /\ popup \in {"Popup", "Favorites"} /\ place < Len(Shown)
  /\ popup = "Popup" => ~qr_code /\ page * PerPage <= place /\ place < (page + 1) * PerPage

Visible == {Shown[place + 1] : place \in {p \in 0 .. Len(Shown) - 1 : OnScreen(p)}}

\* The entry drawn as focused.
Highlighted == IF OnScreen(focused) THEN Shown[focused + 1] ELSE None

\* DbTrait::len
Length == IF db.query = None THEN Cardinality(Live) ELSE Len(db.filtered)

\* page_count
PageCount ==
  (IF show_favorites_only /\ db.query = None
     THEN Cardinality(Starred) ELSE Length) \div PerPage

\* DbTrait::get: the favorites first, and no search.
Get(index) == IF index < Len(Iter(db)) THEN Iter(db)[index + 1] ELSE None

InList == popup = "Popup" /\ ~qr_code

-----------------------------------------------------------------------------
(* The popup opens and closes (PopupLifecycle says when)                   *)

\* close_popup, on a store st that the same handler may have changed.
Close(st) ==
  /\ db' = SetQueryAndSearch(st, None)
  /\ popup' = None /\ focused' = 0 /\ page' = 0 /\ show_favorites_only' = FALSE
  /\ favoriting_state' = None

ClosePopup ==
  /\ Close(db)
  /\ UNCHANGED << clock, qr_code, tasks, flows >> /\ copied' = None

\* toggle_popup_ext
TogglePopup(kind) ==
  /\ qr_code' = FALSE
  /\ IF popup = None
       THEN popup' = kind
            /\ UNCHANGED << db, focused, page, show_favorites_only, favoriting_state >>
     ELSE /\ db' = SetQueryAndSearch(db, None)
          /\ popup' = IF popup = kind THEN None ELSE kind
          /\ focused' = 0 /\ page' = 0 /\ show_favorites_only' = FALSE
          /\ favoriting_state' = None
  /\ UNCHANGED << clock, tasks, flows >> /\ copied' = None

-----------------------------------------------------------------------------
(* The keyboard                                                            *)

Post(m) == m \notin tasks /\ tasks' = tasks \cup {m}

Arrives(m) == m \in tasks /\ tasks' = tasks \ {m}

Keys == {"Next", "Previous", "Enter"}

\* Navigation(Event)
PressKey(key) ==
  /\ popup # None
  /\ Cardinality(tasks) < MaxTasks
  /\ Post([type |-> key])
  /\ UNCHANGED << vars, position, favoriting_state, flows >> /\ copied' = None

\* Seeded bug: the list does not turn to the page of the focus.
FocusOnSamePage(place) == focused' = place /\ UNCHANGED page

FocusOn(place) == focused' = place /\ page' = place \div PerPage

\* Seeded bug: the focus steps on from where it is.
FocusNextUnwrapped ==
  /\ Arrives([type |-> "Next"])
  /\ IF Length > 0 THEN FocusOn(focused + 1) ELSE UNCHANGED << focused, page >>
  /\ UNCHANGED << vars, popup, show_favorites_only, qr_code, favoriting_state, flows >> /\ copied' = None

\* Navigation(Next): focus_next
FocusNext ==
  /\ Arrives([type |-> "Next"])
  /\ IF Length > 0 THEN FocusOn((focused + 1) % Length) ELSE UNCHANGED << focused, page >>
  /\ UNCHANGED << vars, popup, show_favorites_only, qr_code, favoriting_state, flows >> /\ copied' = None

\* Navigation(Previous): focus_previous
FocusPrevious ==
  /\ Arrives([type |-> "Previous"])
  /\ IF Length > 0 THEN FocusOn((focused + Length - 1) % Length) ELSE UNCHANGED << focused, page >>
  /\ UNCHANGED << vars, popup, show_favorites_only, qr_code, favoriting_state, flows >> /\ copied' = None

\* Seeded bug: the focus is taken for a place on the page.
EnterOnPage ==
  /\ Arrives([type |-> "Enter"])
  /\ LET id == Get(focused % PerPage)
     IN  IF popup \in {"Popup", "Favorites"} /\ id # None
           THEN copied' = db.entries[id].content /\ Close(db)
         ELSE copied' = None /\ UNCHANGED << db, popup, focused, page, show_favorites_only, favoriting_state >>
  /\ UNCHANGED << clock, qr_code, flows >>

\* Navigation(Enter)
Enter ==
  /\ Arrives([type |-> "Enter"])
  /\ LET id == Get(focused)
     IN  IF popup \in {"Popup", "Favorites"} /\ id # None
           THEN copied' = db.entries[id].content /\ Close(db)
         ELSE copied' = None /\ UNCHANGED << db, popup, focused, page, show_favorites_only, favoriting_state >>
  /\ UNCHANGED << clock, qr_code, flows >>

-----------------------------------------------------------------------------
(* Clicks in the list                                                      *)

\* Copy, whose id the view takes from the list.
Copy(id) ==
  /\ copied' = db.entries[id].content
  /\ Close(db)
  /\ UNCHANGED << clock, qr_code, tasks, flows >>

ClickEntry(id) == id \in Visible /\ Copy(id)

\* The search field's on_submit.
Submit == InList /\ Get(focused) # None /\ Copy(Get(focused))

\* The arrow is a button while there is a page to go to, as page_count sees it.
NextPage ==
  /\ InList /\ page < PageCount
  /\ page' = page + 1 /\ focused' = page' * PerPage
  /\ UNCHANGED << vars, popup, show_favorites_only, qr_code, flow >> /\ copied' = None

PreviousPage ==
  /\ InList /\ page > 0
  /\ page' = page - 1 /\ focused' = page' * PerPage
  /\ UNCHANGED << vars, popup, show_favorites_only, qr_code, flow >> /\ copied' = None

ToggleFavoritesFilter ==
  /\ InList
  /\ show_favorites_only' = ~show_favorites_only /\ page' = 0 /\ focused' = 0
  /\ UNCHANGED << vars, popup, qr_code, flow >> /\ copied' = None

TypeSearch(q) ==
  /\ InList /\ SearchFor(q)
  /\ UNCHANGED << position, flow >> /\ copied' = None

\* ContextMenu(ShowQrCode)
ShowQrCode(id) ==
  /\ id \in Visible /\ qr_code' = TRUE
  /\ UNCHANGED << vars, popup, focused, page, show_favorites_only, flow >> /\ copied' = None

ReturnToClipboard ==
  /\ popup = "Popup" /\ qr_code' = FALSE
  /\ UNCHANGED << vars, popup, focused, page, show_favorites_only, flow >> /\ copied' = None

-----------------------------------------------------------------------------
(* The title of a favorite.  favoriting_state also says, for the           *)
(* properties only, which flow it is, whether the user wrote its text and  *)
(* whether an AI was still busy with the entry when it began.              *)

Entering(id, text, phase) ==
  [entry_id |-> id, title_input |-> text, phase |-> phase,
   flow |-> flows + 1, typed |-> FALSE,
   late |-> \E m \in tasks : m.type = "TitleSuggested" /\ m.id = id]

\* ContextMenu(AddFavorite), labelled Rename for a favorite.
AddFavorite(id) ==
  /\ id \in Visible /\ flows < MaxFlows /\ Cardinality(tasks) < MaxTasks
  /\ IF Favorite(id)
       THEN /\ favoriting_state' = Entering(id, db.entries[id].favorite_title, "Editing")
            /\ flows' = flows + 1 /\ UNCHANGED tasks
     ELSE Post([type |-> "BeginFavorite", id |-> id]) /\ UNCHANGED << favoriting_state, flows >>
  /\ UNCHANGED << vars, position >> /\ copied' = None

\* Seeded bug: the text can be edited while a title is being suggested.
BeginFavoriteEditing(id) ==
  LET m == [type |-> "BeginFavorite", id |-> id]
  IN  /\ m \in tasks /\ flows < MaxFlows
      /\ flows' = flows + 1
      /\ favoriting_state' = Entering(id, None, "Editing")
      /\ tasks' = (tasks \ {m}) \cup {[type |-> "TitleSuggested", id |-> id, flow |-> flows + 1]}
      /\ UNCHANGED << vars, position >> /\ copied' = None

\* BeginFavorite asks the AI for a title if the entry is text and there is a key.
BeginFavorite(id) ==
  LET m == [type |-> "BeginFavorite", id |-> id]
      answer == [type |-> "TitleSuggested", id |-> id, flow |-> flows + 1]
  IN  /\ m \in tasks /\ flows < MaxFlows
      /\ flows' = flows + 1
      /\ \/ /\ id \in Live
            /\ favoriting_state' = Entering(id, None, "Suggesting")
            /\ tasks' = (tasks \ {m}) \cup {answer}
         \/ /\ favoriting_state' = Entering(id, None, "Editing")
            /\ tasks' = tasks \ {m}
      /\ UNCHANGED << vars, position >> /\ copied' = None

Answers(id) == favoriting_state # None /\ favoriting_state.entry_id = id

\* Seeded bug: a failed or late suggestion is not passed on.
TitleSuggestedIfAny(m, suggestion) ==
  /\ m.type = "TitleSuggested" /\ Arrives(m)
  /\ favoriting_state' =
       IF Answers(m.id) /\ suggestion # None
         THEN [favoriting_state EXCEPT !.title_input = suggestion, !.phase = "Editing", !.typed = FALSE]
         ELSE favoriting_state
  /\ UNCHANGED << vars, position, flows >> /\ copied' = None

\* TitleSuggested; suggest_title gives up after 15 seconds, with None.
TitleSuggested(m, suggestion) ==
  /\ m.type = "TitleSuggested" /\ Arrives(m)
  /\ favoriting_state' =
       IF Answers(m.id)
         THEN [favoriting_state EXCEPT !.title_input = suggestion, !.phase = "Editing", !.typed = FALSE]
         ELSE favoriting_state
  /\ UNCHANGED << vars, position, flows >> /\ copied' = None

\* The card with the text field and its buttons is below its entry.
CardShown ==
  /\ favoriting_state # None
  /\ favoriting_state.entry_id \in Visible /\ favoriting_state.phase = "Editing"

FavoriteTitleInput(text) ==
  /\ CardShown
  /\ favoriting_state' = [favoriting_state EXCEPT !.title_input = text, !.typed = TRUE]
  /\ UNCHANGED << vars, position, tasks, flows >> /\ copied' = None

ConfirmTitle ==
  /\ CardShown
  /\ ConfirmFavorite(favoriting_state.entry_id, favoriting_state.title_input)
  /\ favoriting_state' = None
  /\ UNCHANGED << position, tasks, flows >> /\ copied' = None

CancelTitle ==
  /\ CardShown /\ favoriting_state' = None
  /\ UNCHANGED << vars, position, tasks, flows >> /\ copied' = None

-----------------------------------------------------------------------------
(* The history changes under the list: another program copies, an editor   *)
(* saves, a D-Bus client unstars, the user deletes or clears.              *)

NewCopy(c) ==
  /\ ClipboardData(c)
  /\ UNCHANGED << position, flow >> /\ copied' = None

HistoryChanges ==
  /\ \/ \E id \in Live, c \in Content : EditorUpdates(id, c)
     \/ \E id \in Live : DeleteEntry(id)
     \/ \E id \in Live : RemoveFavorite(id)
     \/ ClearHistory
  /\ UNCHANGED << position, flow >> /\ copied' = None

Typing ==
  \/ \E key \in Keys : PressKey(key)
  \/ \E q \in Queries \cup {None} : TypeSearch(q)
  \/ \E text \in Titles \cup {None} : FavoriteTitleInput(text)
  \/ Submit

Clicking ==
  \/ \E id \in Live : ClickEntry(id) \/ ShowQrCode(id) \/ AddFavorite(id)
  \/ NextPage \/ PreviousPage \/ ToggleFavoritesFilter \/ ReturnToClipboard
  \/ ConfirmTitle \/ CancelTitle

Step ==
  \/ Typing
  \/ Clicking
  \/ \E kind \in Kinds : TogglePopup(kind)
  \/ ClosePopup
  \/ FocusNext \/ FocusPrevious \/ Enter
  \/ \E id \in 1 .. clock : BeginFavorite(id)
  \/ \E m \in tasks, suggestion \in Titles \cup {None} : TitleSuggested(m, suggestion)
  \/ \E c \in Content : NewCopy(c)
  \/ HistoryChanges

ListNext == ~db.panicked /\ Step

ListSpec == ListInit /\ [][ListNext]_listVars

\* The AI answers or the 15 seconds pass.
FairSpec ==
  /\ ListSpec
  /\ \A f \in 1 .. MaxFlows :
       WF_listVars(\E m \in tasks, suggestion \in Titles \cup {None} :
                 m.type = "TitleSuggested" /\ m.flow = f /\ TitleSuggested(m, suggestion))

-----------------------------------------------------------------------------
Messages ==
  [type : Keys]
    \cup [type : {"BeginFavorite"}, id : Ids]
    \cup [type : {"TitleSuggested"}, id : Ids, flow : 1 .. flows]

\* The fields of the view have their types, and the focus, if it is on any
\* entry, is on one of the page: page and focused are never apart.
ListTypeOK ==
  /\ TypeOK
  /\ popup \in Kinds \cup {None}
  /\ focused \in Nat /\ page = focused \div PerPage
  /\ {show_favorites_only, qr_code} \subseteq BOOLEAN
  /\ favoriting_state \in
       [entry_id : Ids, title_input : Titles \cup {None},
        phase : {"Suggesting", "Editing"}, flow : 1 .. flows,
        typed : BOOLEAN, late : BOOLEAN] \cup {None}
  /\ tasks \subseteq Messages
  /\ copied \in Content \cup {None} /\ flows \in 0 .. MaxFlows

\* However the list shrank meanwhile (a deletion, an eviction, a search), an
\* arrow key brings the highlight back to an entry on the screen.  Not so under
\* the favorites filter, whose length the arrows do not know.
ArrowHighlights ==
  [][(FocusNext \/ FocusPrevious) /\ InList /\ Length > 0
       /\ (show_favorites_only => db.query # None)
     => Highlighted' # None]_listVars

\* Are the lists of the view and of get(), favorites first, the same as far
\* as the former goes?
SameOrder ==
  \/ popup = "Favorites"
  \/ popup = "Popup" /\ db.query = None /\ db.favSet = {}

\* Enter copies the highlighted entry, if one is, in the popup of favorites and
\* in a history without favorites that is not being searched.
EnterCopiesHighlighted ==
  [][(Enter \/ Submit) /\ SameOrder /\ Highlighted # None
     => copied' = db.entries[Highlighted].content]_listVars

\* An AI's answer never replaces what the user typed, whatever is cancelled,
\* renamed or begun anew meanwhile, unless an AI was still busy with the entry
\* when the user began.
SuggestionKeepsTyped ==
  [][\A m \in tasks : \A suggestion \in Titles \cup {None} :
       /\ TitleSuggested(m, suggestion)
       /\ favoriting_state # None /\ favoriting_state.typed /\ ~favoriting_state.late
       => favoriting_state' = favoriting_state]_listVars

\* The card never stays at "suggesting": the user gets to type or it is gone.
SuggestionEnds ==
  \A f \in 1 .. MaxFlows :
    LET suggesting == /\ favoriting_state # None /\ favoriting_state.flow = f
                      /\ favoriting_state.phase = "Suggesting"
    IN  suggesting ~> ~suggesting
=============================================================================
