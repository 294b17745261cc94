--------------------------- MODULE ConnectionStore ---------------------------
(***************************************************************************)
(* The Connection List: the list in memory (list.rs), its file (store.rs)  *)
(* and the window that adds, imports, filters and selects (main.rs).       *)
(*                                                                         *)
(* A Connection is its Connection String: Names, which the bundle carries  *)
(* and no rule depends on, are left out.  A save is cut where the file     *)
(* system sees it: the temporary file is created empty, written, and       *)
(* renamed over the list, on Windows after the list was removed.  Any of   *)
(* these can fail, and the program can end between any two of them.        *)
(***************************************************************************)
EXTENDS Naturals, FiniteSets, SequencesExt

CONSTANTS
  String,      \* Connection Strings that parse
  BadString,   \* texts that do not
  Bundles,     \* contents of the files a user imports
  Missing,     \* no file
  Torn,        \* a file without its whole text
  Platforms,   \* "windows": the build has cfg(windows); "posix": it has not
  Unreadable   \* reading the list at launch can fail with an I/O error

ASSUME StoreAssumption ==
  /\ Platforms \subseteq {"posix", "windows"} /\ Unreadable \in BOOLEAN
  /\ String \cap BadString = {}
  /\ \A bundle \in Bundles : bundle \in Seq(String \cup BadString)
  /\ Missing # Torn /\ Missing \notin Seq(String) /\ Torn \notin Seq(String)

VARIABLES
  platform,  \* the platform the program was built for
  file,      \* connection-list.json
  tmp,       \* connection-list.json.tmp
  list,      \* ConnectionListView.list
  selected,  \* ConnectionListView.selected, 0 for None
  filter,    \* the Connections the text of the filter matches
  step,      \* "down", "ready", or the next file operation of a save
  adding,    \* the save belongs to an add, not to an import
  saved      \* history: Connections the window said were saved or imported

vars == <<platform, file, tmp, list, selected, filter, step, adding, saved>>

\* ConnectionList::add, Connections with the same string are one Connection.
AddTwice(items, s) == Append(items, s)   \* fault: no comparison
add(items, s) == IF Contains(items, s) THEN items ELSE Append(items, s)

merge(items, other) == FoldLeft(add, items, other)

\* ConnectionList::from_bundle_json: one string that does not parse fails all.
Parses(bundle) == ToSet(bundle) \cap BadString = {}
NewestFirst(bundle) == FoldLeft(add, <<>>, Reverse(bundle))   \* fault: prepends
from_bundle_json(bundle) == FoldLeft(add, <<>>, bundle)

\* The list on the file, as far as a launch can tell, and its Connections.
ListOnDisk == IF file \in {Missing, Torn} THEN <<>> ELSE file
OnDisk == ToSet(ListOnDisk)

\* The rows the window shows under the filter F.
Rows(F) == {i \in DOMAIN list : list[i] \in F}
filtered_indices == Rows(filter)

Init ==
  /\ platform \in Platforms
  /\ file = Missing /\ tmp = Missing
  /\ list = <<>> /\ selected = 0 /\ filter = String
  /\ step = "down" /\ adding = FALSE
  /\ saved = {}

-----------------------------------------------------------------------------
(* Launch and exit.                                                        *)

\* FileStore::load and ConnectionListView::new: no file is an empty list, and
\* so is any file that cannot be read or parsed.
Launch(readable) ==
  /\ step = "down"
  /\ ~readable => Unreadable /\ file # Missing
  /\ list' = IF readable /\ file \notin {Missing, Torn}
               THEN from_bundle_json(file) ELSE <<>>
  /\ selected' = IF list' = <<>> THEN 0 ELSE 1
  /\ filter' = String
  /\ step' = "ready"
  /\ UNCHANGED <<platform, file, tmp, adding, saved>>

\* The program ends, wherever it is.
Exit ==
  /\ step # "down"
  /\ step' = "down"
  /\ list' = <<>> /\ selected' = 0 /\ filter' = String /\ adding' = FALSE
  /\ UNCHANGED <<platform, file, tmp, saved>>

-----------------------------------------------------------------------------
(* add and import change the list, then save it.                           *)

Add(s) ==
  /\ step = "ready"
  /\ ~Contains(list, s)
  /\ list' = add(list, s)
  /\ step' = "create" /\ adding' = TRUE
  /\ UNCHANGED <<platform, file, tmp, selected, filter, saved>>

ImportReplaces(bundle) ==         \* fault: the list becomes the bundle
  /\ step = "ready"
  /\ Parses(bundle)
  /\ list' = from_bundle_json(bundle)
  /\ step' = "create" /\ adding' = FALSE
  /\ UNCHANGED <<platform, file, tmp, selected, filter, saved>>

Import(bundle) ==
  /\ step = "ready"
  /\ Parses(bundle)
  /\ list' = merge(list, from_bundle_json(bundle))
  /\ step' = "create" /\ adding' = FALSE
  /\ UNCHANGED <<platform, file, tmp, selected, filter, saved>>

\* fs::write creates or truncates the temporary file, then fills it.
CreateInPlace ==                  \* fault: writes the list file itself
  /\ step = "create"
  /\ file' = Torn
  /\ step' = "write"
  /\ UNCHANGED <<platform, tmp, list, selected, filter, adding, saved>>

CreateTmp ==
  /\ step = "create"
  /\ tmp' = Torn
  /\ step' = "write"
  /\ UNCHANGED <<platform, file, list, selected, filter, adding, saved>>

WriteTmp ==
  /\ step = "write"
  /\ tmp' = list
  /\ step' = IF platform = "windows" /\ file # Missing THEN "remove" ELSE "rename"
  /\ UNCHANGED <<platform, file, list, selected, filter, adding, saved>>

RemoveFile ==
  /\ step = "remove"
  /\ file' = Missing
  /\ step' = "rename"
  /\ UNCHANGED <<platform, tmp, list, selected, filter, adding, saved>>

\* The save succeeds: "Saved." or "Imported.", and an add selects its row.
Rename ==
  /\ step = "rename"
  /\ file' = tmp /\ tmp' = Missing
  /\ selected' = IF adding THEN Len(list) ELSE selected
  /\ step' = "ready" /\ adding' = FALSE
  /\ saved' = saved \cup ToSet(list)
  /\ UNCHANGED <<platform, list, filter>>

SaveFailsRollsBack ==             \* fault: forgets what it could not save
  /\ step \in {"create", "write", "remove", "rename"}
  /\ step' = "ready" /\ adding' = FALSE
  /\ list' = IF list = <<>> THEN <<>> ELSE Front(list)
  /\ UNCHANGED <<platform, file, tmp, selected, filter, saved>>

\* A file operation fails: the error is shown, the list keeps what it was given.
SaveFails ==
  /\ step \in {"create", "write", "remove", "rename"}
  /\ step' = "ready" /\ adding' = FALSE
  /\ UNCHANGED <<platform, file, tmp, list, selected, filter, saved>>

-----------------------------------------------------------------------------
(* Filter and selection.                                                   *)

\* The filter changed: ensure_selection_visible.
ChangeFilter(F) ==
  /\ step = "ready"
  /\ filter' = F
  /\ selected' = CASE Rows(F) = {} -> 0
                   [] selected \in Rows(F) -> selected
                   [] OTHER -> Min(Rows(F))
  /\ UNCHANGED <<platform, file, tmp, list, step, adding, saved>>

SelectPrevPastTop ==              \* fault: does not wrap at the top
  /\ step = "ready" /\ filtered_indices # {}
  /\ selected' = IF selected = 0 THEN Max(filtered_indices) + 1 ELSE selected - 1
  /\ UNCHANGED <<platform, file, tmp, list, filter, step, adding, saved>>

\* A selection that the filter hides counts as the first row for select_prev,
\* and as none for select_next.
select_prev ==
  /\ step = "ready" /\ filtered_indices # {}
  /\ LET above == IF selected \in filtered_indices
                    THEN {i \in filtered_indices : i < selected} ELSE {}
     IN  selected' = Max(IF above = {} THEN filtered_indices ELSE above)
  /\ UNCHANGED <<platform, file, tmp, list, filter, step, adding, saved>>

select_next ==
  /\ step = "ready" /\ filtered_indices # {}
  /\ LET below == IF selected \in filtered_indices
                    THEN {i \in filtered_indices : i > selected} ELSE {}
     IN  selected' = Min(IF below = {} THEN filtered_indices ELSE below)
  /\ UNCHANGED <<platform, file, tmp, list, filter, step, adding, saved>>

Next ==
  \/ \E readable \in BOOLEAN : Launch(readable)
  \/ Exit
  \/ \E s \in String : Add(s)
  \/ \E bundle \in Bundles : Import(bundle)
  \/ CreateTmp \/ WriteTmp \/ RemoveFile \/ Rename \/ SaveFails
  \/ \E F \in SUBSET String : ChangeFilter(F)
  \/ select_prev \/ select_next

Spec == Init /\ [][Next]_vars

-----------------------------------------------------------------------------
(* Properties.                                                             *)

\* The files hold nothing, a part of a text or a list; the selection is a row
\* of the list, which open_selected indexes without a check.
TypeOK ==
  /\ platform \in {"posix", "windows"}
  /\ {file, tmp} \subseteq {Missing, Torn} \cup Seq(String)
  /\ list \in Seq(String)
  /\ selected \in 0..Len(list)
  /\ filter \subseteq String
  /\ step \in {"down", "ready", "create", "write", "remove", "rename"}
  /\ adding \in BOOLEAN
  /\ saved \subseteq String

\* The identity of a Connection is its string, in memory and on the file,
\* whatever is added, imported from bundles with duplicates, and loaded.
OneConnectionPerString ==
  /\ IsInjective(list)
  /\ file \notin {Missing, Torn} => IsInjective(file)

\* ADR 0020: a Connection is saved on the Connection List, and each launch
\* offers it.  What the window said was saved is on the file whenever no save is
\* under way, however the program ended and whatever save failed since.
SavedStaysSaved == step \in {"down", "ready"} => saved \subseteq OnDisk

\* Where rename replaces the list in one step, and the list can be read, that
\* holds.
SavedStaysSavedOnPosix == platform = "posix" => SavedStaysSaved

\* The list in memory has everything the file has, so no save takes a
\* Connection off the file.
SaveOnlyAdds == step # "down" => OnDisk \subseteq ToSet(list)

\* A row was drawn with an index; whatever happens before it is clicked, the
\* index still names the same Connection.
RowIndexStable ==
  [][step' # "down" /\ step # "down" => IsPrefix(list, list')]_vars

Durable == INSTANCE DurableList WITH
  disk    <- ListOnDisk,
  shown   <- list,
  running <- step # "down"

\* The list lives on from launch to launch in its order, and its file operations
\* are invisible but for the one that empties the disk on Windows.
ImplementsDurableList == Durable!Spec
=============================================================================
