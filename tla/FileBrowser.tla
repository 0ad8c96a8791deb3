---------------------------- MODULE FileBrowser -----------------------------
(***************************************************************************)
(* The browser of a service's log files (web/src, FileBrowser and its      *)
(* viewer and search).  It asks the server for the list of files, for one  *)
(* page of the selected file, and for the matches of a pattern; nothing    *)
(* ties an answer to what is shown when it comes.  An answer to a viewer   *)
(* or a search that has left the page is lost.                             *)
(***************************************************************************)
EXTENDS Integers, Sequences, SequencesExt

CONSTANTS
  LogServices, Files,
  Pages,          \* the pages the viewer is told a file has, 1..n
  NoFile,
  MaxFileAsks     \* bound: lists and pages each that are asked for at once

VARIABLES
  service,        \* the service the address names
  list,           \* [loading, error, of]: `of` is the service the files are of
  selected,       \* the file that is selected, or NoFile
  viewer,         \* [page, data, loading, error]
  search,         \* the panel: [open, searched, loading, error, hits]
  listAsks,       \* lists under way, by service, in the order they were asked for
  pageAsks,       \* pages under way; a search is under way while it is loading
  crossedFiles,   \* history: a page has overtaken one asked for before it
  lastSearch      \* history: what the last search was answered

fileVars == <<service, list, selected, viewer, search, listAsks, pageAsks, crossedFiles, lastSearch>>

NoPage       == [service |-> NoFile, file |-> NoFile, page |-> 0]
FreshViewer  == [page |-> 1, data |-> NoPage, loading |-> TRUE, error |-> FALSE]
FreshSearch  == [open |-> FALSE, searched |-> FALSE, loading |-> FALSE, error |-> FALSE,
                 hits |-> "none"]
PageAsk(s, file, page) == [service |-> s, file |-> file, page |-> page]

HasBody(l)   == ~l.loading /\ ~l.error
ViewerShown  == HasBody(list) /\ selected # NoFile

FileBrowserInit ==
  /\ service \in LogServices /\ selected = NoFile
  /\ list = [loading |-> TRUE, error |-> FALSE, of |-> NoFile]
  /\ viewer = FreshViewer /\ search = FreshSearch
  /\ listAsks = <<service>> /\ pageAsks = <<>> /\ crossedFiles = FALSE /\ lastSearch = "none"

Ask(reqs) ==
  /\ Len(pageAsks) + Len(reqs) <= MaxFileAsks /\ pageAsks' = pageAsks \o reqs
  /\ crossedFiles' = (crossedFiles /\ pageAsks # <<>>)

(* The list is asked for again: a body that is loading has neither viewer nor search. *)
AskList(s) ==
  /\ Len(listAsks) < MaxFileAsks /\ listAsks' = Append(listAsks, s)
  /\ pageAsks' = <<>> /\ crossedFiles' = FALSE
  /\ list' = [list EXCEPT !.loading = TRUE, !.error = FALSE]
  /\ viewer' = FreshViewer /\ search' = [FreshSearch EXCEPT !.open = search.open]

(* The address names another service; the file that was selected stays so. *)
SwitchService(s) == s # service /\ service' = s /\ AskList(s) /\ UNCHANGED <<selected, lastSearch>>
RetryList == list.error /\ AskList(service) /\ UNCHANGED <<service, selected, lastSearch>>

-----------------------------------------------------------------------------
(* The effects of a new file name: the page that was shown is asked of the *)
(* new file, then its first page.                                          *)
PageAsks(file) ==
  IF viewer.page = 1 THEN <<PageAsk(service, file, 1)>>
  ELSE <<PageAsk(service, file, viewer.page), PageAsk(service, file, 1)>>
Select(file) ==
  /\ HasBody(list) /\ file # selected
  /\ selected' = file /\ viewer' = FreshViewer
  /\ Ask(IF selected = NoFile THEN <<PageAsk(service, file, 1)>> ELSE PageAsks(file))
  /\ UNCHANGED <<service, list, listAsks, lastSearch>>
SelectFile(file) == Select(file) /\ ~search.open /\ UNCHANGED search

StillTurned(p) == IF pageAsks # <<>> THEN <<>>   \* mutant: not while another page is loading
                  ELSE <<PageAsk(service, selected, p)>>
Turned(p)      == <<PageAsk(service, selected, p)>>
(* The buttons and "Go to" count from the page that is shown. *)
TurnPage(p) ==
  /\ ViewerShown /\ ~viewer.error /\ viewer.data # NoPage
  /\ p \in Pages \ {viewer.data.page, viewer.page}
  /\ viewer' = [viewer EXCEPT !.page = p, !.loading = TRUE, !.error = FALSE]
  /\ Ask(Turned(p)) /\ UNCHANGED <<service, list, selected, search, listAsks, lastSearch>>
RetryPage ==
  /\ ViewerShown /\ viewer.error
  /\ viewer' = [viewer EXCEPT !.loading = TRUE, !.error = FALSE]
  /\ Ask(Turned(viewer.page))
  /\ UNCHANGED <<service, list, selected, search, listAsks, lastSearch>>

-----------------------------------------------------------------------------
ToggleSearch ==
  /\ HasBody(list) /\ search' = [FreshSearch EXCEPT !.open = ~search.open]
  /\ UNCHANGED <<service, list, selected, viewer, listAsks, pageAsks, crossedFiles, lastSearch>>

(* The button, the key Enter, and Retry: each is off while one is searching. *)
RunSearch ==
  /\ HasBody(list) /\ search.open /\ ~search.loading
  /\ search' = [search EXCEPT !.loading = TRUE, !.searched = TRUE, !.error = FALSE]
  /\ UNCHANGED <<service, list, selected, viewer, listAsks, pageAsks, crossedFiles, lastSearch>>

(* A match is clicked: its file is selected and the list comes back. *)
OpenMatch(file) ==
  /\ HasBody(list) /\ search.open /\ ~search.loading /\ search.hits = "some"
  /\ search' = FreshSearch
  /\ IF file = selected
     THEN UNCHANGED <<service, list, selected, viewer, listAsks, pageAsks, crossedFiles, lastSearch>>
     ELSE Select(file)

-----------------------------------------------------------------------------
(* When the body comes back with a selected file its viewer starts anew.   *)
AnswerList(i, ok) ==
  LET now   == IF ok THEN [list EXCEPT !.of = listAsks[i], !.loading = FALSE]
               ELSE [list EXCEPT !.error = TRUE, !.loading = FALSE]
      comes == ~HasBody(list) /\ HasBody(now)
      goes  == ~HasBody(now)
  IN  /\ listAsks' = RemoveAt(listAsks, i) /\ list' = now
      /\ crossedFiles' = (crossedFiles /\ ~comes /\ ~goes)
      /\ viewer' = IF comes \/ goes THEN FreshViewer ELSE viewer
      /\ search' = IF goes THEN [FreshSearch EXCEPT !.open = search.open] ELSE search
      /\ pageAsks' = IF goes THEN <<>>
                     ELSE IF comes /\ selected # NoFile
                     THEN Append(pageAsks, PageAsk(service, selected, 1)) ELSE pageAsks
      /\ UNCHANGED <<service, selected, lastSearch>>

AnswerPage(i, ok) ==
  /\ pageAsks' = RemoveAt(pageAsks, i) /\ crossedFiles' = (crossedFiles \/ i > 1)
  /\ viewer' = IF ok THEN [viewer EXCEPT !.data = pageAsks[i], !.loading = FALSE]
               ELSE [viewer EXCEPT !.error = TRUE, !.loading = FALSE]
  /\ UNCHANGED <<service, list, selected, search, listAsks, lastSearch>>

(* What an answer leaves: its matches, or an error and none. *)
ResultOnly(outcome)   == [hits |-> IF outcome = "some" THEN "some" ELSE "none",
                          error |-> FALSE]               \* mutant: a failure only empties the results
SearchResult(outcome) == [hits |-> IF outcome = "some" THEN "some" ELSE "none",
                          error |-> outcome = "failed"]
AnswerSearch(outcome) ==
  LET now == SearchResult(outcome) IN
  /\ search.loading
  /\ search' = [search EXCEPT !.loading = FALSE, !.hits = now.hits, !.error = now.error]
  /\ lastSearch' = outcome
  /\ UNCHANGED <<service, list, selected, viewer, listAsks, pageAsks, crossedFiles>>

FileBrowserNext ==
  \/ \E s \in LogServices : SwitchService(s)
  \/ RetryList
  \/ \E file \in Files : SelectFile(file)
  \/ \E p \in Pages : TurnPage(p)
  \/ RetryPage
  \/ ToggleSearch
  \/ RunSearch
  \/ \E file \in Files : OpenMatch(file)
  \/ \E ok \in BOOLEAN : \/ \E i \in 1..Len(listAsks) : AnswerList(i, ok)
                         \/ \E i \in 1..Len(pageAsks) : AnswerPage(i, ok)
  \/ \E o \in {"none", "some", "failed"} : AnswerSearch(o)

-----------------------------------------------------------------------------
(* What the viewer shows under a file's name, once it has been answered in *)
(* the order it asked, is the page it stands on of that file of this       *)
(* service, whichever way the file was opened, the page turned or the list *)
(* loaded again (FileViewer.tsx:53-68, FileBrowser.tsx:46-67).             *)
ContentIsOfFile ==
  ViewerShown /\ pageAsks = <<>> /\ ~crossedFiles /\ ~viewer.error =>
    viewer.data = [service |-> service, file |-> selected, page |-> viewer.page]

(* "A failed search must not look like 'no matches'" (FileSearch.tsx:45):  *)
(* the panel says that there are no matches only of an answer that had     *)
(* none, and never of one that failed or that is still to come.            *)
NoMatchesIsTrue ==
  search.searched /\ ~search.loading /\ ~search.error /\ search.hits = "none" => lastSearch = "none"
=============================================================================
