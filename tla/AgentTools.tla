------------------------------ MODULE AgentTools ------------------------------
(***************************************************************************)
(* The tools an agent's model step may call (agent_tools.rs), in a         *)
(* directory of the workspace whose files others change while a tool looks *)
(* at them.                                                                *)
(*                                                                         *)
(* A listing goes through the entries by name, a search through the files  *)
(* in the order of the directory walk, each file at a time, and a file is  *)
(* measured before it is read.  A reader who was told there is more asks   *)
(* for the lines after those it was given.                                 *)
(***************************************************************************)
EXTENDS Naturals, SequencesExt

CONSTANTS
    Names,                                  \* entries of the directory, in the order of their names
    Contents,                               \* the lines of a text file: "short", "hit" and "long" ones
    MaxListEntries, MaxReadLines, MaxReadOutput,
    MaxSearchFiles, MaxSearchResults, MaxMatchesPerFile,
    MaxEdits                                \* bound on the changes by others

ASSUME ToolsAssumption ==
    /\ Names \subseteq Nat \ {0} /\ IsFiniteSet(Names) /\ Contents \subseteq Seq({"short", "hit", "long"})
    /\ {MaxListEntries, MaxReadLines, MaxReadOutput, MaxSearchFiles, MaxSearchResults,
        MaxMatchesPerFile, MaxEdits} \subseteq Nat

VARIABLES
    files,      \* the entries of the directory
    workspace,  \* ToolContext.workspace_path: whether the conversation has one
    call,       \* the tool call under way
    work,       \* its local variables
    answer,     \* the result of the last call
    book,       \* what the reader has put together: the lines, and whether some were cut
    changed     \* entries changed since the call, or the reading, began

vars == <<files, workspace, call, work, answer, book, changed>>

(***************************************************************************)
(* The workspace                                                           *)
(***************************************************************************)
\* A text file; one with the hidden attribute; one too big for the search, but not
\* for the reader; one that is no text.
Texts == {"text", "hidden", "big"}
Regular == Texts \union {"binary"}
File(kind, named, lines) == [kind |-> kind, named |-> named, lines |-> lines]
Entries ==
    [kind : {"text"}, named : BOOLEAN, lines : Contents]
    \union [kind : {"hidden", "big"}, named : {FALSE}, lines : {<<"hit">>}]
    \union [kind : {"binary"}, named : BOOLEAN, lines : {<<>>}]
    \union [kind : {"directory", "external", "absent"}, named : {FALSE}, lines : {<<>>}]

\* WorkspaceGuard: the path exists and leads to something in the workspace.
Resolves(n) == files[n].kind \notin {"absent", "external"}
Hits(n) == Cardinality({i \in DOMAIN files[n].lines : files[n].lines[i] = "hit"})

LineBytes == [short |-> 1, hit |-> 1, long |-> 2]
\* The lines joined by a newline.
Bytes(lines) == FoldLeft(LAMBDA sum, line : sum + LineBytes[line] + 1, 0, lines)
Fits(lines) == lines = <<>> \/ Bytes(lines) - 1 <= MaxReadOutput

(***************************************************************************)
(* Calls                                                                   *)
(***************************************************************************)
Tools == {"calculator", "list_files", "read_file", "search_files", "get_file_info"}
NoCall == [tool |-> "none", step |-> "idle", target |-> 0, offset |-> 1, limit |-> 1]
NoWork == [todo |-> {}, scanned |-> 0, found |-> <<>>, omitted |-> 0]
NoAnswer == [tool |-> "none", ok |-> FALSE, found |-> <<>>, count |-> 0, more |-> FALSE]
EmptyBook == [target |-> 0, first |-> 1, lines |-> <<>>, cut |-> FALSE]

\* Only read_file looks at an offset and a limit, and not every tool at a path.
Arguments(tool) ==
    CASE tool = "read_file" -> Names \X (0..2) \X (0..(MaxReadLines + 1))
      [] tool = "get_file_info" -> Names \X {1} \X {1}
      [] OTHER -> {<<0, 1, 1>>}

Init ==
    /\ files \in [Names -> Entries] /\ workspace \in BOOLEAN
    /\ call = NoCall /\ work = NoWork /\ answer = NoAnswer /\ book = EmptyBook /\ changed = {}

\* successful_result and failed_result.
Return(ok, found, count, more) ==
    /\ answer' = [tool |-> call.tool, ok |-> ok, found |-> found, count |-> count, more |-> more]
    /\ call' = [call EXCEPT !.step = "done"]
    /\ work' = NoWork
Fail == Return(FALSE, <<>>, 0, FALSE)
\* The call goes on.
Goto(step) == call' = [call EXCEPT !.step = step] /\ UNCHANGED answer

Authorized(tool) == tool = "calculator" \/ workspace

\* prepare: an unknown tool is rejected, one that needs a workspace is blocked.  One
\* call, or one file read page by page: another call finds a workspace of Init.
Prepare(tool, arguments) ==
    /\ call.step = "idle"
    /\ call' = [tool |-> tool, step |-> IF tool \in Tools /\ Authorized(tool) THEN "start" ELSE "done",
                target |-> arguments[1], offset |-> arguments[2], limit |-> arguments[3]]
    /\ answer' = [NoAnswer EXCEPT !.tool = tool]
    /\ book' = [EmptyBook EXCEPT !.target = arguments[1], !.first = arguments[2]]
    /\ UNCHANGED <<files, workspace, work, changed>>

CallStep(tool, step) ==
    /\ call.tool = tool /\ call.step = step
    /\ UNCHANGED <<files, workspace, changed>>

Calculate ==
    /\ CallStep("calculator", "start") /\ UNCHANGED book
    /\ \E ok \in BOOLEAN : Return(ok, <<>>, 0, FALSE)

FileInfo ==
    /\ CallStep("get_file_info", "start") /\ UNCHANGED book
    /\ IF Resolves(call.target) THEN Return(TRUE, <<call.target>>, 0, FALSE) ELSE Fail

(***************************************************************************)
(* list_files                                                              *)
(***************************************************************************)
Present == {n \in Names : files[n].kind # "absent"}
First(todo) == CHOOSE n \in todo : \A m \in todo : n <= m

\* The limit is put on what the directory holds.
LimitBeforeFilter ==
    /\ CallStep("list_files", "start") /\ UNCHANGED book
    /\ work' = [NoWork EXCEPT !.todo = {n \in Present :
                                          Cardinality({m \in Present : m < n}) < MaxListEntries}]
    /\ Goto("list")
ListDirectory ==
    /\ CallStep("list_files", "start") /\ UNCHANGED book
    /\ work' = [NoWork EXCEPT !.todo = Present]
    /\ Goto("list")

\* An entry that has gone meanwhile fails the call; one that is hidden or leads out
\* of the workspace is counted.
ListEntry ==
    /\ CallStep("list_files", "list") /\ UNCHANGED book
    /\ work.todo # {}
    /\ LET n == First(work.todo)
           rest == [work EXCEPT !.todo = @ \ {n}]
       IN CASE files[n].kind = "absent" -> Fail
            [] files[n].kind \in {"hidden", "external"} ->
                   work' = [rest EXCEPT !.omitted = @ + 1] /\ Goto("list")
            [] OTHER -> work' = [rest EXCEPT !.found = Append(@, n)] /\ Goto("list")

ListDone ==
    /\ CallStep("list_files", "list") /\ UNCHANGED book
    /\ work.todo = {}
    /\ Return(TRUE, SubSeq(work.found, 1, Min({MaxListEntries, Len(work.found)})), work.omitted,
              Len(work.found) > MaxListEntries)

(***************************************************************************)
(* read_file                                                               *)
(***************************************************************************)
\* The path is resolved and the size looked at.
ReadSize ==
    /\ CallStep("read_file", "start") /\ UNCHANGED book
    /\ IF files[call.target].kind \in Regular THEN Goto("read") /\ UNCHANGED work ELSE Fail

\* An offset that counts from 0.
WindowFromOffset(lines) ==
    LET start == Min({call.offset, Len(lines)})
    IN SubSeq(lines, start + 1, Min({start + call.limit, Len(lines)}))
\* The lines asked for, of those that are there.
Window(lines) ==
    LET start == Min({call.offset - 1, Len(lines)})
    IN SubSeq(lines, start + 1, Min({start + call.limit, Len(lines)}))
Whole(lines) == CHOOSE i \in 0..Len(lines) :
    Fits(SubSeq(lines, 1, i)) /\ \A j \in (i + 1)..Len(lines) : ~Fits(SubSeq(lines, 1, j))

\* The file is read, and what is more than the limits is cut off.
ReadText ==
    /\ CallStep("read_file", "read")
    /\ LET lines == files[call.target].lines
           selected == Window(lines)
           cut == ~Fits(selected)
       IN IF files[call.target].kind \notin Texts \/ call.offset = 0 \/ call.limit \notin 1..MaxReadLines
          THEN Fail /\ UNCHANGED book
          ELSE /\ Return(TRUE, SubSeq(selected, 1, Whole(selected)), Len(selected),
                         call.offset - 1 + call.limit < Len(lines) \/ cut)
               /\ book' = [book EXCEPT !.lines = @ \o SubSeq(selected, 1, Whole(selected)),
                                       !.cut = @ \/ cut]

\* The reader goes on after the lines it was given; the book stays.
ReadOn ==
    /\ call.step = "done" /\ answer.ok /\ answer.tool = "read_file" /\ answer.more
    /\ call' = [call EXCEPT !.step = "start", !.offset = @ + answer.count]
    /\ answer' = [NoAnswer EXCEPT !.tool = "read_file"]
    /\ UNCHANGED <<files, workspace, work, book, changed>>

(***************************************************************************)
(* search_files                                                            *)
(***************************************************************************)
WalkDirectory ==
    /\ CallStep("search_files", "start") /\ UNCHANGED book
    /\ work' = [NoWork EXCEPT !.todo = {n \in Names : files[n].kind \in Regular}]
    /\ Goto("search")

SearchFull == work.scanned >= MaxSearchFiles \/ Len(work.found) >= MaxSearchResults
Found(n, what, k) == [i \in 1..k |-> <<n, what>>]
NameMatches(n) == Found(n, "name", IF files[n].named THEN 1 ELSE 0)
\* The first matches in a file that can be read, as far as there is room.
ContentMatches(n, found) ==
    IF files[n].kind \notin {"text", "hidden"} THEN <<>>
    ELSE Found(n, "content", Min({Hits(n), MaxMatchesPerFile, MaxSearchResults - Len(found)}))

SearchFile(n) ==
    /\ CallStep("search_files", "search") /\ UNCHANGED book
    /\ n \in work.todo
    /\ LET rest == [work EXCEPT !.todo = @ \ {n}]
           found == work.found \o NameMatches(n)
       IN CASE SearchFull -> Return(TRUE, work.found, 0, TRUE)
            [] ~SearchFull /\ ~Resolves(n) -> work' = rest /\ Goto("search")
            [] ~SearchFull /\ Resolves(n) /\ Len(found) >= MaxSearchResults -> Return(TRUE, found, 0, TRUE)
            [] OTHER -> /\ work' = [rest EXCEPT !.scanned = @ + 1,
                                                !.found = found \o ContentMatches(n, found)]
                        /\ Goto("search")

SearchDone ==
    /\ CallStep("search_files", "search") /\ UNCHANGED book
    /\ work.todo = {}
    /\ Return(TRUE, work.found, 0, FALSE)

(***************************************************************************)
(* Somebody changes a file, or removes it, while a tool is at work or the  *)
(* reader between two pages.                                               *)
(***************************************************************************)
Edit(n, f) ==
    /\ call.step \notin {"idle", "start"} /\ Cardinality(changed) < MaxEdits /\ n \notin changed
    /\ call.step = "done" => answer.more /\ answer.tool = "read_file"
    /\ files' = [files EXCEPT ![n] = f]
    /\ changed' = changed \union {n}
    /\ UNCHANGED <<workspace, call, work, answer, book>>

Next ==
    \/ \E tool \in Tools \union {"unknown"} : \E arguments \in Arguments(tool) : Prepare(tool, arguments)
    \/ Calculate \/ FileInfo \/ ListDirectory \/ ListEntry \/ ListDone \/ ReadSize \/ ReadText \/ ReadOn
    \/ WalkDirectory \/ SearchDone \/ \E n \in Names : SearchFile(n)
    \/ \E n \in Names, f \in {File("absent", FALSE, <<>>), File("text", FALSE, <<"hit">>)} : Edit(n, f)

Spec == Init /\ [][Next]_vars

(***************************************************************************)
(* Properties                                                              *)
(***************************************************************************)
Done(tool) == call.step = "done" /\ answer.ok /\ answer.tool = tool

\* A reader who goes on as long as there is more has read the file, whatever the
\* limit of its calls, unless a page was too long or somebody wrote to the file.
PagesAddUp ==
    LET lines == files[book.target].lines
    IN Done("read_file") /\ ~book.cut /\ book.target \notin changed
       => /\ book.lines = SubSeq(lines, book.first, book.first + Len(book.lines) - 1)
          /\ ~answer.more => book.lines = SubSeq(lines, book.first, Len(lines))

\* A listing that is not truncated has every entry that stayed and can be shown, and
\* counts the others.
ListIsComplete ==
    Done("list_files") =>
        LET shown == ToSet(answer.found)
            silent == {n \in Names : files[n].kind \in {"hidden", "external"}}
        IN /\ Len(answer.found) <= MaxListEntries /\ Cardinality(shown) = Len(answer.found)
           /\ ~answer.more => shown \ changed = (Present \ silent) \ changed
           /\ changed = {} => answer.count = Cardinality(silent)

\* A search that is not truncated and has room left has looked into every file that
\* stayed, and reports its name and as many of its lines as one file may add.
SearchIsComplete ==
    Done("search_files") =>
        LET Reported(n, what) == Cardinality({i \in DOMAIN answer.found : answer.found[i] = <<n, what>>})
        IN /\ Len(answer.found) <= MaxSearchResults
           /\ ~answer.more /\ Len(answer.found) < MaxSearchResults =>
                  \A n \in {m \in Names \ changed : files[m].kind \in Regular} :
                      /\ Reported(n, "name") = (IF files[n].named THEN 1 ELSE 0)
                      /\ files[n].kind \in {"text", "hidden"} =>
                             Reported(n, "content") = Min({Hits(n), MaxMatchesPerFile})

\* What a listing or a search leaves out it says it left out: nobody who reads that it
\* is complete misses an entry, a file or a line of one.
NothingMissing == ListIsComplete /\ SearchIsComplete
===============================================================================
