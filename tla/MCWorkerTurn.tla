---------------------------- MODULE MCWorkerTurn ----------------------------
(***************************************************************************)
(* Instances of WorkerTurn for TLC: a root with one file, and the name of  *)
(* a file that is not there; a server that offers one tool nobody tagged.  *)
(***************************************************************************)
EXTENDS WorkerTurnInv, TLC

MCPaths == {"root", "file", "ghost"}
MCDirectories == {"root"}
MCFiles == {"file"}
MCChildrenOf == [d \in {"root"} |-> {"file"}]
MCNumberIn == <<"read_document_bounded", "file">> :> 7 @@ <<"list_directory", "root">> :> 12

MCServerTools == {"list_directory", "read_document_bounded", "edit_file"}
MCOverrides == FilesystemOverrides

Asks(signals, computes, format, conflict) ==
    [signals |-> signals, computes |-> computes, format |-> format, conflict |-> conflict]

\* "what is 6 * 7", "what is 1 / 0, answer with one word"
Sum == Asks({"ARITHMETIC"}, TRUE, "none", "none")
NoSum == Asks({"ARITHMETIC"}, FALSE, "single_word", "none")
\* "read the file", "delete the file", "read the file and delete it"
Read == Asks({"FILESYSTEM", "file_noun", "read_doc", "fs_verb", "fs_noun"}, FALSE, "none", "none")
Delete == Asks({"FILESYSTEM", "file_noun", "delete"}, FALSE, "none", "none")
ReadAndDelete == Asks({"FILESYSTEM", "file_noun", "delete", "read_doc"}, FALSE, "none", "none")
\* "two gauges differ: which is right", "return JSON with the keys a and b"
Gauges == Asks({"CURRENT_STATE"}, FALSE, "none", "measurements")
Json == Asks({}, FALSE, "json_keys", "none")

Says(traits, paths, number) == [traits |-> traits, paths |-> paths, number |-> number]

MCAnswers ==
    {Says({}, {}, NoNumber),
     Says({"single_word", "exact_word", "tool_claim"}, {}, NoNumber),
     Says({"truncated", "all_values"}, {}, NoNumber),
     Says({"error_hint", "all_values"}, {"ghost"}, NoNumber),
     Says({"read_claim"}, {"file"}, 7),
     Says({"json", "json_keys"}, {}, NoNumber)}

Calls(name, path) == [name |-> name, path |-> path]

MCCallLists ==
    {<<Calls("read_document_bounded", "file")>>,
     <<Calls("list_directory", "root")>>,
     <<Calls("edit_file", "file"), Calls("read_document_bounded", "ghost")>>}

MCStepCalls == {Calls("list_directory", "root"), Calls("edit_file", "file")}

MCProfile(allowed, write, max_selected, rounds) ==
    [allowed |-> allowed, write_allowed |-> write, shell_allowed |-> FALSE,
     max_selected |-> max_selected, max_tool_rounds |-> rounds]

Reader(rounds) == MCProfile(<<"list_directory", "read_document_bounded">>, FALSE, 2, rounds)
Writer == MCProfile(<<"edit_file", "read_document_bounded", "stat_path">>, TRUE, 2, 1)

MCSetting(caller, attached, auditor, profile, requests, bound) ==
    [caller |-> caller, attached |-> attached, auditor |-> auditor, profile |-> profile,
     requests |-> requests, uses |-> bound]

\* One command with every request; a dispatch of three steps; two turns of a
\* library that survives its exceptions; a worker without a server.
MCSettings ==
    {MCSetting("run", TRUE, TRUE, Reader(2),
               {Sum, NoSum, Read, Delete, ReadAndDelete, Gauges, Json}, 1),
     MCSetting("dispatch", TRUE, FALSE, Reader(1), {Read, Json}, 3),
     MCSetting("library", TRUE, FALSE, Writer, {Delete, Read}, 2),
     MCSetting("library", FALSE, TRUE, Reader(1), {Read, Gauges, Json}, 2)}
=============================================================================
