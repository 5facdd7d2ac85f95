-------------------------- MODULE ProcessFileArgs --------------------------
(***************************************************************************)
(* passes/process_file_args.py: which of the values around a sink are the  *)
(* executable and the arguments of the process it starts, or the path, the *)
(* data, the flags and the mode of the file it works on.  Sinks, static    *)
(* sources and arguments are those of HttpArgs; a literal of Commands is a *)
(* bare word.  Classifications of data, the command line and the names of  *)
(* flags are left out.                                                     *)
(***************************************************************************)
EXTENDS HttpArgs

CONSTANTS
    Words,              \* a literal of twelve characters or more, with separators -> its words
    MAX_COMPONENTS      \* 12

Sentences == DOMAIN Words
DIRECT_SOURCES == {"call_graph", "behavior_ir_string_args", "call_graph_string_args"}
FILE_MODES == {0, 384, 420, 438, 493, 511}      \* 0, 0o600, 0o644, 0o666, 0o755, 0o777

\* Unlike those of a request, the sink's strings count whatever else there is.
ordered_strings(s) == dedupe_ordered(s.registers \o s.direct \o typed_string_args(s) \o sink_strings(s))

\* strict_command and useful_argv_part: a path, a file or a single word.
useful_argv_part(v) == v \notin Urls \cup Sentences \cup ContentTypes \cup Bodies
useful_file_data_literal(v) == v \in Sentences \cup Bodies

artifacts_of(s, types) ==
    Each(SelectSeq(s.artifacts, LAMBDA a : a[1] \in types), LAMBDA a : argument_value(a[2], "artifact", None))
values_of(xs) == {x.value : x \in ToSet(xs)}

-----------------------------------------------------------------------------
(* Processes.                                                              *)

process_shape(s) ==
    IF named_by(s.target) \in {"exec_command", "exec_command_context", "start_process", "fork_exec",
                               "syscall_exec", "process_object_run"}
    THEN named_by(s.target) ELSE "process_launch"

first_process_executable(s, values) ==
    Take(SelectSeq(values, LAMBDA x : x.source # "sink_strings" /\ useful_argv_part(x.value))
         \o SelectSeq(artifacts_of(s, {"command"}), LAMBDA x : useful_argv_part(x.value)), 1)

\* Mutant: what is merely near the call is an argument of it too.
process_argv_All(values, executable) ==
    First(SelectSeq(values, LAMBDA x : useful_argv_part(x.value) /\ x.value \notin values_of(executable)),
          LAMBDA x : x.value)

\* Where the call's own strings are known, those near it and those dataflow saw do not count.
process_argv(values, executable) ==
    LET direct == \E x \in ToSet(values) : x.source \in DIRECT_SOURCES
    IN  First(SelectSeq(values, LAMBDA x : /\ useful_argv_part(x.value)
                                           /\ x.value \notin values_of(executable)
                                           /\ ~(direct /\ x.source \in {"sink_strings", "dataflow"})),
              LAMBDA x : x.value)

\* The single values behavior_ir saw passed, word by word.
argument_array_components(s) ==
    Concat([i \in 1..Len(s.arrays) |-> i], LAMBDA i :
        Each(IF s.arrays[i] \in Sentences THEN Words[s.arrays[i]] ELSE <<s.arrays[i]>>,
             LAMBDA v : argument_value(v, "argument_array_or_slice", <<"symbolic", i>>)))

process_argv_from_argument_arrays(s, executable) ==
    SelectSeq(argument_array_components(s),
              LAMBDA x : useful_argv_part(x.value) /\ x.value \notin values_of(executable))

append_argument_values(argv, more) == Take(First(argv \o more, LAMBDA x : x.value), MAX_COMPONENTS)

process_record(s, executable, argv) ==
    Guarded(executable \o argv \o s.sources # <<>>,
        <<[shape |-> process_shape(s), executable |-> executable, argv |-> argv,
           argv_source |-> argv = <<>> /\ s.sources # <<>>]>>)

process_with(s, values, executable) ==
    process_record(s, executable,
        append_argument_values(process_argv(values, executable),
                               process_argv_from_argument_arrays(s, executable)))
process_from(s, values) == process_with(s, values, first_process_executable(s, values))

\* To run or start a command that was made elsewhere is passed nothing.
process_arguments(s) ==
    Guarded(s.category = "process" /\ process_shape(s) # "process_object_run",
            process_from(s, ordered_strings(s)))

-----------------------------------------------------------------------------
(* Files.                                                                  *)

FILE_SHAPES == [file_create |-> "create_file", file_open |-> "open_file",
                file_read |-> "read_file", file_write |-> "write_file"]

file_shape(s) ==
    IF named_by(s.target) \in {"write_file", "read_file", "open_file"} THEN named_by(s.target)
    ELSE IF s.kind \in DOMAIN FILE_SHAPES THEN FILE_SHAPES[s.kind] ELSE s.kind

\* An artifact of a path goes before the name of a file.
first_path_value(s, values) ==
    Take(among(values, Paths \cup Fragments \cup FileNames)
         \o artifacts_of(s, {"windows_path", "path"}) \o artifacts_of(s, {"file_name"}), 1)

\* The first source that has a signature or shows a body.
data_candidate_from_sources(sources) ==
    Take(Concat(sources, LAMBDA x :
        CASE x.magic # {} -> <<argument_value(None, "related_static_data", None)>>
          [] OTHER -> Each(x.body, LAMBDA v : argument_value(v, "nearby_static_data_candidate", None))), 1)

file_write_data(s, values) ==
    Take(SelectSeq(values, LAMBDA x : useful_file_data_literal(x.value))
         \o Each(SelectSeq(s.arrays, useful_file_data_literal),
                 LAMBDA v : argument_value(v, "argument_array_or_slice", None))
         \o data_candidate_from_sources(s.sources)
         \o <<argument_value(None, IF s.sources # <<>> THEN "related_static_data" ELSE "unresolved_argument",
                             None)>>, 1)

integer_arguments(s) ==
    Each(SelectSeq(typed_arguments(s), LAMBDA a : a.value.kind = "int"), LAMBDA a : a.value.n)
file_flags(shape, ints) == Guarded(shape = "open_file", Take(ints, 1))
file_mode(shape, ints) ==
    Take(SelectSeq(IF shape = "open_file" /\ Len(ints) > 1 THEN Tail(ints) ELSE ints,
                   LAMBDA n : n \in FILE_MODES), 1)

file_record(s, shape, values, path, ints) ==
    [shape |-> shape, path |-> path,
     data  |-> Guarded(s.kind \in {"file_write", "file_create"}, file_write_data(s, values)),
     read_target |-> Guarded(s.kind \in {"file_read", "file_open", "stream_read"},
                             IF path # <<>> THEN <<path[1].source>> ELSE <<"unresolved_argument">>),
     flags |-> file_flags(shape, ints),
     mode  |-> file_mode(shape, ints)]

file_from(s, values) ==
    file_record(s, file_shape(s), values, first_path_value(s, values), integer_arguments(s))

useful_file_record(r) == r.path \o r.data \o r.read_target \o r.flags \o r.mode # <<>>

file_arguments(s) ==
    Guarded(s.category = "filesystem",
            SelectSeq(<<file_from(s, ordered_strings(s))>>, useful_file_record))
============================================================================
