----------------------------- MODULE HttpArgs -----------------------------
(***************************************************************************)
(* passes/http_args.py: which of the values around a sink of the network   *)
(* are the method, the URL, the content type and the body of its request.  *)
(*                                                                         *)
(* A sink is [function, kind, target, category, at, strings, artifacts,    *)
(* sources, registers, typed, direct, listed, arrays, fields, roles]: typed *)
(* is the record dataflow has of the call, as a list of at most one;       *)
(* registers and direct are the call's string arguments as the two views   *)
(* of the calls give them; listed and arrays the strings and single values *)
(* behavior_ir adds to them; artifacts are <<type, text>>.                 *)
(*                                                                         *)
(* A static source is [kind, id, named, section, size, high, magic,        *)
(* reasons, url, ctype, body, other]: whether its entropy is high, the     *)
(* first URL, content type and body in its preview, and what else the      *)
(* preview shows, each at most one.                                        *)
(* An argument is [value, source, location].  Classifications of bodies    *)
(* and rendered previews are left out.                                     *)
(***************************************************************************)
EXTENDS Ops

CONSTANTS
    ContentTypes, Bodies, HttpVerbs,    \* literals: content types; JSON and forms; methods
    ApiShapes,                          \* callee -> the shape of call its name stands for
    MethodNames,                        \* callees that take a receiver first
    BodyBuilders,                       \* callees that make a reader or buffer of their argument
    TextLength                          \* the length of a literal; other lengths are 0 or greater

STRING_REGISTERS == <<"RAX", "RBX", "RCX", "RDI", "RSI">>   \* of nine

Nth(xs, i) == Guarded(i \in 1..Len(xs), Take(SubSeq(xs, i, Len(xs)), 1))
named_by(target) == IF target \in DOMAIN ApiShapes THEN ApiShapes[target] ELSE None
argument_value(v, source, location) == [value |-> v, source |-> source, location |-> location]
among(xs, S) == SelectSeq(xs, LAMBDA x : x.value \in S)

http_shape(s) ==
    CASE "http_get" \in {s.kind, named_by(s.target)} -> "http_get"
      [] "http_post" \in {s.kind, named_by(s.target)} -> "http_post"
      [] s.kind = "http_request" \/ named_by(s.target) = "http_new_request" -> "http_new_request"
      [] named_by(s.target) \in {"http_client_do", "http_request_write"} -> named_by(s.target)
      [] OTHER -> None

typed_arguments(s) == Concat(s.typed, LAMBDA c : c.args)
preview(x) == Take(x.url \o x.ctype \o x.body \o x.other, 1)

-----------------------------------------------------------------------------
(* The string arguments in order.                                          *)

\* A source that has no name may be any pointer's; one that has, only that of a pointer to it.
may_point_to(v, x) == ~x.named \/ (x.kind = v.kind /\ x.id = v.label)

\* What a source shows that may be the text: its first URL, wherever the pointer points, its content
\* type, or a body if it has the right length.
shown_text(x, n) == Take(x.url \o x.ctype \o Guarded(n = TextLength, x.body), 1)

TEXT_KINDS == {"global_string", "global_string_header"}     \* the values that hold their text

\* What is known to be pointed to, or what a source shows; every pointer has a label, so that the
\* strings of the sink are never asked.
string_from_pointer_length(s, v, n) ==
    IF v.kind \in TEXT_KINDS /\ n = TextLength THEN <<v.label>>
    ELSE IF n = 0 THEN <<>>
    ELSE Take(Concat(SelectSeq(s.sources, LAMBDA x : may_point_to(v, x)), LAMBDA x : shown_text(x, n)), 1)

in_register(s, r) == SelectSeq(typed_arguments(s), LAMBDA a : a.reg = r)

text_of_pair(s, ptr, len) ==
    Concat(in_register(s, ptr), LAMBDA a : Concat(in_register(s, len), LAMBDA b :
        Guarded(b.value.kind = "int",
            Each(string_from_pointer_length(s, a.value, b.value.n),
                 LAMBDA t : argument_value(t, "typed_pointer_length", <<"pair", ptr>>)))))

strings_from_typed_pairs(s) ==
    LET first == IF s.target \in MethodNames THEN 1 ELSE 0
    IN  Concat(<<1, 3>>, LAMBDA i : text_of_pair(s, STRING_REGISTERS[first + i], STRING_REGISTERS[first + i + 1]))

typed_string_args(s) ==
    Concat(s.typed, LAMBDA c : Each(c.pairs, LAMBDA x : argument_value(x.value, "dataflow", <<"pair", x.reg>>)))
sink_strings(s) ==
    [i \in 1..Len(s.strings) |-> argument_value(s.strings[i], "sink_strings", <<"strings", i>>)] \o <<>>

dedupe_ordered(xs) == First(xs, LAMBDA x : <<x.location, x.value>>)
ordered_string_arguments(s) ==
    LET given == strings_from_typed_pairs(s) \o s.registers \o typed_string_args(s) \o s.direct
    IN  dedupe_ordered(IF given # <<>> THEN given ELSE sink_strings(s))

-----------------------------------------------------------------------------
(* The parts of a request, each a list of at most one.                     *)

first_url_candidate(s) ==
    Take(Each(SelectSeq(s.strings, LAMBDA v : v \in Urls),
              LAMBDA v : argument_value(v, "sink_strings", None))
         \o Each(SelectSeq(s.artifacts, LAMBDA a : a[1] = "url"),
                 LAMBDA a : argument_value(a[2], "artifact", None))
         \o Each(Concat(s.sources, LAMBDA x : x.url),
                 LAMBDA v : argument_value(v, "static_data_preview", None)), 1)

\* Where the URL is among the arguments of a shape; a request object has none.
url_position(shape) ==
    CASE shape \in {"http_get", "http_post"} -> 1 [] shape = "http_new_request" -> 2 [] OTHER -> 0

url_argument(s, shape, ordered) ==
    Take(among(Nth(ordered, url_position(shape)), Urls) \o first_url_candidate(s), 1)

\* The second argument stands for the content type if nothing looks like one, whatever it is.
content_type_argument(s, ordered) ==
    Take(among(ordered, ContentTypes)
         \o Each(Concat(s.sources, LAMBDA x : x.ctype),
                 LAMBDA v : argument_value(v, "static_data_preview", None))
         \o Nth(ordered, 2), 1)

\* The last producer at or before the sink, or else the last; of those whose value is passed on, if
\* the result of a call is passed.
producer_for_sink(s, producers) ==
    LET targets == {a.value.label : a \in {x \in ToSet(typed_arguments(s)) : x.value.kind = "call_return"}}
        fit     == SelectSeq(producers, LAMBDA p : targets = {} \/ p.target \in targets)
        before  == SelectSeq(fit, LAMBDA p : s.at # 0 /\ p.at <= s.at)
    IN  IF before # <<>> THEN Nth(before, Len(before)) ELSE Nth(fit, Len(fit))

body_from_producer(p) ==
    CASE p.strs # <<>> -> argument_value(p.strs[1], "literal_body_reader", None)
      [] p.strs = <<>> /\ p.slices # <<>> -> argument_value(None, "byte_slice_body_reader", None)
      [] OTHER -> argument_value(None, "reader_or_buffer_call", None)

infer_body_argument(s, producers) ==
    Take(Each(producer_for_sink(s, producers), body_from_producer)
         \o Each(Concat(s.sources, LAMBDA x : x.body),
                 LAMBDA v : argument_value(v, "nearby_static_body_candidate", None))
         \o Each(SelectSeq(typed_arguments(s), LAMBDA a : a.value.kind = "call_return"
                                                          /\ a.value.label \in BodyBuilders),
                 LAMBDA a : argument_value(None, "reader_or_buffer_call_return", None))
         \o Guarded(s.sources # <<>>, <<argument_value(None, "related_static_data", None)>>)
         \o <<argument_value(None, "unresolved_reader_or_interface", None)>>, 1)

http_method(shape, url, ordered) ==
    CASE shape = "http_get" /\ url # <<>> -> <<"GET">>
      [] shape = "http_post" /\ url # <<>> -> <<"POST">>
      [] shape = "http_new_request" -> Each(among(Nth(ordered, 1), HttpVerbs), LAMBDA x : x.value)
      [] OTHER -> <<>>

named_arguments(s, shape, ordered, url, producers) ==
    [shape        |-> shape,
     url          |-> url,
     method       |-> http_method(shape, url, ordered),
     content_type |-> Guarded(shape = "http_post", content_type_argument(s, ordered)),
     body         |-> Guarded(shape \in {"http_post", "http_new_request"}, infer_body_argument(s, producers))]

\* Nothing is said of a sink that is no request, nor of a get whose URL is not known.
http_arguments(s, producers) ==
    LET shape   == http_shape(s)
        ordered == ordered_string_arguments(s)
        url     == url_argument(s, shape, ordered)
    IN  Guarded(/\ s.category = "network" /\ shape # None
                /\ shape = "http_get" => url # <<>>,
                <<named_arguments(s, shape, ordered, url, producers)>>)

body_producers_from_dataflow(dataflow, f) ==
    SortBy(SelectSeq(IF f \in DOMAIN dataflow THEN dataflow[f].args ELSE <<>>,
                     LAMBDA c : c.target \in BodyBuilders),
           LAMBDA a, b : a.at < b.at)
============================================================================
