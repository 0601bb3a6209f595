----------------------------- MODULE BodyParsing -----------------------------
(* How the HTTP pipeline parses a body: the parser chosen by content type and *)
(* remembered for all requests, the parsers for text, JSON, forms and         *)
(* multipart forms, whose parts are parsed at once and by the same rules, and *)
(* the headers of parts.  (Parts that are multipart themselves are left out,  *)
(* as are JSON that is no object, and names that every object has.)           *)
(*                                                                            *)
(* A header value is [value, directives]; a directive [name, value, colon],    *)
(* where colon says that its value has a colon in it, or [name] if it has no   *)
(* value.  A body is what it holds: [text], [json], [entries] of a form, [parts] *)
(* of a multipart body, none of these when it is broken.  A part is the blocks  *)
(* that blank lines separate: [headers], or a body, or Blank.  An entry is what *)
(* the signs "=" separate, each [raw, text]: as it was sent, and decoded, unless *)
(* it cannot be.                                                               *)
EXTENDS Naturals, Sequences, SequencesExt, Functions

CONSTANTS BodyParsers,   \* in the order of registration
          ParserType,    \* the content type of each
          Bodies,        \* what requests send: [contentType, body]
          BodyPaths,
          MaxBodies      \* bound: bodies parsed

ASSUME BodiesAssumption ==
  /\ "none" \notin ToSet(BodyParsers)
  /\ \A m \in Bodies :
       /\ "entries" \in DOMAIN m.body => m.body.entries \in Seq(ToSet(m.body.entries))
       /\ "parts" \in DOMAIN m.body =>
            /\ m.body.parts \in Seq(ToSet(m.body.parts))
            /\ \A i \in DOMAIN m.body.parts :
                 LET part == m.body.parts[i]
                 IN /\ part \in Seq(ToSet(part))
                    /\ \A b \in DOMAIN part :
                         /\ "entries" \in DOMAIN part[b] => part[b].entries \in Seq(ToSet(part[b].entries))
                         /\ "headers" \in DOMAIN part[b] => \A name \in DOMAIN part[b].headers :
                              part[b].headers[name].directives \in Seq(ToSet(part[b].headers[name].directives))

VARIABLES parserCache,   \* HttpBodyParserCache: <<path, content type>> to parser
          parsing,       \* the body being parsed
          partResults,   \* parts parsed so far
          bodies         \* bodies received so far
bodyVars == <<parserCache, parsing, partResults, bodies>>

-----------------------------------------------------------------------------
(* splitRawHeader keeps what stands between the first colon and the second, so *)
(* that a directive whose value has a colon loses the rest of its value, and   *)
(* the header the directives after it.                                         *)
StartOf(value) == <<"start of", value>>
HasColon(d) == "colon" \in DOMAIN d /\ d.colon
UpToColon(header) ==
  IF \A i \in DOMAIN header.directives : ~HasColon(header.directives[i]) THEN header
  ELSE LET first == CHOOSE i \in DOMAIN header.directives :
                      HasColon(header.directives[i]) /\ \A j \in 1..(i - 1) : ~HasColon(header.directives[j])
       IN [value |-> header.value, directives |-> Append(SubSeq(header.directives, 1, first - 1),
             [name |-> header.directives[first].name, value |-> StartOf(header.directives[first].value), colon |-> FALSE])]

(* parseDirectiveHeaderValue: a directive without a value is an error.         *)
ParseFails(header) == \E i \in DOMAIN header.directives : "value" \notin DOMAIN header.directives[i]
Directive(header, name) ==
  LET given == {i \in DOMAIN header.directives : header.directives[i].name = name}
  IN IF given = {} THEN "none" ELSE header.directives[CHOOSE i \in given : \A j \in given : j <= i].value

(* selectBodyParser: the first that is registered for the type.                *)
Matching(type) == SelectInSeq(BodyParsers, LAMBDA p : ParserType[p] = type)
ParserFor(path, type) ==
  IF <<path, type>> \in DOMAIN parserCache THEN parserCache[<<path, type>>]
  ELSE IF Matching(type) = 0 THEN "none" ELSE BodyParsers[Matching(type)]
Remembered(path, type) ==
  IF ParserFor(path, type) = "none" THEN parserCache
  ELSE [k \in DOMAIN parserCache \cup {<<path, type>>} |->
          IF k = <<path, type>> THEN ParserFor(path, type) ELSE parserCache[k]]

EmptyText == ""   \* the value of "key="

(* FormUrlencodedBodyParser: only the value is decoded, and ends at a second    *)
(* "=", an entry without any has the text "undefined".  A value that is not     *)
(* empty is kept when its key comes again, and the key has all of them.         *)
KeyOf(entry) == entry[1].raw
ValueOf(entry) == IF Len(entry) = 1 THEN "undefined" ELSE entry[2].text
CannotBeDecoded(entry) == Len(entry) > 1 /\ "text" \notin DOMAIN entry[2]

AddEntry(result, entry) ==
  [k \in DOMAIN result \cup {KeyOf(entry)} |->
     IF k # KeyOf(entry) THEN result[k]
     ELSE IF k \in DOMAIN result /\ result[k] # <<EmptyText>> THEN Append(result[k], ValueOf(entry)) ELSE <<ValueOf(entry)>>]

ParseForm(entries) ==
  LET result[n \in 0 .. Len(entries)] == IF n = 0 THEN <<>> ELSE AddEntry(result[n - 1], entries[n])
  IN result[Len(entries)]

(* parseBodyFromString of the parsers which are not multipart.                 *)
Failure == [kind |-> "failed"]
ParseWith(parser, body) ==
  IF parser = "none" THEN Failure ELSE
  CASE ParserType[parser] = "text/plain" -> [kind |-> "text", value |-> body]
    [] ParserType[parser] = "application/json" ->
         IF "json" \in DOMAIN body THEN [kind |-> "object", value |-> body.json] ELSE Failure
    [] OTHER ->
         IF "entries" \in DOMAIN body /\ \A i \in DOMAIN body.entries : ~CannotBeDecoded(body.entries[i])
         THEN [kind |-> "object", value |-> ParseForm(body.entries)] ELSE Failure

(* HttpBodyParserBase: the result of a named part of a form has its name.      *)
ComposeFromDisposition(disposition, result) ==
  IF result = Failure \/ disposition.value # "form-data" \/ Directive(disposition, "name") \in {"none", EmptyText} THEN result
  ELSE [kind |-> "object", value |-> [n \in {Directive(disposition, "name")} |-> result]]

-----------------------------------------------------------------------------
Waiting == [pc |-> "waiting"]
BodyInit == parserCache = <<>> /\ parsing = Waiting /\ partResults = <<>> /\ bodies = 0

(* prepPart: of a part that was trimmed, the first block is the headers, the    *)
(* second the content, the rest is dropped.  A part of a single block has no    *)
(* headers, so the headers of a part without content are its content; a second  *)
(* block that is blank makes it no part.                                       *)
Blank == [text |-> EmptyText]
Held(part) == {b \in DOMAIN part : part[b] # Blank}
First(part) == CHOOSE b \in Held(part) : \A c \in Held(part) : b <= c
IsSingle(part) == \A b \in Held(part) : b = First(part)
PartHeaders(part) == IF ~IsSingle(part) /\ "headers" \in DOMAIN part[First(part)] THEN part[First(part)].headers ELSE <<>>
ContentOf(part) == IF IsSingle(part) THEN part[First(part)] ELSE part[First(part) + 1]
Prepared(parts) == {i \in DOMAIN parts : Held(parts[i]) # {} /\ ContentOf(parts[i]) # Blank}

TextPlain == [value |-> "text/plain", directives |-> <<>>]
NoDisposition == [value |-> "none", directives |-> <<>>]
HeaderOf(part, name, default) == IF name \in DOMAIN PartHeaders(part) THEN UpToColon(PartHeaders(part)[name]) ELSE default
PartFailsEarly(part) == \E name \in DOMAIN PartHeaders(part) : ParseFails(UpToColon(PartHeaders(part)[name]))

ReceiveBody(path, m) ==
  /\ parsing.pc \in {"waiting", "parsed", "failed"} /\ bodies < MaxBodies
  /\ bodies' = bodies + 1 /\ partResults' = <<>>
  /\ LET type == m.contentType.value
         parser == ParserFor(path, type)
         result == ParseWith(parser, m.body)
     IN IF ParseFails(m.contentType) \/ parser = "none"
        THEN parsing' = [pc |-> "failed", message |-> m] /\ UNCHANGED parserCache
        ELSE /\ parserCache' = Remembered(path, type)
             /\ parsing' = IF ParserType[parser] = "multipart/form-data"
                           THEN IF Directive(m.contentType, "boundary") = "none" THEN [pc |-> "failed", message |-> m]
                                ELSE [pc |-> "parts", message |-> m, path |-> path]
                           ELSE IF result = Failure THEN [pc |-> "failed", message |-> m]
                           ELSE [pc |-> "parsed", message |-> m, result |-> result.value]

(* The request's parsers, in an injector of the part's own.                    *)
ParsePart(i) ==
  /\ parsing.pc = "parts" /\ i \in Prepared(parsing.message.body.parts) \ DOMAIN partResults
  /\ LET part == parsing.message.body.parts[i]
         type == HeaderOf(part, "contentType", TextPlain).value
         result == ComposeFromDisposition(HeaderOf(part, "contentDisposition", NoDisposition),
                                          ParseWith(ParserFor(parsing.path, type), ContentOf(part)))
     IN IF PartFailsEarly(part) \/ result = Failure
        THEN parsing' = [pc |-> "failed", message |-> parsing.message] /\ UNCHANGED <<parserCache, partResults>>
        ELSE /\ parserCache' = Remembered(parsing.path, type)
             /\ partResults' = [j \in DOMAIN partResults \cup {i} |-> IF j = i THEN result ELSE partResults[j]]
             /\ UNCHANGED parsing
  /\ UNCHANGED bodies

(* Object.assign of the results in the order of the parts: the later one counts; *)
(* text without a name is spread by characters, of which the first is looked at. *)
Spread(part) == IF part.kind = "text" THEN [k \in {"0"} |-> part.value] ELSE part.value

\* Assign with a mistake: what is there is not replaced.
KeepWhatIsThere(result, part) ==
  [k \in DOMAIN result \cup DOMAIN Spread(part) |-> IF k \in DOMAIN result THEN result[k] ELSE Spread(part)[k]]

Assign(result, part) ==
  [k \in DOMAIN result \cup DOMAIN Spread(part) |-> IF k \in DOMAIN Spread(part) THEN Spread(part)[k] ELSE result[k]]
Assigned(results) ==
  LET result[n \in 0 .. Len(results)] == IF n = 0 THEN <<>> ELSE Assign(result[n - 1], results[n])
  IN result[Len(results)]

PartsParsed ==
  /\ parsing.pc = "parts" /\ DOMAIN partResults = Prepared(parsing.message.body.parts)
  /\ LET parts == parsing.message.body.parts
         inOrder == [i \in DOMAIN parts |-> IF i \in DOMAIN partResults THEN partResults[i]
                                            ELSE [kind |-> "object", value |-> <<>>]]
     IN parsing' = [pc |-> "parsed", message |-> parsing.message, result |-> Assigned(inOrder)]
  /\ UNCHANGED <<parserCache, partResults, bodies>>

BodyNext ==
  \/ \E path \in BodyPaths, m \in Bodies : ReceiveBody(path, m)
  \/ \E i \in IF parsing.pc = "parts" THEN DOMAIN parsing.message.body.parts ELSE {} : ParsePart(i)
  \/ PartsParsed
BodySpec == BodyInit /\ [][BodyNext]_bodyVars

-----------------------------------------------------------------------------
(* A field with content: headers with one name, before any colon in them, and   *)
(* content right after the blank line.                                         *)
Disposition(part) == part[1].headers["contentDisposition"]
NamedAt(part) == {k \in DOMAIN Disposition(part).directives : Disposition(part).directives[k].name = "name"}
NameOf(part) == Disposition(part).directives[CHOOSE k \in NamedAt(part) : TRUE].value
IsField(part) ==
  /\ {1, 2} \subseteq DOMAIN part /\ part[2] # Blank
  /\ "headers" \in DOMAIN part[1] /\ "contentDisposition" \in DOMAIN part[1].headers
  /\ Disposition(part).value = "form-data"
  /\ \E k \in DOMAIN Disposition(part).directives :
       /\ NamedAt(part) = {k} /\ \A j \in 1..k : ~HasColon(Disposition(part).directives[j])
       /\ Disposition(part).directives[k].value \notin {"none", EmptyText}
TypeOf(part) == IF "contentType" \in DOMAIN part[1].headers THEN part[1].headers["contentType"].value ELSE "text/plain"

(* What a part may add that is no such field: what its text has as keys, the    *)
(* name in its headers or the start of it, the first of its characters.         *)
KeysIn(block) ==
  (IF "json" \in DOMAIN block THEN DOMAIN block.json ELSE {})
  \cup (IF "entries" \in DOMAIN block THEN {KeyOf(block.entries[i]) : i \in DOMAIN block.entries} ELSE {})
NamesIn(block) ==
  IF ~("headers" \in DOMAIN block /\ "contentDisposition" \in DOMAIN block.headers) THEN {}
  ELSE LET directives == block.headers["contentDisposition"].directives
           given == {k \in DOMAIN directives : directives[k].name = "name"}
       IN {directives[k].value : k \in {k \in given : "value" \in DOMAIN directives[k] /\ ~HasColon(directives[k])}}
          \cup {StartOf(directives[k].value) : k \in {k \in given : HasColon(directives[k])}}
MayAdd(part) == IF IsField(part) THEN {NameOf(part)}
                ELSE {"0"} \cup UNION {KeysIn(part[b]) \cup NamesIn(part[b]) : b \in DOMAIN part}

(* What of a body survives.  A field of a multipart form that has content has   *)
(* what stands before the next blank line, read by the parser of its type, if   *)
(* no later part adds its name: fields without content, parts without a name or *)
(* headers, and the parts that were parsed before it, of this request or one    *)
(* before, do not change it, and nothing is added that no part has.  (A field   *)
(* without content does not arrive: its headers do, by characters.)  A form has *)
(* its keys, as they were sent, and for each in order all values that are not   *)
(* empty: what stands between the first "=" and the second.                    *)
BodiesSurvive ==
  parsing.pc = "parsed" =>
    LET body == parsing.message.body
        type == parsing.message.contentType.value
        result == parsing.result
    IN
    /\ "parts" \in DOMAIN body /\ type = "multipart/form-data" =>
         /\ \A i \in DOMAIN body.parts :
              LET field == body.parts[i]
              IN IsField(field) /\ (\A j \in DOMAIN body.parts : i < j => NameOf(field) \notin MayAdd(body.parts[j])) =>
                   /\ NameOf(field) \in DOMAIN result
                   /\ result[NameOf(field)] = ParseWith(BodyParsers[Matching(TypeOf(field))], field[2])
         /\ \A k \in DOMAIN result : \E i \in DOMAIN body.parts : k \in MayAdd(body.parts[i])
    /\ "entries" \in DOMAIN body /\ type = "application/x-www-form-urlencoded" =>
         LET Sent(k) == {i \in DOMAIN body.entries : KeyOf(body.entries[i]) = k /\ ValueOf(body.entries[i]) # EmptyText}
             Kept(k) == {j \in DOMAIN result[k] : result[k][j] # EmptyText}
         IN /\ DOMAIN result = {KeyOf(body.entries[i]) : i \in DOMAIN body.entries}
            /\ \A k \in DOMAIN result : \E place \in [Sent(k) -> Kept(k)] :
                 /\ \A j \in Kept(k) : \E i \in Sent(k) : place[i] = j
                 /\ \A i, j \in Sent(k) : i < j => place[i] < place[j]
                 /\ \A i \in Sent(k) : result[k][place[i]] = ValueOf(body.entries[i])
==============================================================================
