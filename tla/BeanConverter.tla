------------------------------ MODULE BeanConverter ------------------------------
(***************************************************************************)
(* BeanConverterImpl: from(source) collects the fields of the source's     *)
(* class and its superclasses, to(class) creates a target and, by          *)
(* SameFieldNameStrategyConverter, copies each field into those of the     *)
(* same name.  Two nested parallel forEach loops run the copies, so they   *)
(* interleave; fields of different types go through a TypeConverter that a *)
(* Loader, new for every copy, finds among the registered services.        *)
(*                                                                         *)
(* One conversion.  A bean in a field is converted by a BeanConverterImpl  *)
(* of its own, which is external here: it may succeed or fail.             *)
(***************************************************************************)
EXTENDS ValueConverters, Functions

CONSTANTS Conversions,  \* bounds the inputs: a source, its class and a target class each
          Strategy      \* what setStrategy is called with, if it is called

VARIABLES conversion,   \* the conversion under way
          strategy,     \* the converter's strategy, or "null"
          sourceFields, \* what from() collected
          status,       \* of the call of to()
          target,       \* the values in the target's fields
          copies,       \* the state of each copyFieldValue(targetField, sourceField)
          results       \* the result field of each TypeConverter loaded

vars == <<conversion, strategy, sourceFields, status, target, copies, results>>

\* Of a field the model keeps its name, its type, the value it has in the source
\* or by default in the target, and whether it is synthetic or static final.
Primitive == {"int"}
Bean == {"SourceBean", "TargetBean"}
Type == ValueClass \cup Primitive \cup Bean

IsBean(v) == v.class \in Bean

\* A value of a primitive type is read by reflection as one of its box.
BoxOf(type) == IF type = "int" THEN "Integer" ELSE type

\* A class is a sequence, of the fields it declares, of those of its superclass and
\* so on; a field is found by its place in it.
Fields(class) == UNION {Range(class[level]) : level \in DOMAIN class}
Places(class) == UNION {{<<level, i>> : i \in DOMAIN class[level]} : level \in DOMAIN class}
FieldAt(class, place) == class[place[1]][place[2]]

ASSUME ConversionsAssumption ==
  /\ Strategy \subseteq {"SAME_NAME", "ANNOTATED", "HYBRID"}
  /\ \A c \in Conversions :
       /\ c.constructible \in BOOLEAN
       /\ \A f \in Fields(c.source) \cup Fields(c.target) :
            /\ f.type \in Type
            /\ IsValue(f.value) \/ IsBean(f.value)
            /\ f.value.class = BoxOf(f.type) \/ (f.value = Null /\ f.type \notin Primitive)

\* FieldStream.of(class).nested().declared(): the fields a class declares and those
\* of its superclasses, without the synthetic ones.  The loops over them run in
\* parallel, so their order does not matter.
FindMembers(class) ==
  [place \in {p \in Places(class) : ~ FieldAt(class, p).synthetic} |-> FieldAt(class, place)]

TargetFields == FindMembers(conversion.target)

\* The pairs of a target field and a source field, by place, of the same name.
Pairs ==
  {p \in (DOMAIN TargetFields) \X (DOMAIN sourceFields) :
     TargetFields[p[1]].name = sourceFields[p[2]].name}

Waiting == [pc |-> "waiting", value |-> Null, converter |-> Null, loaded |-> <<>>]

Converters == Converter \cup {[from |-> "SourceBean", to |-> "TargetBean"]}

BeanTypeOK ==
  /\ status \in {"new", "from", "copying", "returned", "failed"}
  /\ strategy \in Strategy \cup {"null"}
  /\ \A v \in Range(target) \cup Range(results) : IsValue(v) \/ IsBean(v)
  /\ \A p \in DOMAIN copies :
       /\ copies[p].pc \in {"waiting", "read", "found", "converted", "written", "failed"}
       /\ copies[p].converter \in Converters \cup {Null}

Init ==
  /\ conversion \in Conversions
  /\ strategy = "null" /\ sourceFields = <<>> /\ status = "new"
  /\ target = <<>> /\ copies = <<>> /\ results = <<>>

SetStrategy(s) ==
  /\ status \in {"new", "from"} /\ strategy = "null"
  /\ strategy' = s
  /\ UNCHANGED <<conversion, sourceFields, status, target, copies, results>>

From ==
  /\ status = "new"
  /\ sourceFields' = FindMembers(conversion.source)
  /\ status' = "from"
  /\ UNCHANGED <<conversion, strategy, target, copies, results>>

\* to(), down to the loops; ANNOTATED and HYBRID do not copy anything.
To ==
  /\ status = "from"
  /\ IF conversion.constructible
     THEN /\ target' = [j \in DOMAIN TargetFields |-> TargetFields[j].value]
          /\ copies' = [p \in IF strategy \in {"null", "SAME_NAME"} THEN Pairs ELSE {} |-> Waiting]
          /\ status' = "copying"
     ELSE status' = "failed" /\ UNCHANGED <<target, copies>>
  /\ results' = [p \in DOMAIN copies' |-> Null]
  /\ UNCHANGED <<conversion, strategy, sourceFields>>

-------------------------------------------------------------------------------
(* copyFieldValue, for one pair. *)

TargetField(p) == TargetFields[p[1]]
SourceField(p) == sourceFields[p[2]]
SameType(p) == SourceField(p).type = TargetField(p).type

Step(p, pc, next) ==
  /\ copies[p].pc = pc
  /\ copies' = [copies EXCEPT ![p] = next]
  /\ UNCHANGED <<conversion, strategy, sourceFields, status>>

Fail(p, pc) ==
  Step(p, pc, [copies[p] EXCEPT !.pc = "failed"]) /\ UNCHANGED <<target, results>>

GetValue(p) ==
  /\ Step(p, "waiting", [copies[p] EXCEPT !.pc = IF SameType(p) THEN "converted" ELSE "read",
                                          !.value = SourceField(p).value])
  /\ UNCHANGED <<target, results>>

MatchesByFieldType(converter, p) ==
  converter.from = SourceField(p).type /\ converter.to = TargetField(p).type

\* The class of the value is tested, not the type of the field.
Matches(converter, p) ==
  /\ MatchedClass(converter) = copies[p].value.class
  /\ converter.to = TargetField(p).type

SharedConverter(p, converter) ==
  LET users == {q \in DOMAIN copies : copies[q].converter = converter}
  IN  IF users = {} THEN p ELSE CHOOSE q \in users : TRUE

\* A copy has the converters it uses to itself: its Loader makes new ones.
LoadedConverter(p, converter) == p

\* loadServices(TypeConverter.class, true).filter(...).findFirst(): a Loader's
\* stream has no order, so any match may be the first.
FindConverter(p) ==
  \E converter \in Converters :
    /\ Matches(converter, p)
    /\ Step(p, "read", [copies[p] EXCEPT !.pc = "found", !.converter = converter,
                                         !.loaded = LoadedConverter(p, converter)])
    /\ UNCHANGED <<target, results>>

\* matches() dereferences a null, or there is no match.
FindNoConverter(p) ==
  /\ ~ \E converter \in Converters : Matches(converter, p)
  /\ Fail(p, "read")

\* from(value): the result is in the converter until to() returns it.
Converted(p) ==
  IF IsBean(copies[p].value) THEN {Value("TargetBean", copies[p].value.n), ClassCastException}
  ELSE {Apply(copies[p].converter, copies[p].value)}

ConvertValue(p) ==
  /\ copies[p].pc = "found"
  /\ \E v \in Converted(p) :
       IF v \in {NumberFormatException, ClassCastException} THEN Fail(p, "found")
       ELSE /\ Step(p, "found", [copies[p] EXCEPT !.pc = "converted"])
            /\ results' = [results EXCEPT ![copies[p].loaded] = v]
            /\ UNCHANGED target

WriteAnyway(p) ==
  /\ Step(p, "converted", [copies[p] EXCEPT !.pc = "written"])
  /\ target' = [target EXCEPT ![p[1]] = IF TargetField(p).constant THEN @
                                       ELSE IF SameType(p) THEN copies[p].value
                                       ELSE results[copies[p].loaded]]
  /\ UNCHANGED results

\* A static final field refuses the value.
SetValue(p) ==
  IF TargetField(p).constant THEN Fail(p, "converted")
  ELSE /\ Step(p, "converted", [copies[p] EXCEPT !.pc = "written"])
       /\ target' = [target EXCEPT ![p[1]] = IF SameType(p) THEN copies[p].value
                                            ELSE results[copies[p].loaded]]
       /\ UNCHANGED results

Copy(p) ==
  GetValue(p) \/ FindConverter(p) \/ FindNoConverter(p) \/ ConvertValue(p) \/ SetValue(p)

-------------------------------------------------------------------------------
Failed == \E p \in DOMAIN copies : copies[p].pc = "failed"

ReturnAnyway ==
  /\ status = "copying"
  /\ \A p \in DOMAIN copies : copies[p].pc \in {"written", "failed"}
  /\ status' = "returned"
  /\ UNCHANGED <<conversion, strategy, sourceFields, target, copies, results>>

Return ==
  /\ status = "copying"
  /\ \A p \in DOMAIN copies : copies[p].pc = "written"
  /\ status' = "returned"
  /\ UNCHANGED <<conversion, strategy, sourceFields, target, copies, results>>

ThrowAtTheEnd ==
  /\ status = "copying"
  /\ Failed
  /\ \A p \in DOMAIN copies : copies[p].pc \in {"written", "failed"}
  /\ status' = "failed"
  /\ UNCHANGED <<conversion, strategy, sourceFields, target, copies, results>>

\* The first exception leaves the loops; copies that other threads have begun go
\* on meanwhile, those behind it in its thread are dropped.
Throw ==
  /\ status = "copying"
  /\ Failed
  /\ status' = "failed"
  /\ UNCHANGED <<conversion, strategy, sourceFields, target, copies, results>>

Terminated == status \in {"returned", "failed"} /\ UNCHANGED vars

Next ==
  \/ \E s \in Strategy : SetStrategy(s)
  \/ From \/ To \/ Return \/ Throw
  \/ \E p \in DOMAIN copies : Copy(p)
  \/ Terminated

Spec == Init /\ [][Next]_vars

\* to() is carried on once it is called; a copy behind a failed one may be dropped.
FairSpec ==
  /\ Spec
  /\ WF_vars(Return \/ Throw)
  /\ WF_vars(~ Failed /\ \E p \in DOMAIN copies : Copy(p))
-------------------------------------------------------------------------------
(* Properties. *)

\* What a field of type "to" may hold for the value of a field of type "from".
Image(f, to) ==
  IF f.type = to THEN {f.value}
  ELSE IF IsBean(f.value) THEN {Value("TargetBean", f.value.n)}
  ELSE {Convert(f.value, to)}

\* The target that to() returns has, in every field with a namesake in the source
\* or a superclass of it, that one's value in its own type, never a value that a
\* parallel copy converted for another field; the other fields are as they were.
TargetFromSource ==
  status = "returned" =>
    \A j \in DOMAIN target :
      LET field == TargetFields[j]
          namesakes == {f \in Fields(conversion.source) : f.name = field.name /\ ~ f.synthetic}
      IN  target[j] \in IF namesakes = {} \/ strategy \in {"ANNOTATED", "HYBRID"} THEN {field.value}
                        ELSE UNION {Image(f, field.type) : f \in namesakes}

\* A number is converted to an equal one wherever the target's class has one: only
\* what does not fit is wrapped or saturated.
EqualWhereRepresentable ==
  \A p \in DOMAIN copies :
    LET v == copies[p].value
        to == BoxOf(TargetField(p).type)
    IN  copies[p].pc \in {"converted", "written"} /\ ~ SameType(p) /\ copies[p].loaded = p =>
          /\ v.class \in Numeric \cup {"Character"} /\ to \in Numeric \cup {"Character"} /\ Holds(to, v.n) =>
               results[p].n = v.n
          /\ v.class = "String" /\ v.of \in Integral /\ to \in Numeric => results[p].n = v.n

\* What a copy may fail for: a static final field, a null, a text that is no number
\* of that class, a primitive type or another bean in the target, a bean in the
\* source, Byte or Integer to String (ByteToStringConverterImpl.matches).
HasReason(p) ==
  LET f == SourceField(p)
      to == TargetField(p).type
  IN  \/ TargetField(p).constant
      \/ /\ f.type # to
         /\ \/ f.value = Null
            \/ f.type = "String" /\ to \in Numeric /\ Convert(f.value, to) = NumberFormatException
            \/ to \in Primitive \cup Bean \/ f.type \in Bean
            \/ f.value.class \in {"Byte", "Integer"} /\ to = "String"

\* A conversion that throws has a reason: no constructor or some copy's.
FailsForReason == status = "failed" => ~ conversion.constructible \/ \E p \in Pairs : HasReason(p)

\* What to() returns is whole: no copy failed, however late.
ReturnedWhole ==
  status = "returned" /\ strategy \notin {"ANNOTATED", "HYBRID"} =>
    \A p \in Pairs :
      /\ copies[p].pc = "written"
      /\ ~ TargetField(p).constant
      /\ SourceField(p).value = Null => SameType(p)

\* A call of to() ends.
ConversionEnds == status = "copying" ~> status \in {"returned", "failed"}

-------------------------------------------------------------------------------
(* The inductive invariant. *)

\* from() collected the source's fields, to() made a copy for each pair of them.
FieldsCollected ==
  /\ conversion \in Conversions
  /\ status # "new" => sourceFields = FindMembers(conversion.source)

CopiesOfPairs ==
  /\ DOMAIN copies \subseteq Pairs
  /\ status \in {"new", "from"} => copies = <<>> /\ target = <<>>
  /\ status \in {"copying", "returned"} =>
       DOMAIN copies = IF strategy \in {"null", "SAME_NAME"} THEN Pairs ELSE {}

\* A copy has its source field's value; past the search for a converter it has one
\* of its own that accepts the value, past the conversion what that one returned.
CopyMatched(p) ==
  LET c == copies[p]
  IN  /\ DOMAIN c = DOMAIN Waiting
      /\ c.pc # "waiting" => c.value = SourceField(p).value
      /\ c.pc \in {"read", "found"} => ~ SameType(p)
      /\ c.pc \in {"found", "converted", "written"} /\ ~ SameType(p) =>
           c.converter \in Converters /\ Matches(c.converter, p) /\ c.loaded = p
      /\ c.pc \in {"converted", "written"} /\ ~ SameType(p) =>
           results[p] \in Image(SourceField(p), TargetField(p).type)
      /\ c.pc = "written" => ~ TargetField(p).constant
      /\ c.pc = "failed" => HasReason(p)

CopiesMatched == \A p \in DOMAIN copies : CopyMatched(p)

\* A field of the target is as it was, with no copy written to it, or has what some
\* namesake's copy wrote.
TargetWritten ==
  /\ DOMAIN results = DOMAIN copies
  /\ status \in {"copying", "returned"} => DOMAIN target = DOMAIN TargetFields
  /\ \A j \in DOMAIN target :
       /\ j \in DOMAIN TargetFields
       /\ \/ /\ target[j] = TargetFields[j].value
             /\ \A p \in DOMAIN copies : p[1] = j => copies[p].pc # "written"
          \/ \E p \in DOMAIN copies :
               p[1] = j /\ target[j] \in Image(SourceField(p), TargetFields[j].type)

EndsLast ==
  /\ status = "returned" => \A p \in DOMAIN copies : copies[p].pc = "written"
  /\ status = "failed" => ~ conversion.constructible \/ Failed

BeanInv ==
  BeanTypeOK /\ FieldsCollected /\ CopiesOfPairs /\ CopiesMatched /\ TargetWritten /\ EndsLast
===============================================================================
