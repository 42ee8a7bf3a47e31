--------------------------- MODULE RuleSessionProofs ---------------------------
(* What holds of a command for all words, fields and files.                *)
EXTENDS RuleSession, SequenceProofs, TLAPS

(* What the reader holds after what the writer means.                      *)
Holding(q, o, a, done) ==
  [reading |-> "text", quote |-> q, held |-> <<>>, started |-> o, token |-> a, tokens |-> done]

Compiled(r) ==
  /\ ProgramIsLiteral(r.template)
  /\ LetOptionsThrough(r) \/ validate_option_like_values(r.template)

ReadInv ==
  /\ quote \in Quotes \cup {Unquoted}
  /\ sound \in BOOLEAN /\ open \in BOOLEAN
  /\ ~open => arg = <<>>
  /\ sound => reader = Holding(quote, open, arg, args)
  /\ ~sound => ~Complete(reader)
  /\ \A r \in rule : sound /\ r.template = Intended /\ Compiled(r)

(* The reader outside of escapes and placeholders, symbol by symbol.       *)

(* In a placeholder: {{, {}, and a placeholder with a word or a field.      *)
Within(q, o, a, done, held) ==
  [reading |-> "placeholder", quote |-> q, held |-> held, started |-> o, token |-> a, tokens |-> done]

LEMMA ReadsBrace ==
  ASSUME NEW q \in Quotes \cup {Unquoted}, NEW o, NEW a, NEW done
  PROVE  read(Holding(q, o, a, done), "{") = Within(q, o, a, done, <<>>)
<1>1. read(Holding(q, o, a, done), "{") = [Holding(q, o, a, done) EXCEPT !.reading = "placeholder"]
  BY DEF read, read_text, Holding, Quotes, Unquoted
<1>2. [Holding(q, o, a, done) EXCEPT !.reading = "placeholder"] = Within(q, o, a, done, <<>>)
  BY DEF Holding, Within
<1> QED
  BY <1>1, <1>2

LEMMA ReadsDoubleBrace ==
  ASSUME NEW q, NEW o, NEW a, NEW done
  PROVE  read(Within(q, o, a, done, <<>>), "{") = Holding(q, TRUE, Append(a, Literal("{")), done)
  BY DEF read, read_placeholder, push, Holding, Within

LEMMA ReadsEmptyPlaceholder ==
  ASSUME NEW q, NEW o, NEW a, NEW done
  PROVE  read(Within(q, o, a, done, <<>>), "}").reading = "error"
  BY DEF read, read_placeholder, Failed, Holding, Within

LEMMA ReadsName ==
  ASSUME NEW q, NEW o, NEW a, NEW done, NEW w \in Word \cup Field
  PROVE  read(Within(q, o, a, done, <<>>), w) = Within(q, o, a, done, <<w>>)
<1>1. w # "{" /\ w # "}"
  BY TemplateAssumption DEF Meaning
<1>2. Append(<<>>, w) = <<w>>
  OBVIOUS
<1> QED
  BY <1>1, <1>2 DEF read, read_placeholder, Holding, Within

LEMMA ReadsNested ==
  ASSUME NEW q, NEW o, NEW a, NEW done, NEW w
  PROVE  read(Within(q, o, a, done, <<w>>), "{").reading = "error"
  BY DEF read, read_placeholder, Failed, Holding, Within

LEMMA ReadsUnknown ==
  ASSUME NEW q, NEW o, NEW a, NEW done, NEW w \in Word
  PROVE  read(Within(q, o, a, done, <<w>>), "}").reading = "error"
<1>1. ~ \E f \in Field : <<w>> = <<f>>
  BY TemplateAssumption
<1> QED
  BY <1>1 DEF read, read_placeholder, Failed, Holding, Within

LEMMA ReadsField ==
  ASSUME NEW q, NEW o, NEW a, NEW done, NEW f \in Field
  PROVE  read(Within(q, o, a, done, <<f>>), "}") = Holding(q, TRUE, Append(a, FieldOf(f)), done)
  BY DEF read, read_placeholder, push, Holding, Within

LEMMA ReadInitial == RuleInit => ReadInv
  BY DEF RuleInit, ReadInv, Holding, Start, Unquoted

(* While he writes no rule is loaded: only what is meant and read changes. *)
LEMMA WritingStep ==
  ASSUME ReadInv,
         \/ \E ch \in Symbol : WriteLiteral(ch) \/ WriteEscaped(ch)
         \/ \E f \in Field : WritePlaceholder(f)
         \/ \E q \in Quotes : OpenQuote(q)
         \/ WriteBrace \/ CloseQuote \/ EndArgument \/ Slip
  PROVE  ReadInv'
<1>1. rule = {} /\ rule' = {} /\ sound = TRUE /\ reader = Holding(quote, open, arg, args)
  BY DEF Writing, WriteLiteral, WriteEscaped, WriteBrace, WritePlaceholder, OpenQuote, CloseQuote,
         EndArgument, Slip, ReadInv
<1>2. quote \in Quotes \cup {Unquoted} /\ open \in BOOLEAN /\ (~open => arg = <<>>)
  BY DEF ReadInv
<1>3. SUFFICES /\ quote' \in Quotes \cup {Unquoted}
               /\ sound' \in BOOLEAN /\ open' \in BOOLEAN
               /\ ~open' => arg' = <<>>
               /\ sound' => reader' = Holding(quote', open', arg', args')
               /\ ~sound' => ~Complete(reader')
  BY <1>1 DEF ReadInv, Holding, Complete
<1>4. ASSUME NEW ch \in Symbol, WriteLiteral(ch) PROVE <1>3!1
  <2>1. ch # quote /\ ch \notin {"backslash", "{"} /\ (quote = Unquoted => ch \notin Quotes \cup {"blank"})
    BY <1>4, TemplateAssumption, <1>2 DEF WriteLiteral, Meaning, Quotes, Unquoted
  <2>2. reader' = Holding(quote, TRUE, Append(arg, Literal(ch)), args)
    <3>1. read(Holding(quote, open, arg, args), ch) = Holding(quote, TRUE, Append(arg, Literal(ch)), args)
      BY <2>1 DEF read, read_text, push, Holding
    <3> QED
      BY <1>1, <1>4, <3>1, Zenon DEF WriteLiteral
  <2> QED
    BY <1>1, <1>2, <1>4, <2>2 DEF WriteLiteral, Means
<1>5. ASSUME NEW ch \in Symbol, WriteEscaped(ch) PROVE <1>3!1
  <2>1. reader' = Holding(quote, TRUE, Append(arg, Literal(ch)), args)
    <3>1. read(read(Holding(quote, open, arg, args), "backslash"), ch)
            = Holding(quote, TRUE, Append(arg, Literal(ch)), args)
      <4>1. read(Holding(quote, open, arg, args), "backslash")
              = [Holding(quote, open, arg, args) EXCEPT !.reading = "escape"]
        BY <1>2 DEF read, read_text, Holding, Quotes, Unquoted
      <4> QED
        BY <4>1 DEF read, push, Holding
    <3> QED
      BY <1>1, <1>5, <3>1, Zenon DEF WriteEscaped
  <2> QED
    BY <1>1, <1>2, <1>5, <2>1 DEF WriteEscaped, Means
<1>6. CASE WriteBrace
  <2>1. reader' = Holding(quote, TRUE, Append(arg, Literal("{")), args)
    <3>1. read(Holding(quote, open, arg, args), "{") = Within(quote, open, arg, args, <<>>)
      BY <1>2, ReadsBrace
    <3>2. read(Within(quote, open, arg, args, <<>>), "{")
            = Holding(quote, TRUE, Append(arg, Literal("{")), args)
      BY ReadsDoubleBrace
    <3> QED
      BY <1>1, <1>6, <3>1, <3>2, Zenon DEF WriteBrace
  <2> QED
    BY <1>1, <1>2, <1>6, <2>1 DEF WriteBrace, Means
<1>7. ASSUME NEW f \in Field, WritePlaceholder(f) PROVE <1>3!1
  <2>1. read(reader, "{") = Within(quote, open, arg, args, <<>>)
    BY <1>1, <1>2, ReadsBrace, Zenon
  <2>2. read(read(reader, "{"), f) = Within(quote, open, arg, args, <<f>>)
    BY <1>7, <2>1, ReadsName, Zenon
  <2>3. reader' = Holding(quote, TRUE, Append(arg, FieldOf(f)), args)
    BY <1>7, <2>2, ReadsField, Zenon DEF WritePlaceholder
  <2> QED
    BY <1>1, <1>2, <1>7, <2>3 DEF WritePlaceholder, Means
<1>8. ASSUME NEW q \in Quotes, OpenQuote(q) PROVE <1>3!1
  <2>1. reader' = Holding(q, TRUE, arg, args)
    BY <1>1, <1>8 DEF OpenQuote, read, read_text, Holding, Quotes, Unquoted
  <2> QED
    BY <1>1, <1>2, <1>8, <2>1 DEF OpenQuote
<1>9. CASE CloseQuote
  <2>1. read(Holding(quote, open, arg, args), quote) = Holding(Unquoted, open, arg, args)
    BY <1>2, <1>9 DEF CloseQuote, read, read_text, Holding, Quotes, Unquoted
  <2>2. reader' = Holding(Unquoted, open, arg, args)
    BY <1>1, <1>9, <2>1, Zenon DEF CloseQuote
  <2> QED
    BY <1>1, <1>2, <1>9, <2>2 DEF CloseQuote
<1>10. CASE EndArgument
  <2>1. read(reader, "blank") = end_token(reader)
    BY <1>1, <1>10 DEF EndArgument, read, read_text, Holding, Quotes, Unquoted
  <2>2. end_token(reader) = Holding(Unquoted, FALSE, <<>>, Intended)
    BY <1>1, <1>2, <1>10 DEF EndArgument, end_token, Holding, Intended
  <2> QED
    BY <1>1, <1>2, <1>10, <2>1, <2>2 DEF EndArgument
<1>11. CASE Slip
  <2>1. PICK w \in Word, f \in Field :
          reader' \in {read(reader, "backslash"),
                       read(reader, "{"),
                       read(read(reader, "{"), f),
                       read(read(reader, "{"), "}"),
                       read(read(read(reader, "{"), f), "{"),
                       read(read(read(reader, "{"), w), "}")}
    BY <1>11 DEF Slip
  <2>2. read(reader, "backslash").reading = "escape"
    <3>1. read(Holding(quote, open, arg, args), "backslash").reading = "escape"
      BY <1>2 DEF read, read_text, Holding, Quotes, Unquoted
    <3> QED
      BY <1>1, <3>1, Zenon
  <2>3. read(reader, "{") = Within(quote, open, arg, args, <<>>)
    BY <1>1, <1>2, ReadsBrace, Zenon
  <2>4. /\ read(read(reader, "{"), f) = Within(quote, open, arg, args, <<f>>)
        /\ read(read(reader, "{"), w) = Within(quote, open, arg, args, <<w>>)
    BY <2>3, ReadsName
  <2>5. read(read(reader, "{"), "}").reading = "error"
    BY <2>3, ReadsEmptyPlaceholder, Zenon
  <2>6. read(read(read(reader, "{"), f), "{").reading = "error"
    BY <2>4, ReadsNested, Zenon
  <2>7. read(read(read(reader, "{"), w), "}").reading = "error"
    BY <2>4, ReadsUnknown, Zenon
  <2>8. \A held : Within(quote, open, arg, args, held).reading = "placeholder"
    BY DEF Within, Holding
  <2>9. reader'.reading # "text"
    BY <2>1, <2>2, <2>3, <2>4, <2>5, <2>6, <2>7, <2>8
  <2>10. ~Complete(reader')
    BY <2>9 DEF Complete
  <2> QED
    BY <1>1, <1>2, <1>11, <2>10 DEF Slip
<1> QED
  BY <1>4, <1>5, <1>6, <1>7, <1>8, <1>9, <1>10, <1>11

(* Loading compiles what was read, and what is read is complete.           *)
LEMMA LoadStep ==
  ASSUME ReadInv, NEW file \in Files, Load(file)
  PROVE  ReadInv'
<1>1. CASE Parses(file, reader) /\ rule' = {CommandConfig(file, reader)} /\ UNCHANGED writerVars
  <2>1. sound = TRUE /\ reader = Holding(quote, open, arg, args)
    BY <1>1 DEF Parses, Compiles, ReadInv
  <2>2. tokenize(Holding(quote, open, arg, args)) = Intended
    BY DEF tokenize, end_token, Holding, Intended
  <2> DEFINE r == CommandConfig(file, reader)
  <2>3. r.template = tokenize(reader) /\ r.name = file.name
    BY DEF CommandConfig, CommandAction
  <2>4. r.template = Intended
    BY <2>1, <2>2, <2>3, Zenon
  <2>5. ProgramIsLiteral(tokenize(reader)) /\ (file.allow_option_like_values \/ validate_option_like_values(tokenize(reader)))
    BY <1>1 DEF Parses, Compiles
  <2>6. Compiled(r)
    BY <2>3, <2>5, Zenon DEF Compiled, LetOptionsThrough
  <2>7. sound' = TRUE /\ Intended' = Intended /\ rule' = {r}
    BY <1>1, <2>1 DEF writerVars, meantVars, Intended
  <2> QED
    BY <1>1, <2>1, <2>4, <2>6, <2>7 DEF ReadInv, writerVars, meantVars
<1>2. CASE /\ args' = <<>> /\ arg' = <<>> /\ open' = FALSE /\ quote' = Unquoted /\ sound' = TRUE
           /\ reader' = Start /\ rule = {} /\ rule' = rule
  BY <1>2 DEF ReadInv, Holding, Start
<1> QED
  BY <1>1, <1>2 DEF Load

LEMMA ReadStep == ReadInv /\ [RuleNext]_ruleVars => ReadInv'
<1> SUFFICES ASSUME ReadInv, [RuleNext]_ruleVars PROVE ReadInv'
  OBVIOUS
<1>1. CASE UNCHANGED <<writerVars, rule>>
  BY <1>1 DEF ReadInv, writerVars, meantVars, Intended
<1>2. ASSUME NEW file \in Files, Load(file) PROVE ReadInv'
  BY <1>2, LoadStep
<1>3. CASE UNCHANGED ruleVars
  BY <1>1, <1>3 DEF ruleVars
<1>4. ASSUME \/ \E i \in DOMAIN Reports : Report(i)
             \/ \E program \in Programs : Install(program)
             \/ \E r \in rule : \E t \in ToSet(targets(r, group)) : Run(r, t)
      PROVE  ReadInv'
  BY <1>1, <1>4 DEF Report, Install, Run, Running
<1> QED
  BY <1>2, <1>3, <1>4, WritingStep DEF RuleNext

(* The arguments read from a command are those its writer means, and what  *)
(* he cannot mean is refused (template.rs:225), for all words and fields.  *)
THEOREM ReadAsWrittenHolds == RuleSpec => []ReadAsWritten
<1>1. ReadInv => ReadAsWritten
  BY DEF ReadInv, ReadAsWritten, Holding
<1> QED
  BY <1>1, ReadInitial, ReadStep, PTL DEF RuleSpec

(* A rule in force names its program itself, and a text field leads an     *)
(* argument only after a literal `--`, unless its file allows it           *)
(* (template.rs:80, template.rs:144).                                      *)
THEOREM CompiledHolds == RuleSpec => [](\A r \in rule : Compiled(r))
<1>1. ReadInv => \A r \in rule : Compiled(r)
  BY DEF ReadInv
<1> QED
  BY <1>1, ReadInitial, ReadStep, PTL DEF RuleSpec

-----------------------------------------------------------------------------
(* What an entry keeps of a report is text, field by field.                *)

\* What is known of the TXT data after each of the pairs.
IsObserved(f, pairs, n) ==
  f = [i \in 0..n |-> IF i = 0 THEN [seen |-> {}, values |-> <<>>] ELSE observe(f[i - 1], pairs[i])]

LEMMA ObservedExists ==
  ASSUME NEW pairs, NEW n \in Nat
  PROVE  \E f : IsObserved(f, pairs, n)
<1> DEFINE T == {m \in Nat : ~\E f : IsObserved(f, pairs, m)}
           none == [seen |-> {}, values |-> <<>>]
<1> SUFFICES ASSUME T # {} PROVE FALSE
  OBVIOUS
<1> HIDE DEF none
<1>0. \A f, m : IsObserved(f, pairs, m) <=>
        f = [i \in 0..m |-> IF i = 0 THEN none ELSE observe(f[i - 1], pairs[i])]
  BY DEF IsObserved, none
<1>1. PICK m \in T : \A k \in T : ~(k < m)
  BY Least
<1>2. m \in Nat /\ ~\E f : IsObserved(f, pairs, m)
  BY <1>1
<1>3. CASE m = 0
  <2> DEFINE f == [i \in 0..0 |-> none]
  <2>1. f = [i \in 0..0 |-> IF i = 0 THEN none ELSE observe(f[i - 1], pairs[i])]
    OBVIOUS
  <2> QED BY <2>1, <1>0, <1>2, <1>3
<1>4. CASE m # 0
  <2>1. m - 1 \in Nat /\ m - 1 < m
    BY <1>2, <1>4
  <2>2. PICK g : IsObserved(g, pairs, m - 1)
    BY <2>1, <1>1
  <2> DEFINE f == [i \in 0..m |-> IF i = 0 THEN none ELSE observe(g[i - 1], pairs[i])]
             e == [i \in 0..m - 1 |-> IF i = 0 THEN none ELSE observe(g[i - 1], pairs[i])]
  <2>3. g = e
    BY <2>2, <1>0
  <2>4. \A i \in 0..m - 1 : f[i] = e[i]
    BY <2>1
  <2>5. \A i \in 0..m - 1 : f[i] = g[i]
    BY <2>3, <2>4
  <2>6. \A i \in 0..m : i = 0 \/ i - 1 \in 0..m - 1
    BY <2>1
  <2> HIDE DEF e
  <2>7. \A i \in 0..m : f[i] = IF i = 0 THEN none ELSE observe(f[i - 1], pairs[i])
    BY <2>5, <2>6
  <2>8. f = [i \in 0..m |-> f[i]]
    OBVIOUS
  <2> HIDE DEF f
  <2>9. f = [i \in 0..m |-> IF i = 0 THEN none ELSE observe(f[i - 1], pairs[i])]
    BY <2>7, <2>8
  <2> QED BY <2>9, <1>0, <1>2
<1> QED BY <1>3, <1>4

\* A map whose values are texts.
HasTexts(values) == \A key \in DOMAIN values : IsASequence(values[key])

LEMMA ObserveKeepsTexts ==
  ASSUME NEW map, HasTexts(map.values), NEW p, p.value = Undecoded \/ IsASequence(p.value)
  PROVE  HasTexts(observe(map, p).values)
<1> DEFINE key == LowerCase[p.key]
           more == insert(map.values, key, p.value)
<1>1. observe(map, p) = map \/ observe(map, p).values = map.values
        \/ (observe(map, p).values = more /\ p.value # Undecoded)
  BY DEF observe
<1>2. ASSUME p.value # Undecoded PROVE HasTexts(more)
  <2>1. DOMAIN more = {key} \cup DOMAIN map.values
        /\ \A k \in DOMAIN more : more[k] = IF k = key THEN p.value ELSE map.values[k]
    BY DEF insert
  <2> QED BY <2>1, <1>2 DEF HasTexts
<1> QED BY <1>1, <1>2

LEMMA TxtValuesAreTexts ==
  ASSUME NEW pairs, IsASequence(pairs), \A p \in ToSet(pairs) : p.value = Undecoded \/ IsASequence(p.value)
  PROVE  HasTexts(txt_values(pairs))
<1> DEFINE n == Len(pairs)
           none == [seen |-> {}, values |-> <<>>]
           after == CHOOSE f : f = [i \in 0..n |-> IF i = 0 THEN none ELSE observe(f[i - 1], pairs[i])]
<1>1. n \in Nat /\ \A i \in 1..n : pairs[i].value = Undecoded \/ IsASequence(pairs[i].value)
  <2>1. DOMAIN pairs = 1..n
    BY DEF IsASequence
  <2> QED BY <2>1 DEF IsASequence, ToSet
<1> HIDE DEF n
<1>2. IsObserved(after, pairs, n)
  BY <1>1, ObservedExists DEF IsObserved
<1>3. txt_values(pairs) = after[n].values
  BY Zenon DEF txt_values, n
<1>4. HasTexts(none.values)
  BY DEF HasTexts
<1> HIDE DEF after
<1>5. \A i \in 0..n : after[i] = IF i = 0 THEN none ELSE observe(after[i - 1], pairs[i])
  BY <1>2, Zenon DEF IsObserved
<1> HIDE DEF none
<1> DEFINE T == {i \in 0..n : ~HasTexts(after[i].values)}
<1>6. T = {}
  <2> SUFFICES ASSUME T # {} PROVE FALSE
    OBVIOUS
  <2>1. T \subseteq Nat
    OBVIOUS
  <2>2. PICK i \in T : \A k \in T : ~(k < i)
    BY <2>1, Least
  <2>3. i \in 0..n /\ ~HasTexts(after[i].values)
    BY <2>2
  <2>4. i # 0
    BY <1>4, <1>5, <2>3
  <2>5. i - 1 \in 0..n /\ i - 1 < i /\ i \in 1..n
    BY <1>1, <2>3, <2>4
  <2>6. HasTexts(after[i - 1].values)
    BY <2>2, <2>5
  <2>7. after[i] = observe(after[i - 1], pairs[i])
    BY <1>5, <2>3, <2>4
  <2> QED BY <1>1, <2>3, <2>5, <2>6, <2>7, ObserveKeepsTexts
<1>7. n \in 0..n
  BY <1>1
<1> QED BY <1>3, <1>6, <1>7

(* An entry: its fields are texts, and an address or a port that is known  *)
(* cannot be taken for an option.                                          *)
Resolves(e) ==
  /\ e = [name |-> e.name, service_type |-> e.service_type, hostname |-> e.hostname,
          addresses |-> e.addresses, port |-> e.port, txt |-> e.txt]
  /\ IsASequence(e.name) /\ IsASequence(e.service_type) /\ IsASequence(e.hostname)
  /\ IsASequence(e.addresses) /\ ToSet(e.addresses) \cap OptionLike = {}
  /\ e.port # NotResolved => \E digits : e.port = <<digits>> /\ digits \notin OptionLike
  /\ HasTexts(e.txt)

LEMMA ReportsResolve ==
  ASSUME NEW report \in ToSet(Reports)
  PROVE  Resolves(resolved(report))
<1> DEFINE e == resolved(report)
<1>1. /\ IsASequence(report.name) /\ IsASequence(report.service_type) /\ IsASequence(report.hostname)
      /\ IsASequence(report.addresses) /\ IsASequence(report.txt)
  BY ReportAssumption, SequenceOf DEF IsSequence
<1>2. ToSet(report.addresses) \cap OptionLike = {} /\ (report.port # 0 => ToString(report.port) \notin OptionLike)
  BY ReportAssumption
<1>3. \A p \in ToSet(report.txt) : p.value = Undecoded \/ IsASequence(p.value)
  BY ReportAssumption, SequenceOf DEF IsSequence
<1>4. HasTexts(txt_values(report.txt))
  BY <1>1, <1>3, TxtValuesAreTexts
<1>5. IsASequence(trim(report.hostname))
  BY <1>1, ItemsAtThem DEF trim
<1>6. /\ e.name = report.name /\ e.service_type = report.service_type /\ e.hostname = trim(report.hostname)
      /\ e.addresses = report.addresses /\ e.txt = txt_values(report.txt)
      /\ e.port = IF report.port = 0 THEN NotResolved ELSE <<ToString(report.port)>>
      /\ e = [name |-> e.name, service_type |-> e.service_type, hostname |-> e.hostname,
              addresses |-> e.addresses, port |-> e.port, txt |-> e.txt]
  BY DEF resolved
<1> HIDE DEF e
<1>7. e.port # NotResolved => e.port = <<ToString(report.port)>> /\ ToString(report.port) \notin OptionLike
  BY <1>2, <1>6
<1>8. Resolves(e)
  BY <1>1, <1>2, <1>4, <1>5, <1>6, <1>7 DEF Resolves
<1> QED BY <1>8 DEF e

LEMMA GroupResolves ==
  ASSUME live \subseteq DOMAIN Reports
  PROVE  IsASequence(group) /\ \A i \in DOMAIN group : Resolves(group[i])
<1> DEFINE all == [i \in DOMAIN Reports |-> resolved(Reports[i])]
<1>1. IsASequence(Reports)
  BY ReportAssumption, SequenceOf DEF IsSequence
<1>2. DOMAIN Reports = 1..Len(Reports) /\ Len(Reports) \in Nat
  BY <1>1 DEF IsASequence
<1>3. \A i \in DOMAIN Reports : Resolves(all[i])
  BY ReportsResolve DEF ToSet
<1>4. all = [i \in 1..Len(Reports) |-> all[i]] /\ DOMAIN all = DOMAIN Reports
  BY <1>2
<1> HIDE DEF all
<1>5. IsASequence(all)
  BY <1>2, <1>4, RangedSequence
<1>6. IsASequence(ItemsAt(all, live)) /\ \A i \in DOMAIN ItemsAt(all, live) : \E k \in live : ItemsAt(all, live)[i] = all[k]
  <2>1. live \subseteq DOMAIN all
    BY <1>4
  <2> QED BY ONLY <2>1, <1>5, ItemsAtThem
<1>7. group = ItemsAt(all, live)
  BY DEF group, all
<1> QED BY <1>3, <1>6, <1>7

-----------------------------------------------------------------------------
(* The candidates of an entry are what of it fits the rule.                *)

IsRule(r) == \A p \in r.predicates : p.field \in Field

\* The entry at one of its addresses.
At(e, a) == [e EXCEPT !.addresses = <<a>>]

LEMMA AtOneAddress ==
  ASSUME NEW e, Resolves(e), NEW a, NEW f \in Field
  PROVE  /\ f # "address" => has_field(At(e, a), f) = has_field(e, f) /\ field_value(At(e, a), f) = field_value(e, f)
         /\ f = "address" => has_field(At(e, a), f) /\ field_value(At(e, a), f) = <<a>>
<1> DEFINE v == At(e, a)
<1>1. /\ v.name = e.name /\ v.service_type = e.service_type /\ v.hostname = e.hostname /\ v.port = e.port
      /\ v.txt = e.txt /\ v.addresses = <<a>>
  BY DEF Resolves, At
<1> HIDE DEF v
<1>2. txt_keys(v, f) = txt_keys(e, f)
  BY <1>1 DEF txt_keys
<1>3. f \in TxtField \/ f \in {"name", "service_type", "hostname", "address", "port"}
  BY EngineAssumption DEF Field
<1>4. "address" \notin TxtField /\ "port" \notin TxtField /\ "name" \notin TxtField
        /\ "service_type" \notin TxtField /\ "hostname" \notin TxtField
  BY EngineAssumption, TemplateAssumption
<1>5. ASSUME f \in TxtField PROVE f # "address" /\ has_field(v, f) = has_field(e, f) /\ field_value(v, f) = field_value(e, f)
  BY <1>1, <1>2, <1>4, <1>5 DEF has_field, field_value
<1>6. ASSUME f = "name" PROVE f # "address" /\ has_field(v, f) = has_field(e, f) /\ field_value(v, f) = field_value(e, f)
  BY <1>1, <1>4, <1>6 DEF has_field, field_value
<1>7. ASSUME f = "service_type" PROVE f # "address" /\ has_field(v, f) = has_field(e, f) /\ field_value(v, f) = field_value(e, f)
  BY <1>1, <1>4, <1>7 DEF has_field, field_value
<1>8. ASSUME f = "hostname" PROVE f # "address" /\ has_field(v, f) = has_field(e, f) /\ field_value(v, f) = field_value(e, f)
  BY <1>1, <1>4, <1>8 DEF has_field, field_value
<1>9. ASSUME f = "address" PROVE has_field(v, f) /\ field_value(v, f) = <<a>>
  BY <1>1, <1>4, <1>9 DEF has_field, field_value
<1>10. ASSUME f = "port" PROVE f # "address" /\ has_field(v, f) = has_field(e, f) /\ field_value(v, f) = field_value(e, f)
  BY <1>1, <1>4, <1>10 DEF has_field, field_value
<1> QED BY <1>3, <1>5, <1>6, <1>7, <1>8, <1>9, <1>10 DEF v

LEMMA CandidatesFit ==
  ASSUME NEW r, IsRule(r), NEW e, Resolves(e)
  PROVE  /\ IsASequence(candidates(r, e))
         /\ ToSet(candidates(r, e)) = {v \in Variants(r, e) : Fits(r, v)}
<1> DEFINE at == {i \in DOMAIN e.addresses : address_predicates_match(r, e.addresses[i])}
           fit == ItemsAt(e.addresses, at)
<1>1. fields(r.template) \subseteq Field
  BY DEF fields
<1>2. ASSUME ~uses_address(r)
      PROVE  (Fits(r, e) <=> Applies(r, e)) /\ Variants(r, e) = {e}
  <2>1. "address" \notin fields(r.template) /\ \A p \in r.predicates : ~is_address(p)
    BY <1>2 DEF uses_address
  <2> QED BY <1>2, <2>1 DEF Fits, Prepares, Applies, non_address_predicates_match, predicate_matches,
                            template_fields_resolve, Variants
<1>3. ASSUME NEW a
      PROVE  Fits(r, At(e, a)) <=> Applies(r, e) /\ address_predicates_match(r, a)
  <2>1. Prepares(r, At(e, a)) <=> template_fields_resolve(r, e)
    BY <1>1, AtOneAddress DEF Prepares, template_fields_resolve
  <2>2. ASSUME NEW p \in r.predicates
        PROVE  (has_field(At(e, a), p.field) /\ field_value(At(e, a), p.field) \in p.accepts)
                 <=> IF is_address(p) THEN <<a>> \in p.accepts ELSE predicate_matches(p, e)
    <3>1. p.field \in Field
      BY DEF IsRule
    <3> QED BY <3>1, AtOneAddress DEF is_address, predicate_matches
  <2>3. (\A p \in r.predicates : IF is_address(p) THEN <<a>> \in p.accepts ELSE predicate_matches(p, e))
          <=> non_address_predicates_match(r, e) /\ address_predicates_match(r, a)
    BY DEF non_address_predicates_match, address_predicates_match
  <2>4. (\A p \in r.predicates : has_field(At(e, a), p.field) /\ field_value(At(e, a), p.field) \in p.accepts)
          <=> non_address_predicates_match(r, e) /\ address_predicates_match(r, a)
    BY ONLY <2>2, <2>3
  <2> QED BY ONLY <2>1, <2>4 DEF Fits, Applies
<1>4. /\ IsASequence(e.addresses) /\ at \subseteq DOMAIN e.addresses
      /\ DOMAIN e.addresses = 1..Len(e.addresses)
  BY DEF Resolves, IsASequence
<1>5. /\ IsASequence(fit)
      /\ \A i \in DOMAIN fit : \E k \in at : fit[i] = e.addresses[k]
      /\ \A k \in at : \E i \in DOMAIN fit : fit[i] = e.addresses[k]
  <2> DEFINE s == e.addresses
  <2>1. IsASequence(s) /\ at \subseteq DOMAIN s
    BY <1>4
  <2> HIDE DEF at, s
  <2>2. /\ IsASequence(ItemsAt(s, at))
        /\ \A i \in DOMAIN ItemsAt(s, at) : \E k \in at : ItemsAt(s, at)[i] = s[k]
        /\ \A k \in at : \E i \in DOMAIN ItemsAt(s, at) : ItemsAt(s, at)[i] = s[k]
    BY ONLY <2>1, ItemsAtThem
  <2> QED BY <2>2 DEF s
<1>6. ASSUME uses_address(r), Applies(r, e)
      PROVE  IsASequence(candidates(r, e)) /\ ToSet(candidates(r, e)) = {At(e, fit[i]) : i \in DOMAIN fit}
  <2> DEFINE cands == [i \in DOMAIN fit |-> At(e, fit[i])]
  <2>1. candidates(r, e) = cands
    BY <1>6 DEF candidates, At
  <2> HIDE DEF fit
  <2>2. DOMAIN fit = 1..Len(fit) /\ Len(fit) \in Nat
    BY <1>5 DEF IsASequence
  <2>3. DOMAIN cands = DOMAIN fit /\ \A i \in DOMAIN fit : cands[i] = At(e, fit[i])
    OBVIOUS
  <2>4. cands = [i \in 1..Len(fit) |-> cands[i]]
    BY <2>2
  <2> HIDE DEF cands
  <2>5. IsASequence(cands)
    BY <2>2, <2>4, RangedSequence
  <2> QED BY <2>1, <2>3, <2>5 DEF ToSet
<1>7. CASE ~Applies(r, e)
  <2>1. candidates(r, e) = <<>>
    BY <1>7 DEF candidates
  <2>2. \A v \in Variants(r, e) : ~Fits(r, v)
    BY <1>2, <1>3, <1>7 DEF Variants, At
  <2> QED BY <2>1, <2>2 DEF IsASequence, ToSet
<1>8. CASE Applies(r, e) /\ ~uses_address(r)
  <2>1. candidates(r, e) = <<e>>
    BY <1>8 DEF candidates
  <2>2. IsASequence(<<e>>) /\ ToSet(<<e>>) = {e}
    BY DEF IsASequence, ToSet
  <2> QED BY <1>2, <1>8, <2>1, <2>2
<1>9. CASE Applies(r, e) /\ uses_address(r)
  <2>1. Variants(r, e) = {At(e, a) : a \in ToSet(e.addresses)}
    BY <1>9 DEF Variants, At
  <2>2. ToSet(e.addresses) = {e.addresses[k] : k \in DOMAIN e.addresses}
    BY DEF ToSet
  <2>3. {v \in Variants(r, e) : Fits(r, v)} = {At(e, e.addresses[k]) : k \in at}
    BY <1>3, <1>9, <2>1, <2>2
  <2>4. {At(e, fit[i]) : i \in DOMAIN fit} = {At(e, e.addresses[k]) : k \in at}
    <3> HIDE DEF fit, at
    <3> QED BY <1>5
  <2> QED BY <1>6, <1>9, <2>3, <2>4
<1> QED BY <1>7, <1>8, <1>9

-----------------------------------------------------------------------------
(* The targets are the first candidates of each command.                   *)

LEMMA TargetsOf ==
  ASSUME NEW r, NEW cands, IsASequence(cands)
  PROVE  LET found == distinct_targets(r, cands)
         IN /\ IsASequence(found)
            /\ ToSet(found) \subseteq ToSet(cands)
            /\ \A c \in ToSet(cands) : \E t \in ToSet(found) : prepared(r, t) = prepared(r, c)
            /\ \A i, j \in DOMAIN found : prepared(r, found[i]) = prepared(r, found[j]) => i = j
<1> DEFINE n == Len(cands)
           first == {i \in DOMAIN cands : \A j \in 1 .. i - 1 : prepared(r, cands[j]) # prepared(r, cands[i])}
           found == ItemsAt(cands, first)
<1>1. n \in Nat /\ DOMAIN cands = 1..n
  BY DEF IsASequence
<1> HIDE DEF n
<1>2. first \subseteq 1..n /\ first \subseteq DOMAIN cands
  BY <1>1
<1>3. \A i, j \in first : prepared(r, cands[i]) = prepared(r, cands[j]) => i = j
  <2> SUFFICES ASSUME NEW i \in first, NEW j \in first, prepared(r, cands[i]) = prepared(r, cands[j]), i < j
               PROVE  FALSE
    BY <1>2
  <2>1. i \in 1 .. j - 1
    BY <1>2
  <2> QED BY <2>1
<1>4. \A k \in 1..n : \E i \in first : prepared(r, cands[i]) = prepared(r, cands[k])
  <2> DEFINE T == {k \in 1..n : ~\E i \in first : prepared(r, cands[i]) = prepared(r, cands[k])}
  <2> SUFFICES ASSUME T # {} PROVE FALSE
    OBVIOUS
  <2>1. T \subseteq Nat
    OBVIOUS
  <2>2. PICK k \in T : \A j \in T : ~(j < k)
    BY <2>1, Least
  <2>3. k \in 1..n /\ k \notin first
    BY <2>2
  <2>4. PICK j \in 1 .. k - 1 : prepared(r, cands[j]) = prepared(r, cands[k])
    BY <1>1, <2>3
  <2>5. j \in 1..n /\ j < k
    BY <1>1, <2>3, <2>4
  <2> QED BY <2>2, <2>4, <2>5
<1> HIDE DEF first
<1>5. /\ Cardinality(first) \in Nat
      /\ found = [i \in 1..Cardinality(first) |-> cands[InOrder(first)[i]]]
      /\ IsASequence(found)
      /\ \A i \in DOMAIN found : \E k \in first : found[i] = cands[k]
      /\ \A k \in first : \E i \in DOMAIN found : found[i] = cands[k]
  BY ONLY <1>2, IsASequence(cands), ItemsAtThem
<1>6. Enumerates(first)
  BY ONLY <1>1, <1>2, OrderEnumerates
<1> HIDE DEF found
<1>7. \A i, j \in DOMAIN found : prepared(r, found[i]) = prepared(r, found[j]) => i = j
  <2> SUFFICES ASSUME NEW i \in DOMAIN found, NEW j \in DOMAIN found,
                      prepared(r, found[i]) = prepared(r, found[j]), i < j
               PROVE  FALSE
    BY <1>5
  <2>1. i \in 1..Cardinality(first) /\ j \in 1..Cardinality(first)
    BY <1>5
  <2>2. InOrder(first)[i] = InOrder(first)[j]
    BY <1>3, <1>5, <1>6, <2>1 DEF Enumerates
  <2>3. InOrder(first)[i] < InOrder(first)[j] /\ InOrder(first)[i] \in first
    BY <1>6, <2>1 DEF Enumerates
  <2>4. \A k \in first : k \in 1..n
    BY ONLY <1>2
  <2>5. \A k \in 1..n : ~(k < k)
    BY ONLY <1>1
  <2> QED BY ONLY <2>2, <2>3, <2>4, <2>5
<1>8. ToSet(found) \subseteq ToSet(cands)
  <2>1. \A k \in first : cands[k] \in ToSet(cands)
    BY <1>2 DEF ToSet
  <2>2. \A i \in DOMAIN found : found[i] \in ToSet(cands)
    BY <1>5, <2>1
  <2> QED BY <2>2 DEF ToSet
<1>9. \A c \in ToSet(cands) : \E t \in ToSet(found) : prepared(r, t) = prepared(r, c)
  BY <1>1, <1>4, <1>5 DEF ToSet
<1>10. distinct_targets(r, cands) = found
  BY DEF distinct_targets, found, first
<1> QED BY <1>5, <1>7, <1>8, <1>9, <1>10

LEMMA VariantsResolve ==
  ASSUME NEW r, NEW e, Resolves(e), NEW v \in Variants(r, e)
  PROVE  Resolves(v)
<1>1. CASE v = e
  BY <1>1
<1>2. ASSUME NEW a \in ToSet(e.addresses), v = At(e, a) PROVE Resolves(v)
  <2>1. /\ v = [name |-> v.name, service_type |-> v.service_type, hostname |-> v.hostname,
                addresses |-> v.addresses, port |-> v.port, txt |-> v.txt]
        /\ v.name = e.name /\ v.service_type = e.service_type /\ v.hostname = e.hostname /\ v.port = e.port
        /\ v.txt = e.txt /\ v.addresses = <<a>>
    BY <1>2 DEF Resolves, At
  <2>2. IsASequence(<<a>>) /\ ToSet(<<a>>) = {a}
    BY DEF IsASequence, ToSet
  <2>3. a \notin OptionLike
    BY <1>2 DEF Resolves
  <2>4. /\ IsASequence(e.name) /\ IsASequence(e.service_type) /\ IsASequence(e.hostname)
        /\ e.port # NotResolved => \E digits : e.port = <<digits>> /\ digits \notin OptionLike
        /\ HasTexts(e.txt)
    BY DEF Resolves
  <2>5. ToSet(v.addresses) \cap OptionLike = {}
    BY <2>1, <2>2, <2>3
  <2> QED BY ONLY <2>1, <2>2, <2>4, <2>5 DEF Resolves
<1> QED BY <1>1, <1>2 DEF Variants, At

\* What a rule could act on in a group.
Fitting(r, g) == {v \in UNION {Variants(r, e) : e \in ToSet(g)} : Fits(r, v)}

LEMMA TargetsFit ==
  ASSUME NEW r, IsRule(r), NEW g, IsASequence(g), \A i \in DOMAIN g : Resolves(g[i])
  PROVE  /\ IsASequence(targets(r, g))
         /\ ToSet(targets(r, g)) \subseteq Fitting(r, g)
         /\ \A v \in Fitting(r, g) : \E t \in ToSet(targets(r, g)) : prepared(r, t) = prepared(r, v)
         /\ \A i, j \in DOMAIN targets(r, g) :
              prepared(r, targets(r, g)[i]) = prepared(r, targets(r, g)[j]) => i = j
<1> DEFINE n == Len(g)
           pieces == [i \in DOMAIN g |-> candidates(r, g[i])]
<1>1. n \in Nat /\ DOMAIN g = 1..n
  BY DEF IsASequence
<1>2. pieces = [i \in 1..n |-> pieces[i]] /\ \A i \in 1..n : pieces[i] = candidates(r, g[i])
  BY <1>1
<1>3. \A i \in 1..n : /\ IsASequence(pieces[i])
                      /\ ToSet(pieces[i]) = {v \in Variants(r, g[i]) : Fits(r, v)}
  BY <1>1, <1>2, CandidatesFit
<1>4. targets(r, g) = distinct_targets(r, FlattenSeq(pieces))
  BY DEF targets
<1> HIDE DEF n, pieces
<1>5. pieces \in [1..n -> Seq(ItemsOf(pieces, n))]
  BY ONLY <1>1, <1>2, <1>3, PiecesAreOfItems
<1> DEFINE cands == FlattenSeq(pieces)
<1>6. IsASequence(cands) /\ ToSet(cands) = UNION {ToSet(pieces[k]) : k \in 1..n}
  BY ONLY <1>1, <1>5, FlattenMembers
<1> HIDE DEF cands
<1>7. ToSet(cands) = Fitting(r, g)
  <2>1. \A c : c \in ToSet(cands) <=> \E k \in 1..n : c \in Variants(r, g[k]) /\ Fits(r, c)
    BY <1>3, <1>6
  <2>2. ToSet(g) = {g[k] : k \in 1..n}
    BY <1>1 DEF ToSet
  <2>3. \A c : c \in Fitting(r, g) <=> \E k \in 1..n : c \in Variants(r, g[k]) /\ Fits(r, c)
    BY <2>2 DEF Fitting
  <2> QED BY <2>1, <2>3
<1>8. targets(r, g) = distinct_targets(r, cands)
  BY <1>4 DEF cands
<1> QED BY <1>6, <1>7, <1>8, TargetsOf

-----------------------------------------------------------------------------
(* What a fitting entry makes of a command.                                *)

Atom == {Literal(ch) : ch \in Symbol} \cup {FieldOf(f) : f \in Field}

LEMMA ValuesAreTexts ==
  ASSUME NEW e, Resolves(e), NEW f \in Field, has_field(e, f)
  PROVE  /\ IsASequence(field_value(e, f))
         /\ f \in TypedField => field_value(e, f) # <<>> /\ field_value(e, f)[1] \notin OptionLike
<1>1. f \in TxtField \/ f \in {"name", "service_type", "hostname", "address", "port"}
  BY EngineAssumption DEF Field
<1>2. "address" \notin TxtField /\ "port" \notin TxtField /\ "name" \notin TxtField
        /\ "service_type" \notin TxtField /\ "hostname" \notin TxtField
  BY EngineAssumption, TemplateAssumption
<1>3. f \in TypedField <=> f \in {"address", "port"}
  BY EngineAssumption
<1>4. CASE f \in TxtField
  <2>1. txt_keys(e, f) # {}
    BY <1>2, <1>4 DEF has_field
  <2>2. txt_keys(e, f) \subseteq DOMAIN e.txt
    BY DEF txt_keys
  <2> DEFINE key == CHOOSE key \in txt_keys(e, f) : TRUE
  <2>3. key \in DOMAIN e.txt
    BY <2>1, <2>2
  <2>4. field_value(e, f) = e.txt[key]
    BY <1>2, <1>4 DEF field_value
  <2> HIDE DEF key
  <2>5. IsASequence(e.txt[key])
    BY <2>3 DEF Resolves, HasTexts
  <2> QED BY <1>2, <1>3, <1>4, <2>4, <2>5
<1>5. CASE f = "name"
  BY <1>2, <1>3, <1>5 DEF field_value, Resolves
<1>6. CASE f = "service_type"
  BY <1>2, <1>3, <1>6 DEF field_value, Resolves
<1>7. CASE f = "hostname"
  BY <1>2, <1>3, <1>7 DEF field_value, Resolves
<1>8. CASE f = "address"
  <2> DEFINE a == e.addresses[1]
  <2>1. e.addresses # <<>> /\ field_value(e, f) = <<a>>
    BY <1>2, <1>8 DEF has_field, field_value
  <2>2. IsASequence(e.addresses) /\ ToSet(e.addresses) \cap OptionLike = {}
    BY DEF Resolves
  <2>3. 1 \in DOMAIN e.addresses
    <3>1. Len(e.addresses) # 0
      <4> SUFFICES ASSUME Len(e.addresses) = 0 PROVE FALSE
        OBVIOUS
      <4>1. e.addresses = [i \in 1..0 |-> e.addresses[i]]
        BY <2>2 DEF IsASequence
      <4> QED BY <2>1, <4>1
    <3> QED BY <2>2, <3>1 DEF IsASequence
  <2>4. a \notin OptionLike
    BY <2>2, <2>3 DEF ToSet
  <2> HIDE DEF a
  <2>5. IsASequence(<<a>>)
    BY DEF IsASequence
  <2> QED BY <2>1, <2>4, <2>5
<1>9. CASE f = "port"
  <2>1. e.port # NotResolved /\ field_value(e, f) = e.port
    BY <1>2, <1>9 DEF has_field, field_value
  <2>2. PICK digits : e.port = <<digits>> /\ digits \notin OptionLike
    BY <2>1 DEF Resolves
  <2>3. IsASequence(<<digits>>)
    BY DEF IsASequence
  <2> QED BY <2>1, <2>2, <2>3
<1> QED BY <1>1, <1>4, <1>5, <1>6, <1>7, <1>8, <1>9

LEMMA RenderedToken ==
  ASSUME NEW token \in Seq(Atom), NEW value,
         \A k \in DOMAIN token : IsField(token[k]) =>
           /\ IsASequence(value[token[k].of])
           /\ token[k].of \in TypedField =>
                value[token[k].of] # <<>> /\ value[token[k].of][1] \notin OptionLike
  PROVE  /\ (\A k \in DOMAIN token : ~IsField(token[k])) =>
              render_token(token, value) = [k \in DOMAIN token |-> token[k].of]
         /\ render_token(token, value) # <<>> /\ render_token(token, value)[1] \in OptionLike =>
              leading_option_sensitive_field(token) \/ token[1] = Literal(render_token(token, value)[1])
<1> DEFINE n == Len(token)
           pieces == [k \in DOMAIN token |-> value_of(token[k], value)]
           text == render_token(token, value)
<1>1. n \in Nat /\ DOMAIN token = 1..n /\ \A k \in 1..n : token[k] \in Atom
  OBVIOUS
<1>2. text = FlattenSeq(pieces)
  BY DEF render_token
<1>3. pieces = [k \in 1..n |-> pieces[k]] /\ \A k \in 1..n : pieces[k] = value_of(token[k], value)
  BY <1>1
<1>4. ASSUME NEW atom PROVE IsASequence(<<atom>>)
  BY DEF IsASequence
<1>5. \A k \in 1..n : IsASequence(pieces[k])
  BY <1>1, <1>3, <1>4 DEF value_of
<1> HIDE DEF n, pieces, text
<1>6. pieces \in [1..n -> Seq(ItemsOf(pieces, n))]
  BY ONLY <1>1, <1>3, <1>5, PiecesAreOfItems
<1>7. ASSUME \A k \in DOMAIN token : ~IsField(token[k])
      PROVE  text = [k \in DOMAIN token |-> token[k].of]
  <2> DEFINE of == [k \in 1..n |-> token[k].of]
  <2>1. pieces = [k \in 1..n |-> <<of[k]>>] /\ of = [k \in 1..n |-> of[k]]
    BY <1>1, <1>3, <1>7 DEF value_of
  <2> HIDE DEF of
  <2>2. FlattenSeq([k \in 1..n |-> <<of[k]>>]) = [k \in 1..n |-> of[k]]
    BY ONLY <1>1, FlattenSingles
  <2>3. text = of
    BY ONLY <1>2, <2>1, <2>2
  <2> QED BY <1>1, <2>3 DEF of
<1>8. ASSUME text # <<>>, text[1] \in OptionLike
      PROVE  leading_option_sensitive_field(token) \/ token[1] = Literal(text[1])
  <2>1. n # 0
    <3> SUFFICES ASSUME n = 0 PROVE FALSE
      OBVIOUS
    <3>1. Len(pieces) = 0 /\ pieces = <<>>
      BY <1>3
    <3>2. FlattenSeq(pieces) = pieces
      BY <3>1, Zenon DEF FlattenSeq
    <3> QED BY <1>2, <1>8, <3>1, <3>2
  <2>2. 1 \in 1..n /\ token[1] \in Atom /\ pieces[1] = value_of(token[1], value) /\ token # <<>>
    BY <1>1, <1>3, <2>1 DEF n
  <2>3. ASSUME pieces[1] # <<>> PROVE text[1] = pieces[1][1]
    BY ONLY <1>1, <1>2, <1>6, <2>1, <2>3, FlattenFirst
  <2>4. CASE ~IsField(token[1])
    <3>1. PICK ch \in Symbol : token[1] = Literal(ch)
      BY <2>2, <2>4 DEF Atom, FieldOf, IsField
    <3>2. pieces[1] = <<ch>>
      BY <2>2, <2>4, <3>1 DEF value_of, Literal
    <3> QED BY <2>3, <3>1, <3>2
  <2>5. CASE IsField(token[1])
    <3>1. PICK f \in Field : token[1] = FieldOf(f)
      BY <2>2, <2>5 DEF Atom, Literal, IsField
    <3>2. token[1].of = f /\ pieces[1] = value[f]
      BY <2>2, <2>5, <3>1 DEF value_of, FieldOf
    <3>3. f \notin TypedField
      BY <1>1, <1>8, <2>2, <2>3, <2>5, <3>2
    <3> QED BY <2>2, <2>5, <3>2, <3>3 DEF Field, leading_option_sensitive_field
  <2> QED BY <2>4, <2>5
<1> QED BY <1>7, <1>8 DEF text

\* A command rendered for an entry.
Argv(tokens, e) == render(tokens, [f \in fields(tokens) |-> field_value(e, f)])

LEMMA RenderedFor ==
  ASSUME NEW tokens \in Seq(Seq(Atom)), NEW e, Resolves(e), \A f \in fields(tokens) : has_field(e, f)
  PROVE  /\ DOMAIN Argv(tokens, e) = DOMAIN tokens /\ Len(Argv(tokens, e)) = Len(tokens)
         /\ \A i \in DOMAIN tokens :
              /\ (\A k \in DOMAIN tokens[i] : ~IsField(tokens[i][k])) =>
                   Argv(tokens, e)[i] = [k \in DOMAIN tokens[i] |-> tokens[i][k].of]
              /\ Argv(tokens, e)[i] # <<>> /\ Argv(tokens, e)[i][1] \in OptionLike =>
                   leading_option_sensitive_field(tokens[i]) \/ tokens[i][1] = Literal(Argv(tokens, e)[i][1])
<1> DEFINE value == [f \in fields(tokens) |-> field_value(e, f)]
           argv == Argv(tokens, e)
<1>1. /\ argv = [i \in DOMAIN tokens |-> render_token(tokens[i], value)]
      /\ DOMAIN tokens = 1..Len(tokens) /\ Len(tokens) \in Nat
  BY DEF Argv, render
<1>2. DOMAIN argv = DOMAIN tokens /\ Len(argv) = Len(tokens)
      /\ \A i \in DOMAIN tokens : argv[i] = render_token(tokens[i], value)
  BY <1>1
<1>3. ASSUME NEW i \in DOMAIN tokens, NEW k \in DOMAIN tokens[i], IsField(tokens[i][k])
      PROVE  /\ IsASequence(value[tokens[i][k].of])
             /\ tokens[i][k].of \in TypedField =>
                  value[tokens[i][k].of] # <<>> /\ value[tokens[i][k].of][1] \notin OptionLike
  <2>1. tokens[i] \in Seq(Atom)
    BY <1>3
  <2>2. tokens[i][k] \in Atom
    BY <1>3, <2>1
  <2>3. PICK f \in Field : tokens[i][k] = FieldOf(f)
    BY <1>3, <2>2 DEF Atom, Literal, IsField
  <2>4. f \in fields(tokens)
    BY <1>3, <2>3 DEF fields
  <2>5. tokens[i][k].of = f /\ value[f] = field_value(e, f) /\ has_field(e, f)
    BY <2>3, <2>4 DEF FieldOf
  <2> HIDE DEF value
  <2> QED BY <2>5, ValuesAreTexts
<1> HIDE DEF value, argv
<1>4. \A i \in DOMAIN tokens : tokens[i] \in Seq(Atom)
  OBVIOUS
<1>5. ASSUME NEW i \in DOMAIN tokens
      PROVE  /\ (\A k \in DOMAIN tokens[i] : ~IsField(tokens[i][k])) =>
                  argv[i] = [k \in DOMAIN tokens[i] |-> tokens[i][k].of]
             /\ argv[i] # <<>> /\ argv[i][1] \in OptionLike =>
                  leading_option_sensitive_field(tokens[i]) \/ tokens[i][1] = Literal(argv[i][1])
  <2> DEFINE token == tokens[i]
  <2>1. token \in Seq(Atom) /\ argv[i] = render_token(token, value)
    BY <1>2, <1>4
  <2>2. \A k \in DOMAIN token : IsField(token[k]) =>
           /\ IsASequence(value[token[k].of])
           /\ token[k].of \in TypedField =>
                value[token[k].of] # <<>> /\ value[token[k].of][1] \notin OptionLike
    BY <1>3
  <2> HIDE DEF token
  <2>3. /\ (\A k \in DOMAIN token : ~IsField(token[k])) =>
             render_token(token, value) = [k \in DOMAIN token |-> token[k].of]
        /\ render_token(token, value) # <<>> /\ render_token(token, value)[1] \in OptionLike =>
             leading_option_sensitive_field(token) \/ token[1] = Literal(render_token(token, value)[1])
    BY ONLY <2>1, <2>2, RenderedToken
  <2> QED BY <2>1, <2>3 DEF token
<1> QED BY <1>2, <1>5 DEF argv

-----------------------------------------------------------------------------
(* What a service can do to the command line.                              *)

(* The arguments of a rule in force stay what the writer meant, what is    *)
(* looked at are reports, and nothing was run before there was a rule.     *)
SessionInv ==
  /\ ReadInv
  /\ args \in Seq(Seq(Atom)) /\ arg \in Seq(Atom)
  /\ live \subseteq DOMAIN Reports
  /\ \A q, r \in rule : q = r
  /\ \A r \in rule : IsRule(r)
  /\ rule = {} => launched = {}
  /\ \A r \in rule : \A l \in launched : Uninjected(r, l.argv)

LEMMA FittingIsUninjected ==
  ASSUME ReadInv, args \in Seq(Seq(Atom)), arg \in Seq(Atom),
         NEW r \in rule, NEW t, Resolves(t), Prepares(r, t)
  PROVE  Uninjected(r, prepare(r, t).argv)
<1> DEFINE argv == Argv(Intended, t)
<1>1. r.template = Intended /\ ProgramIsLiteral(Intended)
        /\ (LetOptionsThrough(r) \/ validate_option_like_values(Intended))
  BY DEF ReadInv, Compiled
<1>2. Intended \in Seq(Seq(Atom))
  BY DEF Intended
<1>3. prepare(r, t).argv = argv /\ \A f \in fields(Intended) : has_field(t, f)
  BY <1>1 DEF prepare, Argv, Prepares
<1> HIDE DEF argv
<1>4. /\ DOMAIN argv = DOMAIN Intended /\ Len(argv) = Len(Intended)
      /\ \A i \in DOMAIN Intended :
           /\ (\A k \in DOMAIN Intended[i] : ~IsField(Intended[i][k])) =>
                argv[i] = [k \in DOMAIN Intended[i] |-> Intended[i][k].of]
           /\ argv[i] # <<>> /\ argv[i][1] \in OptionLike =>
                leading_option_sensitive_field(Intended[i]) \/ Intended[i][1] = Literal(argv[i][1])
  BY <1>2, <1>3, RenderedFor DEF argv
<1>5. 1 \in DOMAIN Intended /\ DOMAIN Intended = 1..Len(Intended) /\ Len(Intended) \in Nat
  BY <1>1, <1>2 DEF ProgramIsLiteral
<1>6. argv[1] = [k \in DOMAIN Intended[1] |-> Intended[1][k].of]
  BY <1>1, <1>4, <1>5 DEF ProgramIsLiteral
<1>7. ASSUME NEW i \in 2 .. Len(argv), argv[i] # <<>>, argv[i][1] \in OptionLike, ~LetOptionsThrough(r)
      PROVE  \/ Intended[i][1] = Literal(argv[i][1])
             \/ \E j \in 2 .. i - 1 : Intended[j] = <<Literal(Terminator)>>
  <2>1. i \in DOMAIN Intended /\ i \in 2 .. Len(Intended)
    BY <1>4, <1>5, <1>7
  <2>2. leading_option_sensitive_field(Intended[i]) \/ Intended[i][1] = Literal(argv[i][1])
    BY <1>4, <1>7, <2>1
  <2>3. leading_option_sensitive_field(Intended[i]) => options_terminated(Intended, i)
    BY <1>1, <1>7, <2>1 DEF validate_option_like_values
  <2> QED BY <2>2, <2>3 DEF options_terminated
<1> QED BY <1>3, <1>4, <1>6, <1>7 DEF Uninjected

LEMMA TargetsAreUninjected ==
  ASSUME SessionInv, NEW r \in rule, NEW t \in ToSet(targets(r, group))
  PROVE  Uninjected(r, prepare(r, t).argv)
<1>1. IsASequence(group) /\ \A i \in DOMAIN group : Resolves(group[i])
  BY GroupResolves DEF SessionInv
<1>2. IsRule(r)
  BY DEF SessionInv
<1>3. t \in Fitting(r, group)
  BY <1>1, <1>2, TargetsFit
<1>4. PICK e \in ToSet(group) : t \in Variants(r, e) /\ Fits(r, t)
  BY <1>3 DEF Fitting
<1>5. Resolves(e)
  BY <1>1 DEF ToSet
<1>6. Resolves(t) /\ Prepares(r, t)
  BY <1>4, <1>5, VariantsResolve DEF Fits
<1> QED BY <1>6, FittingIsUninjected DEF SessionInv

LEMMA SessionInitial == RuleInit => SessionInv
  BY ReadInitial DEF RuleInit, SessionInv

LEMMA AtomsMeant ==
  ASSUME SessionInv,
         \/ \E ch \in Symbol : WriteLiteral(ch) \/ WriteEscaped(ch)
         \/ \E f \in Field : WritePlaceholder(f)
         \/ \E q \in Quotes : OpenQuote(q)
         \/ WriteBrace \/ CloseQuote \/ EndArgument \/ Slip
  PROVE  args' \in Seq(Seq(Atom)) /\ arg' \in Seq(Atom)
<1>1. args \in Seq(Seq(Atom)) /\ arg \in Seq(Atom)
  BY DEF SessionInv
<1>2. (\A ch \in Symbol : Literal(ch) \in Atom) /\ (\A f \in Field : FieldOf(f) \in Atom) /\ "{" \in Symbol
  BY DEF Atom, Symbol, Meaning
<1>3. ASSUME NEW atom \in Atom, Means(atom)
      PROVE  args' \in Seq(Seq(Atom)) /\ arg' \in Seq(Atom)
  BY <1>1, <1>3 DEF Means
<1>4. ASSUME UNCHANGED <<args, arg>>
      PROVE  args' \in Seq(Seq(Atom)) /\ arg' \in Seq(Atom)
  BY <1>1, <1>4
<1>5. CASE EndArgument
  BY <1>1, <1>5 DEF EndArgument, Intended
<1> QED
  BY <1>2, <1>3, <1>4, <1>5 DEF WriteLiteral, WriteEscaped, WriteBrace, WritePlaceholder, OpenQuote, CloseQuote, Slip

LEMMA SessionStep == SessionInv /\ [RuleNext]_ruleVars => SessionInv'
<1> SUFFICES ASSUME SessionInv, [RuleNext]_ruleVars PROVE SessionInv'
  OBVIOUS
<1>1. ReadInv'
  BY ReadStep DEF SessionInv
<1>2. CASE \/ \E ch \in Symbol : WriteLiteral(ch) \/ WriteEscaped(ch)
           \/ \E f \in Field : WritePlaceholder(f)
           \/ \E q \in Quotes : OpenQuote(q)
           \/ WriteBrace \/ CloseQuote \/ EndArgument \/ Slip
  <2>1. rule = {} /\ UNCHANGED <<rule, live, installed, launched>>
    BY <1>2 DEF Writing, WriteLiteral, WriteEscaped, WriteBrace, WritePlaceholder, OpenQuote, CloseQuote,
                EndArgument, Slip
  <2>2. args' \in Seq(Seq(Atom)) /\ arg' \in Seq(Atom)
    BY <1>2, AtomsMeant
  <2> QED BY <1>1, <2>1, <2>2 DEF SessionInv
<1>3. ASSUME NEW file \in Files, Load(file) PROVE SessionInv'
  <2>1. rule = {} /\ launched = {} /\ UNCHANGED <<live, installed, launched>>
    BY <1>3 DEF Load, SessionInv
  <2>2. args' \in Seq(Seq(Atom)) /\ arg' \in Seq(Atom)
    <3>1. args \in Seq(Seq(Atom)) /\ arg \in Seq(Atom) /\ <<>> \in Seq(Seq(Atom)) /\ <<>> \in Seq(Atom)
      BY DEF SessionInv
    <3>2. (args' = args /\ arg' = arg) \/ (args' = <<>> /\ arg' = <<>>)
      BY <1>3 DEF Load, writerVars, meantVars
    <3> QED BY <3>1, <3>2
  <2>3. \A r \in rule' : IsRule(r)
    <3> SUFFICES ASSUME NEW r \in rule', NEW p \in r.predicates PROVE p.field \in Field
      BY DEF IsRule
    <3>1. Parses(file, reader) /\ r = CommandConfig(file, reader)
      BY <1>3, <2>1 DEF Load
    <3>2. PICK i \in DOMAIN file.match : p.field = file.match[i].field
      BY <3>1 DEF CommandConfig, ToSet
    <3> QED BY <3>1, <3>2 DEF Parses, collect_predicates
  <2>4. \A q, r \in rule' : q = r
    BY <1>3, <2>1 DEF Load
  <2> QED BY <1>1, <2>1, <2>2, <2>3, <2>4 DEF SessionInv
<1>4. CASE UNCHANGED <<writerVars, rule>> /\ live' \subseteq DOMAIN Reports /\ launched' = {}
  BY <1>1, <1>4 DEF SessionInv, writerVars, meantVars
<1>5. ASSUME NEW i \in DOMAIN Reports, Report(i) PROVE SessionInv'
  <2>1. live' \subseteq DOMAIN Reports
    BY <1>5 DEF Report, SessionInv
  <2> QED BY <1>4, <1>5, <2>1 DEF Report, Running
<1>6. ASSUME NEW program \in Programs, Install(program) PROVE SessionInv'
  <2>1. live' \subseteq DOMAIN Reports
    BY <1>6 DEF Install, SessionInv
  <2> QED BY <1>4, <1>6, <2>1 DEF Install, Running
<1>7. ASSUME NEW r \in rule, NEW t \in ToSet(targets(r, group)), Run(r, t) PROVE SessionInv'
  <2>1. UNCHANGED <<args, arg, open, quote, sound, reader, rule, live>>
    BY <1>7 DEF Run, Running, writerVars, meantVars
  <2>2. \A l \in launched' : l.argv = prepare(r, t).argv
    BY <1>7 DEF Run
  <2>3. \A q \in rule : q = r
    BY DEF SessionInv
  <2>4. Uninjected(r, prepare(r, t).argv)
    BY <1>7, TargetsAreUninjected
  <2>5. \A l \in launched' : Uninjected(r, l.argv)
    BY <2>2, <2>4
  <2>6. \A q \in rule' : \A l \in launched' : Uninjected(q, l.argv)'
    BY <2>1, <2>3, <2>5 DEF Uninjected, Intended
  <2>7. args' \in Seq(Seq(Atom)) /\ arg' \in Seq(Atom) /\ live' \subseteq DOMAIN Reports
    BY <2>1 DEF SessionInv
  <2>8. (\A q, s \in rule' : q = s) /\ (\A q \in rule' : IsRule(q))
    BY <2>1 DEF SessionInv
  <2>9. rule' # {}
    BY <2>1
  <2> QED BY <1>1, <2>6, <2>7, <2>8, <2>9 DEF SessionInv
<1>8. CASE UNCHANGED ruleVars
  BY <1>1, <1>8 DEF ruleVars, writerVars, meantVars, SessionInv, Uninjected, Intended
<1> QED BY <1>2, <1>3, <1>5, <1>6, <1>7, <1>8 DEF RuleNext

(* A service cannot add, remove or choose an argument, in any command and  *)
(* whatever it announces (template.rs:144, mod.rs:94): every target the    *)
(* engine finds resolves every field, so that each argument begins with    *)
(* what the writer put first in it, and the values that could begin an     *)
(* option are text, which compiling keeps from coming first.               *)
THEOREM NothingIsInjectedHolds == RuleSpec => []NothingIsInjected
<1>1. SessionInv => NothingIsInjected
  BY TargetsAreUninjected DEF SessionInv, NothingIsInjected
<1> QED
  BY <1>1, SessionInitial, SessionStep, PTL DEF RuleSpec

-----------------------------------------------------------------------------
(* Listing, matching and preparing agree.                                  *)

LEMMA ListedWhenMatched ==
  ASSUME NEW r, IsRule(r), NEW g, IsASequence(g), \A i \in DOMAIN g : Resolves(g[i])
  PROVE  (\E i \in DOMAIN g : has_candidate(r, g[i])) <=> targets(r, g) # <<>>
<1>1. /\ IsASequence(targets(r, g)) /\ ToSet(targets(r, g)) \subseteq Fitting(r, g)
      /\ \A v \in Fitting(r, g) : \E t \in ToSet(targets(r, g)) : TRUE
  BY TargetsFit
<1>2. targets(r, g) # <<>> <=> ToSet(targets(r, g)) # {}
  <2> DEFINE found == targets(r, g)
  <2>1. DOMAIN found = 1..Len(found) /\ Len(found) \in Nat /\ found = [i \in 1..Len(found) |-> found[i]]
    BY <1>1 DEF IsASequence
  <2> HIDE DEF found
  <2>2. Len(found) = 0 => found = <<>>
    BY <2>1
  <2>3. Len(found) # 0 => 1 \in DOMAIN found
    BY <2>1
  <2>4. found = <<>> => DOMAIN found = {}
    OBVIOUS
  <2>5. found # <<>> <=> ToSet(found) # {}
    BY <2>2, <2>3, <2>4 DEF ToSet
  <2> QED BY <2>5 DEF found
<1>3. ToSet(targets(r, g)) # {} <=> Fitting(r, g) # {}
  BY <1>1
<1>4. ASSUME NEW i \in DOMAIN g
      PROVE  has_candidate(r, g[i]) <=> \E v \in Variants(r, g[i]) : Fits(r, v)
  <2> DEFINE e == g[i]
             at == {k \in DOMAIN e.addresses : address_predicates_match(r, e.addresses[k])}
             fit == ItemsAt(e.addresses, at)
  <2>1. Resolves(e)
    BY <1>4
  <2> HIDE DEF e
  <2>2. ToSet(candidates(r, e)) = {v \in Variants(r, e) : Fits(r, v)}
    BY <2>1, CandidatesFit
  <2>3. candidates(r, e) = IF ~Applies(r, e) THEN <<>>
                           ELSE IF ~uses_address(r) THEN <<e>> ELSE [k \in DOMAIN fit |-> At(e, fit[k])]
    BY DEF candidates, At
  <2>4. (\E k \in DOMAIN fit : TRUE) <=> \E k \in DOMAIN e.addresses : address_predicates_match(r, e.addresses[k])
    <3>1. IsASequence(e.addresses) /\ at \subseteq DOMAIN e.addresses
      BY <2>1 DEF Resolves
    <3> DEFINE s == e.addresses
    <3> HIDE DEF at, s
    <3>2. /\ \A k \in DOMAIN ItemsAt(s, at) : \E l \in at : TRUE
          /\ \A l \in at : \E k \in DOMAIN ItemsAt(s, at) : TRUE
      <4>1. IsASequence(s) /\ at \subseteq DOMAIN s
        BY <3>1 DEF s
      <4> QED BY ONLY <4>1, ItemsAtThem
    <3>3. (\E k \in DOMAIN fit : TRUE) <=> \E l \in at : TRUE
      BY <3>2 DEF s
    <3> QED BY <3>3 DEF at
  <2> HIDE DEF fit, at
  <2>5. (\E c \in ToSet(candidates(r, e)) : TRUE) <=> has_candidate(r, e)
    <3>1. CASE ~Applies(r, e)
      BY <2>3, <3>1 DEF has_candidate, ToSet
    <3>2. CASE Applies(r, e) /\ ~uses_address(r)
      BY <2>3, <3>2 DEF has_candidate, ToSet
    <3>3. CASE Applies(r, e) /\ uses_address(r)
      <4>1. DOMAIN candidates(r, e) = DOMAIN fit
        BY <2>3, <3>3
      <4> QED BY <2>4, <3>3, <4>1 DEF has_candidate, ToSet
    <3> QED BY <3>1, <3>2, <3>3
  <2>6. has_candidate(r, e) <=> \E v \in Variants(r, e) : Fits(r, v)
    BY <2>2, <2>5
  <2> QED BY <2>6 DEF e
<1>5. Fitting(r, g) # {} <=> \E i \in DOMAIN g : \E v \in Variants(r, g[i]) : Fits(r, v)
  BY DEF Fitting, ToSet
<1> QED BY <1>2, <1>3, <1>4, <1>5

LEMMA ListingAgrees ==
  ASSUME NEW r, IsRule(r), NEW g, IsASequence(g), \A i \in DOMAIN g : Resolves(g[i])
  PROVE  /\ matching_command_names(<<r>>, g) = names_by_matching(<<r>>, g)
         /\ \A m \in ToSet(matches_group(<<r>>, g)) : m.command \in ToSet(commands(<<r>>))
<1> DEFINE rules == <<r>>
           listed == {k \in DOMAIN rules : \E i \in DOMAIN g : has_candidate(rules[k], g[i])}
           matched == {k \in DOMAIN rules : targets(rules[k], g) # <<>>}
           results == [k \in DOMAIN rules |-> MatchResult(rules[k], g)]
<1>1. rules = [k \in 1..1 |-> r] /\ IsASequence(rules) /\ DOMAIN rules = {1} /\ rules[1] = r
  BY DEF IsASequence
<1>2. listed = matched
  BY <1>1, ListedWhenMatched
<1>3. /\ DOMAIN results = DOMAIN rules /\ \A k \in DOMAIN rules : results[k].command = rules[k]
      /\ IsASequence(results)
  BY <1>1 DEF MatchResult, IsASequence
<1>4. matched \subseteq DOMAIN rules /\ matched \subseteq DOMAIN results
  BY <1>3
<1>5. /\ matching_command_names(<<r>>, g) = [i \in DOMAIN ItemsAt(rules, listed) |-> ItemsAt(rules, listed)[i].name]
      /\ matches_group(<<r>>, g) = ItemsAt(results, matched)
      /\ names_by_matching(<<r>>, g) =
           [i \in DOMAIN matches_group(<<r>>, g) |-> matches_group(<<r>>, g)[i].command.name]
      /\ commands(<<r>>) = rules
  BY DEF matching_command_names, matches_group, names_by_matching, commands
<1> HIDE DEF rules, listed, matched, results
<1>6. ItemsAt(rules, matched) = [i \in 1..Cardinality(matched) |-> rules[InOrder(matched)[i]]]
  <2>1. IsASequence(rules) /\ matched \subseteq DOMAIN rules
    BY <1>1, <1>4
  <2> QED BY ONLY <2>1, ItemsAtThem
<1>7. ItemsAt(results, matched) = [i \in 1..Cardinality(matched) |-> results[InOrder(matched)[i]]]
  BY ONLY <1>3, <1>4, ItemsAtThem
<1>8. \A i \in 1..Cardinality(matched) : InOrder(matched)[i] \in DOMAIN rules
  <2>1. matched \subseteq 1..1 /\ 1 \in Nat
    BY <1>1, <1>4
  <2>2. \A i \in 1..Cardinality(matched) : InOrder(matched)[i] \in matched
    BY ONLY <2>1, OrderedMembers
  <2> QED BY <1>4, <2>2
<1>9. matching_command_names(<<r>>, g) = names_by_matching(<<r>>, g)
  <2> DEFINE c == Cardinality(matched)
             at == InOrder(matched)
  <2>1. matching_command_names(<<r>>, g) = [i \in 1..c |-> rules[at[i]].name]
    <3> DEFINE found == ItemsAt(rules, matched)
    <3>1. found = [i \in 1..c |-> rules[at[i]]]
      BY <1>6
    <3>2. matching_command_names(<<r>>, g) = [i \in DOMAIN found |-> found[i].name]
      BY <1>2, <1>5
    <3> HIDE DEF found, c, at
    <3> QED BY <3>1, <3>2
  <2>2. names_by_matching(<<r>>, g) = [i \in 1..c |-> results[at[i]].command.name]
    <3> DEFINE found == ItemsAt(results, matched)
    <3>1. found = [i \in 1..c |-> results[at[i]]]
      BY <1>7
    <3>2. names_by_matching(<<r>>, g) = [i \in DOMAIN found |-> found[i].command.name]
      BY <1>5
    <3> HIDE DEF found, c, at
    <3> QED BY <3>1, <3>2
  <2>3. \A i \in 1..c : results[at[i]].command = rules[at[i]]
    BY <1>3, <1>8
  <2> HIDE DEF c, at
  <2> QED BY <2>1, <2>2, <2>3
<1>10. \A i \in DOMAIN ItemsAt(results, matched) : ItemsAt(results, matched)[i].command \in ToSet(rules)
  BY <1>3, <1>7, <1>8 DEF ToSet
<1> QED BY <1>5, <1>9, <1>10 DEF ToSet

(* Listing, matching and preparing agree, for all rules that can be loaded *)
(* and all services that can be reported (mod.rs:187, mod.rs:258,          *)
(* mod.rs:287): the candidates of an entry are just what of it fits the    *)
(* rule, and a target stands for each command they prepare.                *)
THEOREM MatchingAgreesHolds == RuleSpec => []MatchingAgrees
<1>1. SessionInv => MatchingAgrees
  <2> SUFFICES ASSUME SessionInv, NEW r \in rule
               PROVE  LET found == targets(r, group)
                      IN /\ matching_command_names(<<r>>, group) = names_by_matching(<<r>>, group)
                         /\ \A m \in ToSet(matches_group(<<r>>, group)) : m.command \in ToSet(commands(<<r>>))
                         /\ \A t \in ToSet(found) : Fits(r, t)
                         /\ \A i, j \in DOMAIN found : prepare(r, found[i]) = prepare(r, found[j]) => i = j
                         /\ {prepare(r, t) : t \in ToSet(found)}
                              = {prepare(r, v) : v \in {w \in UNION {Variants(r, e) : e \in ToSet(group)} : Fits(r, w)}}
    BY DEF MatchingAgrees
  <2> DEFINE found == targets(r, group)
  <2>1. IsRule(r) /\ IsASequence(group) /\ \A i \in DOMAIN group : Resolves(group[i])
    BY GroupResolves DEF SessionInv
  <2>2. /\ matching_command_names(<<r>>, group) = names_by_matching(<<r>>, group)
        /\ \A m \in ToSet(matches_group(<<r>>, group)) : m.command \in ToSet(commands(<<r>>))
    BY <2>1, ListingAgrees
  <2>3. /\ ToSet(found) \subseteq Fitting(r, group)
        /\ \A v \in Fitting(r, group) : \E t \in ToSet(found) : prepared(r, t) = prepared(r, v)
        /\ \A i, j \in DOMAIN found : prepared(r, found[i]) = prepared(r, found[j]) => i = j
    BY <2>1, TargetsFit
  <2>4. \A v \in Fitting(r, group) : Fits(r, v) /\ prepared(r, v) = {prepare(r, v)}
    BY DEF Fitting, Fits, prepared
  <2> HIDE DEF found
  <2>5. \A t \in ToSet(found) : Fits(r, t)
    BY <2>3, <2>4
  <2>6. \A i, j \in DOMAIN found : prepare(r, found[i]) = prepare(r, found[j]) => i = j
    <3>1. \A i \in DOMAIN found : found[i] \in Fitting(r, group)
      BY <2>3 DEF ToSet
    <3> QED BY <2>3, <2>4, <3>1
  <2>7. {prepare(r, t) : t \in ToSet(found)} = {prepare(r, v) : v \in Fitting(r, group)}
    BY <2>3, <2>4
  <2> QED BY <2>2, <2>5, <2>6, <2>7 DEF found, Fitting
<1> QED
  BY <1>1, SessionInitial, SessionStep, PTL DEF RuleSpec

-----------------------------------------------------------------------------
(* A row collects the entries of one identity.                             *)

OfIdentity(g, id, mode) == {i \in DOMAIN g : row_id(g[i], mode) = id}

LEMMA RowInstances ==
  ASSUME NEW g, IsASequence(g), NEW mode, NEW id
  PROVE  /\ IsASequence(row_instances(g, id, mode))
         /\ Len(row_instances(g, id, mode)) = Cardinality(OfIdentity(g, id, mode))
         /\ \A i \in DOMAIN row_instances(g, id, mode) : \E k \in OfIdentity(g, id, mode) :
              row_instances(g, id, mode)[i] = g[k]
         /\ \A k \in OfIdentity(g, id, mode) : \E i \in DOMAIN row_instances(g, id, mode) :
              row_instances(g, id, mode)[i] = g[k]
<1> DEFINE of == OfIdentity(g, id, mode)
<1>1. of \subseteq DOMAIN g
  BY DEF OfIdentity
<1>2. row_instances(g, id, mode) = ItemsAt(g, of)
  BY DEF row_instances, OfIdentity
<1> HIDE DEF of
<1>3. /\ IsASequence(ItemsAt(g, of)) /\ Len(ItemsAt(g, of)) = Cardinality(of)
      /\ \A i \in DOMAIN ItemsAt(g, of) : \E k \in of : ItemsAt(g, of)[i] = g[k]
      /\ \A k \in of : \E i \in DOMAIN ItemsAt(g, of) : ItemsAt(g, of)[i] = g[k]
  BY ONLY IsASequence(g), <1>1, ItemsAtThem
<1> QED BY <1>2, <1>3 DEF of

LEMMA RowsAreOfTheirIdentity ==
  ASSUME NEW g, IsASequence(g), NEW mode, NEW id \in row_ids(g, mode)
  PROVE  LET row == row_instances(g, id, mode)
         IN /\ IsASequence(row) /\ 1 \in DOMAIN row
            /\ \A e \in ToSet(row) : e \in ToSet(g) /\ row_id(e, mode) = id
<1> DEFINE row == row_instances(g, id, mode)
           of == OfIdentity(g, id, mode)
<1>1. /\ IsASequence(row)
      /\ \A i \in DOMAIN row : \E k \in of : row[i] = g[k]
      /\ \A k \in of : \E i \in DOMAIN row : row[i] = g[k]
  BY RowInstances
<1>2. \E k \in of : TRUE
  BY DEF row_ids, ToSet, OfIdentity
<1>3. \A k \in of : g[k] \in ToSet(g) /\ row_id(g[k], mode) = id
  BY DEF ToSet, OfIdentity
<1> HIDE DEF row, of
<1>4. DOMAIN row = 1..Len(row) /\ Len(row) \in Nat
  BY <1>1 DEF IsASequence
<1>5. 1 \in DOMAIN row
  BY <1>1, <1>2, <1>4
<1>6. \A e \in ToSet(row) : e \in ToSet(g) /\ row_id(e, mode) = id
  BY <1>1, <1>3 DEF ToSet
<1> QED BY <1>1, <1>5, <1>6 DEF row

LEMMA IdentityIsTheFacts ==
  ASSUME NEW d, NEW e, NEW mode \in BROWSE_MODES
  PROVE  row_id(d, mode) = row_id(e, mode) <=> facts_of(d, mode) = facts_of(e, mode)
<1>1. CASE mode = "service"
  BY <1>1 DEF row_id, facts_of
<1>2. CASE mode = "host"
  BY <1>2 DEF row_id, facts_of
<1>3. CASE mode = "type"
  BY <1>3 DEF row_id, facts_of
<1> QED BY <1>1, <1>2, <1>3 DEF BROWSE_MODES

LEMMA FactsHold ==
  ASSUME NEW g, IsASequence(g), NEW mode \in BROWSE_MODES, NEW id \in row_ids(g, mode)
  PROVE  FactsHoldOf(row_instances(g, id, mode), row_facts(g, id, mode), mode)
<1> DEFINE row == row_instances(g, id, mode)
           facts == row_facts(g, id, mode)
<1>1. 1 \in DOMAIN row /\ \A e \in ToSet(row) : row_id(e, mode) = id
  BY RowsAreOfTheirIdentity
<1>2. facts = facts_of(row[1], mode)
  BY DEF row_facts
<1> HIDE DEF row, facts
<1>3. row[1] \in ToSet(row)
  BY <1>1 DEF ToSet
<1>4. \A e \in ToSet(row) : facts_of(e, mode) = facts
  BY <1>1, <1>2, <1>3, IdentityIsTheFacts
<1>5. ASSUME NEW e \in ToSet(row)
      PROVE  row_host(facts) \subseteq {e.hostname} /\ row_service_type(facts) \subseteq {e.service_type}
  <2>1. facts = facts_of(e, mode)
    BY <1>4
  <2>2. CASE mode = "service"
    BY <2>1, <2>2 DEF facts_of, row_host, row_service_type
  <2>3. CASE mode = "host"
    BY <2>1, <2>3 DEF facts_of, row_host, row_service_type
  <2>4. CASE mode = "type"
    BY <2>1, <2>4 DEF facts_of, row_host, row_service_type
  <2> QED BY <2>2, <2>3, <2>4 DEF BROWSE_MODES
<1> QED BY <1>4, <1>5 DEF FactsHoldOf, row, facts

LEMMA CountsHold ==
  ASSUME NEW row, IsASequence(row)
  PROVE  CountsAddUp(row)
<1> DEFINE n == Len(row)
           Fact(e) == facts_of(e, "service")
           Id(e) == row_id(e, "service")
           ids == row_ids(row, "service")
           Child(id) == [facts |-> row_facts(row, id, "service"),
                         occurrences |-> Len(row_instances(row, id, "service"))]
           children == child_services(row)
           Part(c) == {i \in DOMAIN row : Fact(row[i]) = c.facts}
<1>1. n \in Nat /\ DOMAIN row = 1..n /\ IsFiniteSet(1..n) /\ Cardinality(1..n) = n
  <2>1. n \in Nat /\ DOMAIN row = 1..n
    BY DEF IsASequence
  <2> HIDE DEF n
  <2>2. IsFiniteSet(1..n) /\ Cardinality(1..n) = n
    BY <2>1, FS_Interval
  <2> QED BY <2>1, <2>2
<1>2. ids = {Id(row[i]) : i \in 1..n} /\ children = {Child(id) : id \in ids}
  BY <1>1 DEF row_ids, child_services, ToSet
<1>3. "service" \in BROWSE_MODES
  BY DEF BROWSE_MODES
<1>4. \A i, j \in 1..n : Id(row[i]) = Id(row[j]) <=> Fact(row[i]) = Fact(row[j])
  BY <1>3, IdentityIsTheFacts
<1>5. ASSUME NEW i \in 1..n
      PROVE  /\ Child(Id(row[i])).facts = Fact(row[i])
             /\ Child(Id(row[i])).occurrences = Cardinality(Part(Child(Id(row[i]))))
  <2> DEFINE id == Id(row[i])
             of == OfIdentity(row, id, "service")
             instances == row_instances(row, id, "service")
  <2>1. id \in ids
    BY <1>2
  <2>2. 1 \in DOMAIN instances /\ \A e \in ToSet(instances) : Id(e) = id
    BY <2>1, RowsAreOfTheirIdentity
  <2>3. Len(instances) = Cardinality(of)
    BY RowInstances
  <2>4. Child(id).facts = Fact(instances[1]) /\ Child(id).occurrences = Len(instances)
    BY DEF row_facts
  <2>5. Id(instances[1]) = id
    <3> HIDE DEF id, instances, Id
    <3> QED BY <2>2 DEF ToSet
  <2>6. Fact(instances[1]) = Fact(row[i])
    BY <2>5, <1>3, IdentityIsTheFacts
  <2>7. of = Part(Child(id))
    <3>1. \A k \in DOMAIN row : Id(row[k]) = id <=> Fact(row[k]) = Child(id).facts
      <4> HIDE DEF Id, Fact, Child, instances
      <4> QED BY <1>1, <1>4, <2>4, <2>6 DEF id
    <3>2. of = {k \in DOMAIN row : Id(row[k]) = id}
      BY DEF OfIdentity
    <3> HIDE DEF Id, Fact, Child, id, of
    <3> QED BY <3>1, <3>2
  <2> QED BY <2>3, <2>4, <2>6, <2>7
<1> HIDE DEF n, Fact, Id, ids, Child, children
<1>6. IsFiniteSet(ids) /\ Cardinality(children) = Cardinality(ids) /\ IsFiniteSet(children)
  <2> DEFINE child == [id \in ids |-> Child(id)]
             id_of == [i \in 1..n |-> Id(row[i])]
  <2>1. id_of \in Surjection(1..n, ids)
    BY <1>2 DEF Surjection
  <2>2. IsFiniteSet(ids)
    BY <1>1, <2>1, FS_Surjection
  <2>3. ASSUME NEW p \in ids, NEW q \in ids, Child(p) = Child(q) PROVE p = q
    <3>1. PICK i \in 1..n, j \in 1..n : p = Id(row[i]) /\ q = Id(row[j])
      BY <1>2
    <3>2. Fact(row[i]) = Fact(row[j])
      BY <1>5, <2>3, <3>1
    <3> QED BY <1>4, <3>1, <3>2
  <2>4. child \in Surjection(ids, children)
    BY <1>2 DEF Surjection
  <2>5. child \in Injection(ids, children)
    BY <1>2, <2>3 DEF Injection, IsInjective
  <2> HIDE DEF child
  <2> QED BY <2>2, <2>4, <2>5, FS_Surjection
<1>7. SumFunction([c \in children |-> c.occurrences]) = n
  <2> DEFINE part == [c \in children |-> Part(c)]
  <2>1. \A c \in children : c.occurrences = Cardinality(part[c])
    BY <1>2, <1>5
  <2>2. \A c \in children : part[c] \subseteq 1..n
    BY <1>1
  <2>3. \A c, d \in children : c # d => part[c] \cap part[d] = {}
    <3>1. ASSUME NEW c \in children, NEW d \in children, c.facts = d.facts PROVE c = d
      <4>1. PICK i \in 1..n, j \in 1..n : c = Child(Id(row[i])) /\ d = Child(Id(row[j]))
        BY <1>2
      <4>2. Id(row[i]) = Id(row[j])
        BY <1>4, <1>5, <3>1, <4>1
      <4> QED BY <4>1, <4>2
    <3> QED BY <3>1
  <2>4. UNION {part[c] : c \in children} = 1..n
    <3>1. \A i \in 1..n : \E c \in children : i \in part[c]
      BY <1>1, <1>2, <1>5
    <3> HIDE DEF part
    <3> QED BY <2>2, <3>1
  <2>5. [c \in children |-> c.occurrences] = [c \in children |-> Cardinality(part[c])]
    BY <2>1
  <2> HIDE DEF part
  <2>6. SumFunction([c \in children |-> Cardinality(part[c])]) = Cardinality(UNION {part[c] : c \in children})
    BY ONLY <1>1, <1>6, <2>2, <2>3, SumOfParts
  <2> QED BY <1>1, <2>4, <2>5, <2>6
<1>8. resolved_host_count(row) <= Cardinality(ids)
  <2> DEFINE hosts == {row[i].hostname : i \in 1..n}
             host_of == [id \in ids |-> id[3]]
  <2>1. \A i \in 1..n : Id(row[i])[3] = row[i].hostname
    BY DEF Id, row_id
  <2>2. host_of \in Surjection(ids, hosts)
    BY <1>2, <2>1 DEF Surjection
  <2>3. IsFiniteSet(hosts) /\ Cardinality(hosts) <= Cardinality(ids)
    BY <1>6, <2>2, FS_Surjection
  <2>4. {e.hostname : e \in ToSet(row)} = hosts
    BY <1>1 DEF ToSet
  <2> HIDE DEF hosts
  <2>5. /\ Cardinality(hosts \ {NotResolved}) <= Cardinality(hosts)
        /\ Cardinality(hosts) \in Nat /\ Cardinality(hosts \ {NotResolved}) \in Nat /\ Cardinality(ids) \in Nat
    BY <1>6, <2>3, FS_Subset, FS_CardinalityType
  <2>6. resolved_host_count(row) = Cardinality(hosts \ {NotResolved})
    BY <2>4 DEF resolved_host_count
  <2> QED BY <2>3, <2>5, <2>6
<1>9. /\ logical_service_count(row) = Cardinality(ids) /\ occurrence_count(row) = n
      /\ children = child_services(row)
  BY DEF logical_service_count, occurrence_count, ids, n, children
<1> QED BY <1>6, <1>7, <1>8, <1>9 DEF CountsAddUp

\* The TXT data of a row after each of its occurrences.
IsMerging(f, row, n) == f = [i \in 0..n |-> IF i = 0 THEN <<>> ELSE merge(f[i - 1], row[i])]

LEMMA MergingExists ==
  ASSUME NEW row, NEW n \in Nat
  PROVE  \E f : IsMerging(f, row, n)
<1> DEFINE T == {m \in Nat : ~\E f : IsMerging(f, row, m)}
<1> SUFFICES ASSUME T # {} PROVE FALSE
  OBVIOUS
<1>1. PICK m \in T : \A k \in T : ~(k < m)
  BY Least
<1>2. m \in Nat /\ ~\E f : IsMerging(f, row, m)
  BY <1>1
<1>3. CASE m = 0
  <2> DEFINE f == [i \in 0..0 |-> <<>>]
  <2>1. f = [i \in 0..0 |-> IF i = 0 THEN <<>> ELSE merge(f[i - 1], row[i])]
    OBVIOUS
  <2> QED BY <2>1, <1>2, <1>3 DEF IsMerging
<1>4. CASE m # 0
  <2>1. m - 1 \in Nat /\ m - 1 < m
    BY <1>2, <1>4
  <2>2. PICK g : IsMerging(g, row, m - 1)
    BY <2>1, <1>1
  <2> DEFINE f == [i \in 0..m |-> IF i = 0 THEN <<>> ELSE merge(g[i - 1], row[i])]
             e == [i \in 0..m - 1 |-> IF i = 0 THEN <<>> ELSE merge(g[i - 1], row[i])]
  <2>3. g = e
    BY <2>2 DEF IsMerging
  <2>4. \A i \in 0..m - 1 : f[i] = e[i]
    BY <2>1
  <2>5. \A i \in 0..m - 1 : f[i] = g[i]
    BY <2>3, <2>4
  <2>6. \A i \in 0..m : i = 0 \/ i - 1 \in 0..m - 1
    BY <2>1
  <2> HIDE DEF e
  <2>7. \A i \in 0..m : f[i] = IF i = 0 THEN <<>> ELSE merge(f[i - 1], row[i])
    BY <2>5, <2>6
  <2>8. f = [i \in 0..m |-> f[i]]
    OBVIOUS
  <2> HIDE DEF f
  <2>9. f = [i \in 0..m |-> IF i = 0 THEN <<>> ELSE merge(f[i - 1], row[i])]
    BY <2>7, <2>8
  <2> QED BY <2>9, <1>2 DEF IsMerging
<1> QED BY <1>3, <1>4

(* What is merged of the first n occurrences: the keys any of them has,    *)
(* each with the value of all that have it or as mixed where two differ.   *)
Has(row, k, key) == key \in DOMAIN row[k].txt

Differ(row, n, key) ==
  \E j, k \in 1..n : Has(row, j, key) /\ Has(row, k, key) /\ row[j].txt[key] # row[k].txt[key]

AgreeOn(row, n, key, value) ==
  /\ \E k \in 1..n : Has(row, k, key) /\ row[k].txt[key] = value
  /\ \A k \in 1..n : Has(row, k, key) => row[k].txt[key] = value

AreMerged(merged, row, n) ==
  /\ \A key : key \in DOMAIN merged <=> \E k \in 1..n : Has(row, k, key)
  /\ \A key \in DOMAIN merged :
       \/ merged[key] = Mixed /\ Differ(row, n, key)
       \/ \E value : merged[key] = Shared(value) /\ AgreeOn(row, n, key, value)

LEMMA SharedIsNotMixed ==
  /\ \A v : Shared(v) # Mixed
  /\ \A v, w : Shared(v) = Shared(w) => v = w
<1>1. \A v : Shared(v).is = "shared" /\ Shared(v).value = v
  BY DEF Shared
<1>2. Mixed.is = "mixed"
  BY DEF Mixed
<1> QED BY <1>1, <1>2

LEMMA MergeOneMore ==
  ASSUME NEW row, NEW n \in Nat, NEW merged, AreMerged(merged, row, n)
  PROVE  AreMerged(merge(merged, row[n + 1]), row, n + 1)
<1> DEFINE last == row[n + 1]
           more == merge(merged, last)
<1>1. \A key : key \in DOMAIN last.txt <=> Has(row, n + 1, key)
  BY DEF Has
<1>2. DOMAIN more = DOMAIN merged \cup DOMAIN last.txt
      /\ \A key \in DOMAIN more : more[key] =
           CASE key \notin DOMAIN merged -> Shared(last.txt[key])
             [] key \in DOMAIN merged /\ key \notin DOMAIN last.txt -> merged[key]
             [] OTHER -> IF merged[key] = Shared(last.txt[key]) THEN merged[key] ELSE Mixed
  BY DEF merge
<1>3. /\ \A k \in 1..n + 1 : k = n + 1 \/ k \in 1..n
      /\ \A k \in 1..n : k \in 1..n + 1
      /\ n + 1 \in 1..n + 1
  OBVIOUS
<1>4. \A key : key \in DOMAIN merged <=> \E k \in 1..n : Has(row, k, key)
  BY DEF AreMerged
<1> HIDE DEF more
<1>5. \A key : key \in DOMAIN more <=> \E k \in 1..n + 1 : Has(row, k, key)
  BY <1>1, <1>2, <1>3, <1>4
<1>6. ASSUME NEW key \in DOMAIN more
      PROVE  \/ more[key] = Mixed /\ Differ(row, n + 1, key)
             \/ \E value : more[key] = Shared(value) /\ AgreeOn(row, n + 1, key, value)
  <2>1. CASE key \notin DOMAIN merged
    <3>1. more[key] = Shared(last.txt[key]) /\ Has(row, n + 1, key)
      BY <1>1, <1>2, <1>6, <2>1
    <3>2. \A k \in 1..n + 1 : Has(row, k, key) => k = n + 1
      BY <1>3, <1>4, <2>1
    <3>3. AgreeOn(row, n + 1, key, last.txt[key])
      BY <1>3, <3>1, <3>2 DEF AgreeOn
    <3> QED BY <3>1, <3>3
  <2>2. CASE key \in DOMAIN merged /\ key \notin DOMAIN last.txt
    <3>1. more[key] = merged[key]
      BY <1>2, <1>6, <2>2
    <3>2. \A k \in 1..n + 1 : Has(row, k, key) => k \in 1..n
      BY <1>1, <1>3, <2>2
    <3>3. Differ(row, n, key) => Differ(row, n + 1, key)
      BY <1>3 DEF Differ
    <3>4. \A value : AgreeOn(row, n, key, value) => AgreeOn(row, n + 1, key, value)
      BY <1>3, <3>2 DEF AgreeOn
    <3> QED BY <2>2, <3>1, <3>3, <3>4 DEF AreMerged
  <2>3. CASE key \in DOMAIN merged /\ key \in DOMAIN last.txt
    <3>1. more[key] = IF merged[key] = Shared(last.txt[key]) THEN merged[key] ELSE Mixed
      BY <1>2, <1>6, <2>3
    <3>2. Has(row, n + 1, key)
      BY <1>1, <2>3
    <3>3. Differ(row, n, key) => Differ(row, n + 1, key)
      BY <1>3 DEF Differ
    <3>4. ASSUME NEW value, merged[key] = Shared(value), AgreeOn(row, n, key, value)
          PROVE  \/ more[key] = Mixed /\ Differ(row, n + 1, key)
                 \/ more[key] = Shared(value) /\ AgreeOn(row, n + 1, key, value)
      <4>1. CASE value = last.txt[key]
        BY <1>3, <3>1, <3>4, <4>1 DEF AgreeOn
      <4>2. CASE value # last.txt[key]
        <5>1. Differ(row, n + 1, key)
          BY <1>3, <3>2, <3>4, <4>2 DEF AgreeOn, Differ
        <5> QED BY <3>1, <3>4, <4>2, <5>1, SharedIsNotMixed
      <4> QED BY <4>1, <4>2
    <3> QED BY <2>3, <3>1, <3>3, <3>4, SharedIsNotMixed DEF AreMerged
  <2> QED BY <2>1, <2>2, <2>3
<1>7. AreMerged(more, row, n + 1)
  BY <1>5, <1>6 DEF AreMerged
<1> QED BY <1>7 DEF more

LEMMA MergedTxt ==
  ASSUME NEW row, IsASequence(row)
  PROVE  AreMerged(merged_txt(row), row, Len(row))
<1> DEFINE n == Len(row)
           after == CHOOSE f : f = [i \in 0..n |-> IF i = 0 THEN <<>> ELSE merge(f[i - 1], row[i])]
<1>1. n \in Nat
  BY DEF IsASequence
<1> HIDE DEF n
<1>2. IsMerging(after, row, n)
  BY <1>1, MergingExists DEF IsMerging
<1>3. merged_txt(row) = after[n]
  BY Zenon DEF merged_txt, n
<1> HIDE DEF after
<1>4. \A i \in 0..n : after[i] = IF i = 0 THEN <<>> ELSE merge(after[i - 1], row[i])
  BY <1>2, Zenon DEF IsMerging
<1> DEFINE T == {i \in 0..n : ~AreMerged(after[i], row, i)}
<1>5. T = {}
  <2> SUFFICES ASSUME T # {} PROVE FALSE
    OBVIOUS
  <2>1. T \subseteq Nat
    OBVIOUS
  <2>2. PICK i \in T : \A k \in T : ~(k < i)
    BY <2>1, Least
  <2>3. i \in 0..n /\ ~AreMerged(after[i], row, i)
    BY <2>2
  <2>4. AreMerged(<<>>, row, 0)
    BY DEF AreMerged
  <2>5. i # 0
    BY <1>4, <2>3, <2>4
  <2>6. i - 1 \in 0..n /\ i - 1 < i /\ i - 1 \in Nat /\ i - 1 + 1 = i
    BY <1>1, <2>3, <2>5
  <2>7. AreMerged(after[i - 1], row, i - 1)
    BY <2>2, <2>6
  <2>8. AreMerged(merge(after[i - 1], row[i - 1 + 1]), row, i - 1 + 1)
    BY ONLY <2>6, <2>7, MergeOneMore
  <2>9. after[i] = merge(after[i - 1], row[i])
    BY <1>4, <2>3, <2>5
  <2> QED BY <2>3, <2>6, <2>8, <2>9
<1>6. n \in 0..n
  BY <1>1
<1> QED BY <1>3, <1>5, <1>6 DEF n

LEMMA TxtHolds ==
  ASSUME NEW row, IsASequence(row)
  PROVE  TxtHoldsOf(row)
<1> DEFINE n == Len(row)
           merged == merged_txt(row)
           all == ToSet(row)
           everywhere(key) == \A e \in all : key \in DOMAIN e.txt
<1>1. n \in Nat /\ DOMAIN row = 1..n /\ all = {row[k] : k \in 1..n}
  BY DEF IsASequence, ToSet
<1>2. AreMerged(merged, row, n)
  BY MergedTxt
<1>3. txt(row) = [key \in DOMAIN merged |-> IF everywhere(key) THEN merged[key] ELSE Mixed]
  BY DEF txt
<1> HIDE DEF n, merged, all
<1>4. \A key : everywhere(key) <=> \A k \in 1..n : Has(row, k, key)
  BY <1>1 DEF Has
<1> HIDE DEF everywhere
<1>5. DOMAIN txt(row) = UNION {DOMAIN e.txt : e \in all}
  <2>1. \A key : key \in DOMAIN merged <=> \E e \in all : key \in DOMAIN e.txt
    BY <1>1, <1>2 DEF AreMerged, Has
  <2> QED BY <1>3, <2>1
<1>6. ASSUME NEW key \in DOMAIN txt(row), NEW value
      PROVE  txt_row(txt(row)[key]) = [text |-> value] <=> \A e \in all : key \in DOMAIN e.txt /\ e.txt[key] = value
  <2>1. key \in DOMAIN merged /\ txt(row)[key] = IF everywhere(key) THEN merged[key] ELSE Mixed
    BY <1>3, <1>6
  <2>2. txt_row(Mixed) # [text |-> value]
    <3>1. DOMAIN txt_row(Mixed) = {"notice"}
      BY DEF txt_row
    <3>2. DOMAIN [text |-> value] = {"text"}
      OBVIOUS
    <3>3. "notice" # "text"
      OBVIOUS
    <3> QED BY <3>1, <3>2, <3>3
  <2>3. \A v : txt_row(Shared(v)) = [text |-> v]
    BY SharedIsNotMixed DEF txt_row, Shared
  <2>4. \A v : [text |-> v].text = v
    OBVIOUS
  <2>5. (\A e \in all : key \in DOMAIN e.txt /\ e.txt[key] = value)
          <=> \A k \in 1..n : Has(row, k, key) /\ row[k].txt[key] = value
    BY <1>1 DEF Has
  <2>6. CASE ~everywhere(key)
    BY <1>4, <2>1, <2>2, <2>5, <2>6
  <2>7. CASE everywhere(key) /\ merged[key] = Mixed /\ Differ(row, n, key)
    BY <2>1, <2>2, <2>5, <2>7 DEF Differ
  <2>8. ASSUME everywhere(key), NEW v, merged[key] = Shared(v), AgreeOn(row, n, key, v)
        PROVE  txt_row(txt(row)[key]) = [text |-> value]
                 <=> \A e \in all : key \in DOMAIN e.txt /\ e.txt[key] = value
    <3>1. txt_row(txt(row)[key]) = [text |-> value] <=> v = value
      <4>1. txt_row(txt(row)[key]) = [text |-> v]
        BY <2>1, <2>3, <2>8
      <4> QED BY <4>1, <2>4
    <3>2. v = value <=> \A k \in 1..n : Has(row, k, key) /\ row[k].txt[key] = value
      BY <1>4, <2>8 DEF AgreeOn
    <3> QED BY <2>5, <3>1, <3>2
  <2> QED BY <1>2, <2>1, <2>6, <2>7, <2>8 DEF AreMerged
<1> QED BY <1>5, <1>6 DEF TxtHoldsOf, all

-----------------------------------------------------------------------------
(* A TXT key keeps the first value that was reported for it.               *)

Advertises(pairs, i, key) == pairs[i].key \in DOMAIN LowerCase /\ LowerCase[pairs[i].key] = key

IsFirstFor(pairs, i, key) == Advertises(pairs, i, key) /\ \A j \in 1 .. i - 1 : ~Advertises(pairs, j, key)

\* What is known after the first n pairs.
Tells(map, pairs, n) ==
  \A key :
    /\ key \in map.seen <=> \E i \in 1..n : Advertises(pairs, i, key)
    /\ key \in DOMAIN map.values <=> \E i \in 1..n : IsFirstFor(pairs, i, key) /\ pairs[i].value # Undecoded
    /\ \A i \in 1..n : IsFirstFor(pairs, i, key) /\ pairs[i].value # Undecoded => map.values[key] = pairs[i].value

LEMMA ObserveOneMore ==
  ASSUME NEW map, NEW pairs, NEW n \in Nat \ {0}, Tells(map, pairs, n - 1)
  PROVE  Tells(observe(map, pairs[n]), pairs, n)
<1> DEFINE p == pairs[n]
           low == LowerCase[p.key]
           next == observe(map, p)
           Adv(i, key) == Advertises(pairs, i, key)
           First(i, key) == IsFirstFor(pairs, i, key)
           Text(i) == pairs[i].value # Undecoded
           before == 1 .. n - 1
<1>1. 1..n = before \cup {n} /\ n \notin before
  OBVIOUS
<1>2. \A key : First(n, key) <=> Adv(n, key) /\ \A j \in before : ~Adv(j, key)
  BY DEF IsFirstFor
<1>3. \A key : Adv(n, key) <=> p.key \in DOMAIN LowerCase /\ key = low
  BY DEF Advertises
<1>4. \A key :
        /\ key \in map.seen <=> \E i \in before : Adv(i, key)
        /\ key \in DOMAIN map.values <=> \E i \in before : First(i, key) /\ Text(i)
        /\ \A i \in before : First(i, key) /\ Text(i) => map.values[key] = pairs[i].value
  BY DEF Tells
<1>5. \A i \in before : \A key : First(i, key) => Adv(i, key)
  BY DEF IsFirstFor
<1>6. next = IF p.key \notin DOMAIN LowerCase \/ low \in map.seen
               THEN map
               ELSE [seen |-> map.seen \cup {low},
                     values |-> IF p.value = Undecoded THEN map.values ELSE insert(map.values, low, p.value)]
  BY DEF observe
<1>7. Text(n) <=> p.value # Undecoded
  OBVIOUS
<1>8. (\A key : /\ key \in next.seen <=> \E i \in before \cup {n} : Adv(i, key)
                /\ key \in DOMAIN next.values <=> \E i \in before \cup {n} : First(i, key) /\ Text(i)
                /\ \A i \in before \cup {n} : First(i, key) /\ Text(i) => next.values[key] = pairs[i].value)
        => Tells(next, pairs, n)
  BY <1>1 DEF Tells
<1>9. pairs[n].value = p.value
  OBVIOUS
<1> HIDE DEF p, low, next, Adv, First, Text, before
<1> SUFFICES Tells(next, pairs, n)
  BY DEF next, p
<1>10. CASE p.key \notin DOMAIN LowerCase \/ low \in map.seen
  <2>1. next = map
    BY <1>6, <1>10
  <2>2. \A key : ~First(n, key)
    BY <1>2, <1>3, <1>4, <1>10
  <2>3. \A key : Adv(n, key) => \E i \in before : Adv(i, key)
    BY <1>3, <1>4, <1>10
  <2> QED BY <1>4, <1>8, <2>1, <2>2, <2>3
<1>11. CASE ~(p.key \notin DOMAIN LowerCase \/ low \in map.seen)
  <2>1. next.seen = map.seen \cup {low}
        /\ next.values = IF p.value = Undecoded THEN map.values ELSE insert(map.values, low, p.value)
    BY <1>6, <1>11
  <2>2. \A key : First(n, key) <=> key = low
    BY <1>2, <1>3, <1>4, <1>11
  <2>3. \A i \in before : ~First(i, low)
    BY <1>4, <1>5, <1>11
  <2>4. \A key : key \in next.seen <=> \E i \in before \cup {n} : Adv(i, key)
    BY <1>3, <1>4, <1>11, <2>1
  <2>5. CASE p.value = Undecoded
    <3>1. next.values = map.values /\ ~Text(n)
      BY <1>7, <2>1, <2>5
    <3> QED BY <1>4, <1>8, <2>4, <3>1
  <2>6. CASE p.value # Undecoded
    <3>1. Text(n)
      BY <1>7, <2>6
    <3>2. DOMAIN next.values = {low} \cup DOMAIN map.values
          /\ \A key \in DOMAIN next.values : next.values[key] = IF key = low THEN p.value ELSE map.values[key]
      BY <2>1, <2>6 DEF insert
    <3>3. \A key : key \in DOMAIN next.values <=> \E i \in before \cup {n} : First(i, key) /\ Text(i)
      BY <1>4, <2>2, <3>1, <3>2
    <3>4. \A key : \A i \in before \cup {n} : First(i, key) /\ Text(i) => next.values[key] = pairs[i].value
      <4> SUFFICES ASSUME NEW key, NEW i \in before \cup {n}, First(i, key), Text(i)
                   PROVE  next.values[key] = pairs[i].value
        OBVIOUS
      <4>1. CASE i = n
        BY <1>9, <2>2, <3>2, <4>1
      <4>2. CASE i \in before
        <5>1. key # low /\ key \in DOMAIN map.values /\ map.values[key] = pairs[i].value
          BY <1>4, <2>3, <4>2
        <5> QED BY <3>2, <5>1
      <4> QED BY <4>1, <4>2
    <3> QED BY <1>8, <2>4, <3>3, <3>4
  <2> QED BY <2>5, <2>6
<1> QED BY <1>10, <1>11

LEMMA FirstIsKept ==
  ASSUME NEW pairs, IsASequence(pairs)
  PROVE  KeepsTheFirst(pairs)
<1> DEFINE n == Len(pairs)
           none == [seen |-> {}, values |-> <<>>]
           after == CHOOSE f : f = [i \in 0..n |-> IF i = 0 THEN none ELSE observe(f[i - 1], pairs[i])]
           values == txt_values(pairs)
           Decoded(key) == {i \in 1..n : IsFirstFor(pairs, i, key) /\ pairs[i].value # Undecoded}
<1>1. n \in Nat /\ DOMAIN pairs = 1..n
  BY DEF IsASequence
<1> HIDE DEF n
<1>2. IsObserved(after, pairs, n)
  BY <1>1, ObservedExists DEF IsObserved
<1>3. values = after[n].values
  BY Zenon DEF txt_values, n
<1>4. Tells(none, pairs, 0)
  BY DEF Tells
<1> HIDE DEF after, values
<1>5. \A i \in 0..n : after[i] = IF i = 0 THEN none ELSE observe(after[i - 1], pairs[i])
  BY <1>2, Zenon DEF IsObserved
<1> HIDE DEF none
<1> DEFINE T == {i \in 0..n : ~Tells(after[i], pairs, i)}
<1>6. T = {}
  <2> SUFFICES ASSUME T # {} PROVE FALSE
    OBVIOUS
  <2>1. T \subseteq Nat
    OBVIOUS
  <2>2. PICK i \in T : \A k \in T : ~(k < i)
    BY <2>1, Least
  <2>3. i \in 0..n /\ ~Tells(after[i], pairs, i)
    BY <2>2
  <2>4. i # 0
    BY <1>4, <1>5, <2>3
  <2>5. i - 1 \in 0..n /\ i - 1 < i /\ i \in Nat \ {0}
    BY <1>1, <2>3, <2>4
  <2>6. Tells(after[i - 1], pairs, i - 1)
    BY <2>2, <2>5
  <2>7. after[i] = observe(after[i - 1], pairs[i])
    BY <1>5, <2>3, <2>4
  <2> QED BY <2>3, <2>5, <2>6, <2>7, ObserveOneMore
<1>7. Tells(after[n], pairs, n)
  BY <1>1, <1>6
<1>8. \A key : /\ key \in DOMAIN values <=> Decoded(key) # {}
               /\ \A i \in Decoded(key) : values[key] = pairs[i].value
  BY <1>3, <1>7 DEF Tells
<1>9. \A key : \A i, j \in Decoded(key) : i = j
  <2> SUFFICES ASSUME NEW key, NEW i \in Decoded(key), NEW j \in Decoded(key), i < j PROVE FALSE
    BY <1>1
  <2> QED BY <1>1 DEF IsFirstFor
<1>10. \A key : FirstAdvertised(pairs, key) = {pairs[i].value : i \in Decoded(key)}
  <2> SUFFICES ASSUME NEW key
               PROVE  FirstAdvertised(pairs, key) = {pairs[i].value : i \in Decoded(key)}
    OBVIOUS
  <2> DEFINE of == {i \in DOMAIN pairs : pairs[i].key \in DOMAIN LowerCase /\ LowerCase[pairs[i].key] = key}
             firsts == {j \in of : \A k \in of : j <= k}
  <2>1. of = {i \in 1..n : Advertises(pairs, i, key)}
    BY <1>1 DEF Advertises
  <2>2. FirstAdvertised(pairs, key) = {pairs[i].value : i \in firsts} \ {Undecoded}
    BY DEF FirstAdvertised
  <2> HIDE DEF of
  <2>3. \A i : i \in firsts <=> i \in 1..n /\ IsFirstFor(pairs, i, key)
    BY <1>1, <2>1 DEF IsFirstFor
  <2> HIDE DEF firsts
  <2> QED BY <2>2, <2>3
<1> HIDE DEF Decoded
<1>11. \A key : FirstAdvertised(pairs, key) = {values[k] : k \in DOMAIN values \cap {key}}
  <2> SUFFICES ASSUME NEW key
               PROVE  FirstAdvertised(pairs, key) = {values[k] : k \in DOMAIN values \cap {key}}
    OBVIOUS
  <2>1. CASE Decoded(key) = {}
    BY <1>8, <1>10, <2>1
  <2>2. ASSUME NEW i \in Decoded(key)
        PROVE  FirstAdvertised(pairs, key) = {values[k] : k \in DOMAIN values \cap {key}}
    <3>1. Decoded(key) = {i}
      BY <1>9, <2>2
    <3>2. FirstAdvertised(pairs, key) = {pairs[i].value}
      BY <1>10, <3>1
    <3>3. key \in DOMAIN values /\ values[key] = pairs[i].value
      BY <1>8, <2>2
    <3> QED BY <3>2, <3>3
  <2> QED BY <2>1, <2>2
<1> QED BY <1>11 DEF KeepsTheFirst, values

(* What a row says is true of every service it collects, and of the first  *)
(* value each of them advertised (entry.rs:677, entry.rs:810, txt.rs:39),  *)
(* whatever the backend reports, in every mode of browsing.                *)
THEOREM RowsTellTheTruthHolds == RuleSpec => []RowsTellTheTruth
<1>1. SessionInv => RowsTellTheTruth
  <2> SUFFICES ASSUME SessionInv PROVE RowsTellTheTruth
    OBVIOUS
  <2>1. IsASequence(group) /\ live \subseteq DOMAIN Reports
    BY GroupResolves DEF SessionInv
  <2>2. ASSUME NEW mode \in BROWSE_MODES, NEW id \in row_ids(group, mode)
        PROVE  /\ FactsHoldOf(row_instances(group, id, mode), row_facts(group, id, mode), mode)
               /\ TxtHoldsOf(row_instances(group, id, mode))
               /\ CountsAddUp(row_instances(group, id, mode))
    <3>1. IsASequence(row_instances(group, id, mode))
      BY <2>1, RowsAreOfTheirIdentity
    <3> QED BY <2>1, <3>1, FactsHold, TxtHolds, CountsHold
  <2>3. ASSUME NEW i \in live
        PROVE  KeepsTheFirst(Reports[i].txt)
    <3>1. Reports[i] \in ToSet(Reports)
      BY <2>1 DEF ToSet
    <3>2. IsASequence(Reports[i].txt)
      BY <3>1, ReportAssumption, SequenceOf DEF IsSequence
    <3> QED BY <3>2, FirstIsKept
  <2> QED BY <2>2, <2>3 DEF RowsTellTheTruth
<1> QED
  BY <1>1, SessionInitial, SessionStep, PTL DEF RuleSpec
=============================================================================
