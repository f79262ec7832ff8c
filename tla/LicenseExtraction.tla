-------------------------- MODULE LicenseExtraction --------------------------
(* Reading a license PDF with a language model: the request that waits for  *)
(* the model under a timer (BedrockLicenseDocumentExtractor), and what is   *)
(* made of an answer (license-extraction.schema.ts).                        *)
(*                                                                          *)
(* A text is a sequence of words.  The printed number of an item is the     *)
(* sequence of its parts, <<2, 5, 1>> for "2.5.1"; an item without a number *)
(* has the empty sequence.                                                  *)
EXTENDS Integers, Sequences, FiniteSets

CONSTANTS
    Words,        \* what texts are made of
    Headings,     \* descriptors of sections
    Items,        \* entries the model may list
    Answers,      \* what the model may answer: a record of data and sections
    MaxWords,     \* the longest description (MAX_DESCRIPTION_LENGTH)
    MaxConditions,
    None          \* null, or a field that does not validate

(* An entry once its fields were read: one that does not validate is None,  *)
(* or empty, and takes nothing else with it.                                *)
ParsedItem(item) ==
    /\ item.number \in Seq(Nat)
    /\ item.text \in Seq(Words)
    /\ item.introduces \in BOOLEAN

(* sectionSchema: what is left of a section once it was read. *)
Section == [descriptor : Headings, items : Seq(Items)]

(* The shape of an answer that is asked of the model; it may be any such    *)
(* answer.                                                                  *)
Message(message) == message.sections \in Seq(Section)

ASSUME AnswersAssumption ==
    /\ \A item \in Items : ParsedItem(item)
    /\ \A message \in Answers : Message(message)
    /\ MaxWords \in Nat /\ MaxConditions \in Nat

VARIABLES
    hasKey,       \* AWS_BEARER_TOKEN_BEDROCK is configured
    isPdf,        \* the file starts with the PDF signature
    stage,        \* how far the request has come
    timer,        \* "off", "running" or "fired"
    answer,       \* the complete message of the model
    response      \* what the client is told

extractionVars == <<hasKey, isPdf, stage, timer, answer, response>>

-----------------------------------------------------------------------------
(* What is made of an answer *)

(* The items of a section, each with the descriptor of the section. *)
Carried(section) ==
    [k \in DOMAIN section.items |->
        [descriptor |-> section.descriptor,
         number |-> section.items[k].number,
         text |-> section.items[k].text,
         introduces |-> section.items[k].introduces,
         type |-> section.items[k].type,
         periodicity |-> section.items[k].periodicity]]

AllItems(sections) ==
    LET upTo[n \in 0..Len(sections)] ==
            IF n = 0 THEN <<>> ELSE upTo[n - 1] \o Carried(sections[n])
    IN  upTo[Len(sections)]

(* An entry without a description is dropped; of a repeated number the      *)
(* first entry is kept.                                                     *)
MutantAccepted(all, k) == all[k].text # <<>>
Accepted(all, k) ==
    /\ all[k].text # <<>>
    /\ \A j \in 1..(k - 1) :
          all[j].text # <<>> /\ all[j].number # <<>> =>
             all[j].number # all[k].number

(* flattenSections *)
Flatten(sections) ==
    LET all == AllItems(sections)
        kept[n \in 0..Len(all)] ==
            IF n = 0 THEN <<>>
            ELSE IF Accepted(all, n) THEN Append(kept[n - 1], all[n])
            ELSE kept[n - 1]
    IN  kept[Len(all)]

(* "2.5.1" -> "2.5"; a number of one part has no parent. *)
MutantParentNumber(number) == SubSeq(number, 1, 1)
ParentNumber(number) == SubSeq(number, 1, Len(number) - 1)

(* The text ends with a colon. *)
Introductory(item) == item.introduces

(* withParentContext: the text of each item, after what the introductory    *)
(* item right above it hands down, if that one came before it.              *)
WithParentContext(items) ==
    LET Handing(k) == {j \in 1..(k - 1) :
                         /\ Introductory(items[j]) /\ items[j].number # <<>>
                         /\ items[j].number = ParentNumber(items[k].number)}
        text[k \in DOMAIN items] ==
            IF Len(items[k].number) < 2 \/ Handing(k) = {} THEN items[k].text
            ELSE text[CHOOSE j \in Handing(k) : TRUE] \o items[k].text
    IN  text

ConditionType(item) ==
    IF item.type # None THEN item.type
    ELSE IF item.periodicity # None THEN "PERIODIC" ELSE None

(* truncate, at the boundary of a word *)
Cut(text) == SubSeq(text, 1, IF Len(text) < MaxWords THEN Len(text) ELSE MaxWords)

(* toSuggestedCondition *)
Suggestion(item, text) ==
    [descriptor |-> item.descriptor,
     text |-> Cut(text),
     type |-> ConditionType(item),
     periodicity |->
        IF ConditionType(item) = "PERIODIC" THEN item.periodicity ELSE None]

(* parseLicenseExtraction, once the items are flat *)
Parse(data, items) ==
    LET texts == WithParentContext(items)
        all == [k \in DOMAIN items |-> Suggestion(items[k], texts[k])]
    IN  [data |-> data,
         conditions |-> SubSeq(all, 1, IF Len(all) < MaxConditions THEN Len(all)
                                       ELSE MaxConditions)]

IsEmpty(extraction) == extraction.conditions = <<>> /\ extraction.data = None

-----------------------------------------------------------------------------
(* The request *)

Unreadable == [status |-> 422]
Unavailable == [status |-> 503]
TimedOut == [status |-> 504]
NoResponse == [status |-> 0]

Respond(from, what) ==
    /\ stage = from /\ stage' = "done"
    /\ response' = what

(* getClient *)
HasClient == hasKey

(* extractJsonObject: there was a JSON object in the text.                  *)
HasJson == answer # None

(* What is not a PDF is refused before the model is asked; without a key    *)
(* there is no model to ask.                                                *)
Start ==
    /\ stage = "received"
    /\ IF ~isPdf THEN Respond("received", Unreadable) /\ UNCHANGED timer
       ELSE IF ~HasClient THEN Respond("received", Unavailable) /\ UNCHANGED timer
       ELSE stage' = "reading" /\ timer' = "running" /\ UNCHANGED response
    /\ UNCHANGED <<hasKey, isPdf, answer>>

(* The timer aborts the stream; the promise is rejected some time later.    *)
MutantTimerFires == FALSE /\ UNCHANGED extractionVars
TimerFires ==
    /\ timer = "running"
    /\ timer' = "fired"
    /\ UNCHANGED <<hasKey, isPdf, stage, answer, response>>

(* The last event of the stream.  Once it has come an abort is too late.    *)
(* None stands for a refusal and for text without a JSON object.            *)
FinalMessage ==
    /\ stage = "reading" /\ timer = "running"
    /\ stage' = "read"
    /\ answer' \in Answers \cup {None}
    /\ UNCHANGED <<hasKey, isPdf, timer, response>>

ClearTimer == timer' = "off"

(* toDomainError: a 400 about the document, or any other failure, unless    *)
(* the timer has fired meanwhile; clearTimeout comes last.                  *)
ReadFails ==
    /\ stage = "reading"
    /\ \E cause \in {Unreadable, Unavailable, TimedOut} :
          Respond("reading", IF timer = "fired" THEN TimedOut ELSE cause)
    /\ ClearTimer
    /\ UNCHANGED <<hasKey, isPdf, answer>>

Finish ==
    /\ stage = "read"
    /\ IF ~HasJson THEN Respond("read", Unreadable)
       ELSE \E items \in {Flatten(answer.sections)} :
            \E extraction \in {Parse(answer.data, items)} :
               Respond("read", IF IsEmpty(extraction) THEN Unreadable
                               ELSE [status |-> 200, extraction |-> extraction])
    /\ ClearTimer
    /\ UNCHANGED <<hasKey, isPdf, answer>>

ExtractionInit ==
    /\ hasKey \in BOOLEAN /\ isPdf \in BOOLEAN
    /\ stage = "received" /\ timer = "off"
    /\ answer = None /\ response = NoResponse

(* The next request; nothing is left of the last one. *)
Again ==
    /\ stage = "done" /\ stage' = "received"
    /\ isPdf' \in BOOLEAN
    /\ answer' = None /\ response' = NoResponse
    /\ UNCHANGED <<hasKey, timer>>

ExtractionNext ==
    Start \/ TimerFires \/ FinalMessage \/ ReadFails \/ Finish \/ Again

(* A timer that was started fires, an aborted stream is rejected, and the   *)
(* process carries on.  That the model ever answers is not assumed.         *)
Fairness ==
    /\ WF_extractionVars(Start) /\ WF_extractionVars(Finish)
    /\ WF_extractionVars(TimerFires)
    /\ WF_extractionVars(timer = "fired" /\ ReadFails)

ExtractionSpec ==
    ExtractionInit /\ [][ExtractionNext]_extractionVars /\ Fairness

-----------------------------------------------------------------------------
(* Properties *)

(* Every request is answered, even if the model never is heard of again.    *)
AlwaysAnswered == stage = "reading" ~> stage = "done"

Suggested == response.extraction.conditions
(* Below the cap no obligation is lost and none is listed twice: there is   *)
(* one suggestion for every number that was read and one for every entry    *)
(* without a number ("Each printed number is one condition").               *)
OneSuggestionPerNumber ==
    stage = "done" /\ response.status = 200 =>
        LET read == AllItems(answer.sections)
            described == {k \in DOMAIN read : read[k].text # <<>>}
            unnumbered == {k \in described : read[k].number = <<>>}
            numbers == {read[k].number : k \in described} \ {<<>>}
            all == Cardinality(unnumbered) + Cardinality(numbers)
        IN  Len(Suggested) = IF all < MaxConditions THEN all ELSE MaxConditions

IsAncestor(m, n) == Len(m) < Len(n) /\ m # <<>> /\ SubSeq(n, 1, Len(m)) = m

(* The texts of the introductory items above items[k], outermost first.     *)
Introductions(items, k) ==
    LET above == {j \in DOMAIN items : Introductory(items[j])
                                         /\ IsAncestor(items[j].number, items[k].number)}
        Level(n) == {items[j].text : j \in {a \in above : Len(items[a].number) = n}}
        upTo[n \in 0..Len(items[k].number)] ==
            IF n = 0 THEN <<>>
            ELSE IF Level(n) = {} THEN upTo[n - 1]
            ELSE upTo[n - 1] \o CHOOSE t \in Level(n) : TRUE
    IN  upTo[Len(items[k].number)]

(* Items come after the items they are under, as they are printed. *)
InOrder(items) ==
    \A j, k \in DOMAIN items : IsAncestor(items[j].number, items[k].number) => j < k

FullText(items, k) == Introductions(items, k) \o items[k].text

(* Where all the levels above an item are introductory, its suggestion      *)
(* starts with the text of each, as far as there is room.                   *)
ContextHandedDown ==
    stage = "done" /\ response.status = 200 =>
        LET items == Flatten(answer.sections)
            Unbroken(k) ==
                \A n \in 1..(Len(items[k].number) - 1) :
                   \E j \in DOMAIN items :
                      /\ Introductory(items[j])
                      /\ items[j].number = SubSeq(items[k].number, 1, n)
        IN  InOrder(items) => \A k \in DOMAIN Suggested :
               Unbroken(k) => Suggested[k].text = Cut(FullText(items, k))

(* The same for every item, whatever is between it and the introductory     *)
(* ones (withParentContext: "Each sub-item therefore starts with the text   *)
(* of every introductory ancestor, in order").                              *)
EveryIntroductoryAncestor ==
    stage = "done" /\ response.status = 200 =>
        LET items == Flatten(answer.sections) IN
        InOrder(items) => \A k \in DOMAIN Suggested :
            Suggested[k].text = Cut(FullText(items, k))
=============================================================================
