------------------------------- MODULE Rulebook --------------------------------
(***************************************************************************)
(* The server rules of the website.  The rulebook is one text document; it *)
(* is edited as text, or section by section, whose form is written out as  *)
(* text first.  Each save is parsed, compared with the version before it,  *)
(* under a lock of the table, and kept as a new version with the numbers   *)
(* of the rules that changed; staff may be sent an essential notice of it. *)
(*                                                                         *)
(* A text is a sequence of lines [is, num, text], by what the parser takes *)
(* them for; the text of a line is a sequence of words.                    *)
(***************************************************************************)
EXTENDS Notices

CONSTANTS
    Editors,        \* saves that run at the same time
    TextForms,      \* documents of the text editor: sequences of lines
    SectionForms,   \* documents of the section editor: [intro, sections]
    MaxVersions

VARIABLES
    versions,       \* rule_versions: [body, changed, form]
    saving,         \* what a save is doing
    labelled        \* notices: the labels in their title, and the version they are about

ruleVars == <<versions, saving, labelled>>

NotSaving == [at |-> "idle"]

RulebookInit == versions = <<>> /\ saving = [e \in Editors |-> NotSaving] /\ labelled = {}

-------------------------------------------------------------------------------
\* Parsing

Line(is, num, text) == [is |-> is, num |-> num, text |-> text]
OnLast(s, Op(_)) == [i \in DOMAIN s |-> IF i = Len(s) THEN Op(s[i]) ELSE s[i]]

\* The rules a line goes to: of the last subsection, else of the last section.
Target(secs) == LET s == Last(secs) IN IF s.subs = <<>> THEN s.rules ELSE Last(s.subs).rules
WithRules(secs, rules) ==
    OnLast(secs, LAMBDA s :
        IF s.subs = <<>> THEN [s EXCEPT !.rules = rules]
        ELSE [s EXCEPT !.subs = OnLast(s.subs, LAMBDA u : [u EXCEPT !.rules = rules])])
WithIntro(secs, words) ==
    OnLast(secs, LAMBDA s :
        IF s.subs = <<>> THEN [s EXCEPT !.intro = s.intro \o words]
        ELSE [s EXCEPT !.subs = OnLast(s.subs, LAMBDA u : [u EXCEPT !.intro = u.intro \o words])])

Rule(num, text) == [num |-> num, text |-> text, points |-> <<>>]
Section(title) == [title |-> title, intro |-> <<>>, rules |-> <<>>, subs |-> <<>>]
Subsection(title) == [title |-> title, intro |-> <<>>, rules |-> <<>>]

AddPoint(r, text) == [r EXCEPT !.points = Append(r.points, [text |-> text, sub |-> <<>>])]
AddSub(r, text) == [r EXCEPT !.points = OnLast(r.points, LAMBDA p : [p EXCEPT !.sub = Append(p.sub, text)])]

\* A line without a number or a mark goes on with the rule above it, or with its last
\* point if the line before was one's.
Continued(r, words, inPoint) ==
    IF ~inPoint \/ r.points = <<>> THEN [r EXCEPT !.text = r.text \o words]
    ELSE [r EXCEPT !.points = OnLast(r.points, LAMBDA p :
             IF p.sub = <<>> THEN [p EXCEPT !.text = p.text \o words]
             ELSE [p EXCEPT !.sub = OnLast(p.sub, LAMBDA x : x \o words)])]

\* What a line may not be where it stands.
Misplaced(d, l) ==
    \/ l.is # "head" /\ d.secs = <<>> /\ l.is # "intro"
    \/ l.is \in {"head", "sub"} /\ l.text = <<>>
    \/ l.is = "intro" /\ d.secs # <<>> /\ Target(d.secs) # <<>>
    \/ l.is \in {"point", "subpoint", "more"} /\ d.secs # <<>> /\ Target(d.secs) = <<>>
    \/ l.is = "rule" /\ l.num \in d.seen

Unparsed == [ok |-> TRUE, intro |-> <<>>, secs |-> <<>>, seen |-> {}, inPoint |-> FALSE]

ParseLine(d, l) ==
    IF ~d.ok \/ Misplaced(d, l) THEN [d EXCEPT !.ok = FALSE]
    ELSE CASE l.is = "intro" /\ d.secs = <<>> -> [d EXCEPT !.intro = Append(d.intro, l.text)]
           [] l.is = "intro" /\ d.secs # <<>> -> [d EXCEPT !.secs = WithIntro(d.secs, l.text)]
           [] l.is = "head"  -> [d EXCEPT !.secs = Append(d.secs, Section(l.text))]
           [] l.is = "sub"   -> [d EXCEPT !.inPoint = FALSE, !.secs =
                  OnLast(d.secs, LAMBDA s : [s EXCEPT !.subs = Append(s.subs, Subsection(l.text))])]
           [] l.is = "rule"  -> [d EXCEPT !.inPoint = FALSE, !.seen = d.seen \cup {l.num},
                  !.secs = WithRules(d.secs, Append(Target(d.secs), Rule(l.num, l.text)))]
           [] l.is = "point" -> [d EXCEPT !.inPoint = TRUE, !.secs =
                  WithRules(d.secs, OnLast(Target(d.secs), LAMBDA r : AddPoint(r, l.text)))]
           [] l.is = "subpoint" -> [d EXCEPT !.inPoint = TRUE, !.secs =
                  WithRules(d.secs, OnLast(Target(d.secs), LAMBDA r :
                      IF r.points = <<>> THEN AddPoint(r, l.text) ELSE AddSub(r, l.text)))]
           [] OTHER -> [d EXCEPT !.secs =
                  WithRules(d.secs, OnLast(Target(d.secs), LAMBDA r : Continued(r, l.text, d.inPoint)))]

\* ParseDoc, line by line; there must be a rule.
Parsed(body) ==
    LET after[i \in 0..Len(body)] == IF i = 0 THEN Unparsed ELSE ParseLine(after[i - 1], body[i])
    IN  after[Len(body)]
ParseDoc(body) == LET d == Parsed(body) IN [d EXCEPT !.ok = d.ok /\ d.seen # {}]

\* The rules of all sections and their subsections.
AllRules(secs) ==
    UNION {ToSet(secs[i].rules) \cup UNION {ToSet(secs[i].subs[j].rules) : j \in DOMAIN secs[i].subs} : i \in DOMAIN secs}

\* content: what a rule says, whatever its number.
Content(r) == <<r.text, r.points>>

\* Changed: the numbers of the rules no rule of the version before says.
Changed(prev, next) ==
    LET old == {Content(r) : r \in AllRules(prev)} IN
    {r.num : r \in {x \in AllRules(next) : Content(x) \notin old}}

-------------------------------------------------------------------------------
\* The section editor

\* Mutant: the second-level points are not written.
RuleLinesShort(num, r) ==
    <<Line("rule", num, r.text)>> \o [p \in DOMAIN r.points |-> Line("point", <<>>, r.points[p].text)]
\* writeRule.
RuleLines(num, r) ==
    <<Line("rule", num, r.text)>> \o
    FlattenSeq([p \in DOMAIN r.points |->
        <<Line("point", <<>>, r.points[p].text)>> \o
        [x \in DOMAIN r.points[p].sub |-> Line("subpoint", <<>>, r.points[p].sub[x])]])

IntroLines(text) == IF text = <<>> THEN <<>> ELSE <<Line("intro", <<>>, text)>>

SubLines(num, u) ==
    <<Line("sub", <<>>, u.title)>> \o IntroLines(u.intro) \o
    FlattenSeq([j \in DOMAIN u.rules |-> RuleLines(Append(num, j), u.rules[j])])

SectionLines(i, s) ==
    <<Line("head", <<>>, s.title)>> \o IntroLines(s.intro) \o
    FlattenSeq([j \in DOMAIN s.rules |-> RuleLines(<<i, j>>, s.rules[j])]) \o
    FlattenSeq([k \in DOMAIN s.subs |-> SubLines(<<i, Len(s.rules) + k>>, s.subs[k])])

\* FormatDoc: numbers are given in outline order; empty paragraphs are dropped.
FormatDoc(doc) ==
    FlattenSeq([i \in DOMAIN doc.intro |-> IntroLines(doc.intro[i])]) \o
    FlattenSeq([i \in DOMAIN doc.sections |-> SectionLines(i, doc.sections[i])])

\* What stands at these places of a sequence, in its order; the texts that say something.
Picked(s, places) ==
    LET upTo[i \in 0..Len(s)] ==
            IF i = 0 THEN <<>> ELSE IF i \in places THEN Append(upTo[i - 1], s[i]) ELSE upTo[i - 1]
    IN  upTo[Len(s)]
NonBlank(texts) == Picked(texts, {i \in DOMAIN texts : texts[i] # <<>>})

\* rulesFromEdit: blank points are dropped, unless they have points below them.
CleanPoints(points) ==
    Picked([p \in DOMAIN points |-> [points[p] EXCEPT !.sub = NonBlank(points[p].sub)]],
           {p \in DOMAIN points : points[p].text # <<>>})
CleanRules(rules) == [r \in DOMAIN rules |-> [rules[r] EXCEPT !.points = CleanPoints(rules[r].points)]]

WellFormed(rules) ==
    \A r \in ToSet(rules) :
        /\ r.text # <<>>
        /\ \A p \in ToSet(r.points) : p.text = <<>> => \A x \in ToSet(p.sub) : x = <<>>

\* bodyFromSections refuses what has a blank title or rule.
Acceptable(doc) ==
    \A s \in ToSet(doc.sections) :
        /\ s.title # <<>> /\ WellFormed(s.rules)
        /\ \A u \in ToSet(s.subs) : u.title # <<>> /\ WellFormed(u.rules)

CleanDoc(doc) ==
    [doc EXCEPT !.sections = [i \in DOMAIN doc.sections |->
        LET s == doc.sections[i] IN
        [s EXCEPT !.rules = CleanRules(s.rules),
                  !.subs = [j \in DOMAIN s.subs |-> [s.subs[j] EXCEPT !.rules = CleanRules(s.subs[j].rules)]]]]]

\* What the section editor sends: editDoc, editSection, editRule and editPoint.
IsSequence(s) == s \in Seq(ToSet(s))
IsPoint(p) == p = [text |-> p.text, sub |-> p.sub] /\ IsSequence(p.sub)
IsRules(rules) ==
    /\ IsSequence(rules)
    /\ \A r \in ToSet(rules) :
          r = [text |-> r.text, points |-> r.points] /\ IsSequence(r.points) /\ \A p \in ToSet(r.points) : IsPoint(p)
IsForm(doc) ==
    /\ doc = [intro |-> doc.intro, sections |-> doc.sections] /\ IsSequence(doc.intro) /\ IsSequence(doc.sections)
    /\ \A s \in ToSet(doc.sections) :
          /\ s = [title |-> s.title, intro |-> s.intro, rules |-> s.rules, subs |-> s.subs]
          /\ IsSequence(s.intro) /\ IsRules(s.rules) /\ IsSequence(s.subs)
          /\ \A u \in ToSet(s.subs) :
                u = [title |-> u.title, intro |-> u.intro, rules |-> u.rules] /\ IsSequence(u.intro) /\ IsRules(u.rules)

\* What can be saved as text.
Bodies == TextForms \cup {FormatDoc(CleanDoc(doc)) : doc \in SectionForms}
ASSUME RulebookAssumption ==
    (\A body \in Bodies : Len(body) \in Nat) /\ \A doc \in SectionForms : IsForm(doc)

-------------------------------------------------------------------------------
\* Saving

Saving(e, next) == saving' = [saving EXCEPT ![e] = next]

SubmitText(e, body, note) ==
    /\ saving[e] = NotSaving /\ ParseDoc(body).ok
    /\ Saving(e, [at |-> "lock", body |-> body, form |-> None, note |-> note])
    /\ UNCHANGED <<versions, labelled, noticeVars>>

SubmitSections(e, doc, note) ==
    /\ saving[e] = NotSaving /\ Acceptable(doc) /\ ParseDoc(FormatDoc(CleanDoc(doc))).ok
    /\ Saving(e, [at |-> "lock", body |-> FormatDoc(CleanDoc(doc)), form |-> CleanDoc(doc), note |-> note])
    /\ UNCHANGED <<versions, labelled, noticeVars>>

Locked == \E e \in Editors : saving[e].at \in {"diff", "publish"}

\* Mutant: the table is not locked.
LockTableNot(e) ==
    /\ saving[e].at = "lock"
    /\ Saving(e, [saving[e] EXCEPT !.at = "diff"])
    /\ UNCHANGED <<versions, labelled, noticeVars>>
\* LOCK TABLE rule_versions: held until the transaction ends.
LockTable(e) ==
    /\ saving[e].at = "lock" /\ ~Locked
    /\ Saving(e, [saving[e] EXCEPT !.at = "diff"])
    /\ UNCHANGED <<versions, labelled, noticeVars>>

\* The live version is read; the same text again is not saved, nor a change without a
\* note of it.
Diff(e) ==
    /\ saving[e].at = "diff"
    /\ LET q == saving[e] IN
       IF versions # <<>> /\ (Last(versions).body = q.body \/ ~q.note) THEN Saving(e, NotSaving)
       ELSE Saving(e, [at |-> "publish", body |-> q.body, form |-> q.form, changed |->
                          IF versions = <<>> THEN {}
                          ELSE Changed(ParseDoc(Last(versions).body).secs, ParseDoc(q.body).secs)])
    /\ UNCHANGED <<versions, labelled, noticeVars>>

\* The insert and the commit.
Publish(e) ==
    /\ saving[e].at = "publish" /\ Len(versions) < MaxVersions
    /\ versions' = Append(versions, [body |-> saving[e].body, changed |-> saving[e].changed, form |-> saving[e].form])
    /\ Saving(e, [at |-> "labels", version |-> Len(versions) + 1])
    /\ UNCHANGED <<labelled, noticeVars>>

\* RulesSave reads the live version again, for the labels of what changed.
ReadLabels(e, essential) ==
    /\ saving[e].at = "labels"
    /\ Saving(e, IF essential THEN [at |-> "notice", version |-> saving[e].version, labels |-> Last(versions).changed]
                 ELSE NotSaving)
    /\ UNCHANGED <<versions, labelled, noticeVars>>

\* The essential notice, in a transaction of its own.
SendNotice(e) ==
    /\ saving[e].at = "notice" /\ Len(notes) + Cardinality(People) <= MaxNotes
    /\ notes' = Broadcast("staff", 0)
    /\ labelled' = labelled \cup {[version |-> saving[e].version, labels |-> saving[e].labels]}
    /\ Saving(e, NotSaving)
    /\ UNCHANGED <<versions, status, signedIn>>

\* A statement fails, and the transaction with it.
SaveFails(e) ==
    /\ saving[e] # NotSaving /\ Saving(e, NotSaving)
    /\ UNCHANGED <<versions, labelled, noticeVars>>

RulebookNext ==
    \E e \in Editors :
        \/ \E note \in BOOLEAN : \/ \E body \in TextForms : SubmitText(e, body, note)
                                \/ \E doc \in SectionForms : SubmitSections(e, doc, note)
        \/ LockTable(e) \/ Diff(e) \/ Publish(e) \/ SendNotice(e) \/ SaveFails(e)
        \/ \E essential \in BOOLEAN : ReadLabels(e, essential)

-------------------------------------------------------------------------------
\* What is highlighted as changed are the rules the version before did not say word for
\* word, for every version, though two editors save at once ("can't both diff against the
\* same previous version", Save).
HighlightsTrue ==
    \A v \in 2..Len(versions) :
        \A r \in AllRules(ParseDoc(versions[v].body).secs) :
            r.num \in versions[v].changed <=>
            \A x \in AllRules(ParseDoc(versions[v - 1].body).secs) : Content(x) # Content(r)

\* What is read of a version made in the section editor is what was in the form, rule for
\* rule, numbered in outline order ("so nothing is silently lost", bodyFromSections).
NothingLost ==
    \A v \in DOMAIN versions : versions[v].form # None =>
        LET doc == versions[v].form
            parsed == ParseDoc(versions[v].body)
            said(rules) == [r \in DOMAIN rules |-> Content(rules[r])]
            same(a, b) == a.title = b.title /\ a.intro = b.intro /\ said(a.rules) = said(b.rules)
        IN  /\ parsed.intro = NonBlank(doc.intro)
            /\ Len(parsed.secs) = Len(doc.sections)
            /\ \A i \in DOMAIN doc.sections :
                  LET s == parsed.secs[i] t == doc.sections[i] IN
                  /\ same(s, t) /\ Len(s.subs) = Len(t.subs)
                  /\ \A j \in DOMAIN t.subs : same(s.subs[j], t.subs[j])
                  /\ \A j \in DOMAIN s.rules : s.rules[j].num = <<i, j>>

\* The notice of a save names the rules this save changed (the title RulesSave gives it);
\* not so when another save comes in between.
NoticeNamesChanges == \A l \in labelled : l.labels = versions[l.version].changed

===============================================================================
