--------------------------------- MODULE Drive ---------------------------------
(***************************************************************************)
(* The drive of a faction: folders, documents and files.  What somebody    *)
(* may see and edit is worked out from their standing before the           *)
(* transaction of a request begins.  A document that is saved keeps its    *)
(* text of before as a version; nothing is deleted, only archived.         *)
(***************************************************************************)
EXTENDS Sequences, SequencesExt, FiniteSets, Naturals

CONSTANTS
    Readers,        \* the people
    Standings,      \* what someone can be to the faction: [member, ok, commands, audit,
                    \* configure, in, leads]
    FirstStanding,  \* of each person in the beginning
    Wide,           \* for no division: faction-wide
    Forms,          \* the divisions and visibilities people fill in: [dept, vis]
    Texts,          \* what a document may say
    Hands,          \* requests that run at the same time
    MaxItems, MaxSaves, MaxFolders

VARIABLES
    standing,       \* CommandIn, the divisions and the staff permissions of each person
    folders,        \* faction_drive_folders
    items,          \* faction_drive_items: [kind, dept, vis, folder, text, gone]
    copies,         \* faction_drive_versions: the texts kept of each item, oldest first
    wrote,          \* all texts each document had, oldest first
    opened,         \* on which pages an item for the command alone was ever shown
    hand            \* what a request is doing

driveVars == <<standing, folders, items, copies, wrote, opened, hand>>

Resting == [at |-> "idle"]

DriveInit ==
    /\ standing = FirstStanding
    /\ folders = <<>> /\ items = <<>> /\ copies = <<>> /\ wrote = <<>>
    /\ opened = {} /\ hand = [h \in Hands |-> Resting]

Holds(h, next) == hand' = [hand EXCEPT ![h] = next]

\* Ranks, divisions and permissions change (see Factions and Access).
StandingChanges(p, s) ==
    /\ standing[p] # s /\ standing' = [standing EXCEPT ![p] = s]
    /\ UNCHANGED <<folders, items, copies, wrote, opened, hand>>

-------------------------------------------------------------------------------
\* What a viewer may do

\* DriveViewerFor: a member of the command (ok) sees all, as do staff who audit or
\* configure; command ranks, the administration and who configures edit all.
Viewer(s) ==
    [member |-> s.member,
     panel  |-> s.ok \/ s.audit \/ s.configure,
     editor |-> (s.ok /\ s.commands) \/ s.configure,
     in     |-> IF s.member THEN s.in ELSE {},
     leads  |-> s.leads]

CanSee(v, dept, vis) ==
    v.panel \/ (v.member /\ vis = "members" /\ (dept = Wide \/ dept \in v.in))

CanEdit(v, dept) == v.editor \/ (dept # Wide /\ dept \in v.leads)

\* memberBase: "Members read as members, even if they also have the panel."
AsMember(v) == [v EXCEPT !.panel = FALSE, !.editor = FALSE, !.leads = {}]

\* getFolder and GetItem: what is archived is not there.
FolderThere(f) == f \in DOMAIN folders /\ ~folders[f].gone
ItemThere(i) == i \in DOMAIN items /\ ~items[i].gone

\* checkPlacement: an item of no division belongs to its folder's.
Placed(in) == [in EXCEPT !.dept = IF in.dept = Wide /\ in.folder # 0 THEN folders[in.folder].dept ELSE in.dept]
MayPlace(v, in) ==
    /\ in.folder # 0 => FolderThere(in.folder)
    /\ CanEdit(v, Placed(in).dept)

-------------------------------------------------------------------------------
\* Reading

\* driveViewer: what someone may do, before anything is read: on the pages of the command
\* panel, or on those of the members (memberBase).
Look(h, p, page) ==
    /\ hand[h] = Resting
    /\ LET v == Viewer(standing[p]) IN
       /\ v.panel \/ (page = "members" /\ v.member)
       /\ Holds(h, [at |-> "look", by |-> p, page |-> page,
                    view |-> IF page = "members" THEN AsMember(v) ELSE v])
    /\ UNCHANGED <<standing, folders, items, copies, wrote, opened>>

Show(h, shown) ==
    /\ opened' = opened \cup {hand[h].page : i \in {x \in shown : items[x].vis = "command"}}
    /\ Holds(h, Resting)
    /\ UNCHANGED <<standing, folders, items, copies, wrote>>

Visible(v) == {i \in DOMAIN items : ItemThere(i) /\ CanSee(v, items[i].dept, items[i].vis)}

\* ListDrive of a folder, or of the top, where the panel also shows the latest items
\* (RecentDrive).
ListDrive(h, f) ==
    /\ hand[h].at = "look"
    /\ f # 0 => FolderThere(f) /\ CanSee(hand[h].view, folders[f].dept, folders[f].vis)
    /\ Show(h, {i \in Visible(hand[h].view) : items[i].folder = f \/ (f = 0 /\ hand[h].page = "command")})

\* GetItem, of a document with its versions.
GetItem(h, i) ==
    /\ hand[h].at = "look" /\ i \in Visible(hand[h].view)
    /\ Show(h, {i})

\* CommandDriveEditor shows the text of a document to who may change it, on the panel's
\* page; saving it is another request, which looks again.
EditorOpens(h, i) ==
    /\ hand[h].at = "look" /\ hand[h].page = "command"
    /\ i \in Visible(hand[h].view) /\ items[i].kind = "doc" /\ CanEdit(hand[h].view, items[i].dept)
    /\ Show(h, {i})

\* serveWord and serveFile work the viewer out again.
ServeFile(h, i) ==
    /\ hand[h].at = "look" /\ i \in Visible(Viewer(standing[hand[h].by]))
    /\ Show(h, {i})

-------------------------------------------------------------------------------
\* Writing: the viewer, then the statements of the transaction

Start(h, p, doing) ==
    /\ hand[h] = Resting
    /\ Holds(h, [at |-> doing, by |-> p, view |-> Viewer(standing[p])])
    /\ UNCHANGED <<standing, folders, items, copies, wrote, opened>>

Input(dept, vis, folder) == [dept |-> dept, vis |-> vis, folder |-> folder]

\* CreateDoc and UploadFile: placement, then the insert.
Place(h, in, text, kind) ==
    /\ hand[h].at = "new" /\ MayPlace(hand[h].view, in)
    /\ Holds(h, [at |-> "insert", in |-> Placed(in), text |-> text, kind |-> kind])
    /\ UNCHANGED <<standing, folders, items, copies, wrote, opened>>

InsertItem(h) ==
    /\ hand[h].at = "insert" /\ Len(items) < MaxItems
    /\ LET q == hand[h] IN
       /\ items' = Append(items, [kind |-> q.kind, dept |-> q.in.dept, vis |-> q.in.vis,
                                  folder |-> q.in.folder, text |-> q.text, gone |-> FALSE])
       /\ wrote' = Append(wrote, <<q.text>>)
       /\ copies' = Append(copies, <<>>)
    /\ Holds(h, Resting)
    /\ UNCHANGED <<standing, folders, opened>>

RowLocked(i) == \E h \in Hands : hand[h].at \in {"save", "archive"} /\ hand[h].item = i

\* Mutant: the document is read without FOR UPDATE.
OpenUnlocked(h, i, in, text) ==
    /\ hand[h].at = "edit" /\ ItemThere(i) /\ items[i].kind = "doc"
    /\ CanEdit(hand[h].view, items[i].dept) /\ MayPlace(hand[h].view, in)
    /\ Len(copies[i]) < MaxSaves
    /\ Holds(h, [at |-> "save", item |-> i, old |-> items[i].text, in |-> Placed(in), text |-> text])
    /\ UNCHANGED <<standing, folders, items, copies, wrote, opened>>

\* SaveDoc reads the document FOR UPDATE, which waits for who else does.
OpenDoc(h, i, in, text) ==
    /\ hand[h].at = "edit" /\ ItemThere(i) /\ items[i].kind = "doc" /\ ~RowLocked(i)
    /\ CanEdit(hand[h].view, items[i].dept) /\ MayPlace(hand[h].view, in)
    /\ Len(copies[i]) < MaxSaves
    /\ Holds(h, [at |-> "save", item |-> i, old |-> items[i].text, in |-> Placed(in), text |-> text])
    /\ UNCHANGED <<standing, folders, items, copies, wrote, opened>>

\* The old text is kept, the new one written, and the transaction commits.
SaveDoc(h) ==
    /\ hand[h].at = "save"
    /\ LET q == hand[h] IN
       /\ copies' = [copies EXCEPT ![q.item] = Append(copies[q.item], q.old)]
       /\ items' = [items EXCEPT ![q.item] = [@ EXCEPT !.text = q.text, !.dept = q.in.dept,
                                                       !.vis = q.in.vis, !.folder = q.in.folder]]
       /\ wrote' = [wrote EXCEPT ![q.item] = Append(wrote[q.item], q.text)]
    /\ Holds(h, Resting)
    /\ UNCHANGED <<standing, folders, opened>>

\* ArchiveItem.
OpenItem(h, i) ==
    /\ hand[h].at = "remove" /\ ItemThere(i) /\ ~RowLocked(i)
    /\ CanEdit(hand[h].view, items[i].dept)
    /\ Holds(h, [at |-> "archive", item |-> i])
    /\ UNCHANGED <<standing, folders, items, copies, wrote, opened>>

ArchiveItem(h) ==
    /\ hand[h].at = "archive"
    /\ items' = [items EXCEPT ![hand[h].item].gone = TRUE]
    /\ Holds(h, Resting)
    /\ UNCHANGED <<standing, folders, copies, wrote, opened>>

CreateFolder(h, in) ==
    /\ hand[h].at = "new" /\ MayPlace(hand[h].view, in) /\ Len(folders) < MaxFolders
    /\ folders' = Append(folders, [dept |-> Placed(in).dept, vis |-> in.vis, parent |-> in.folder, gone |-> FALSE])
    /\ Holds(h, Resting)
    /\ UNCHANGED <<standing, items, copies, wrote, opened>>

\* ArchiveFolder finds it empty and archives it, in two statements and no transaction.
Inside(f) ==
    {i \in DOMAIN items : ItemThere(i) /\ items[i].folder = f} \cup
    {g \in DOMAIN folders : FolderThere(g) /\ folders[g].parent = f}

CountFolder(h, f) ==
    /\ hand[h].at = "remove" /\ FolderThere(f) /\ CanEdit(hand[h].view, folders[f].dept)
    /\ Inside(f) = {}
    /\ Holds(h, [at |-> "folder", folder |-> f])
    /\ UNCHANGED <<standing, folders, items, copies, wrote, opened>>

ArchiveFolder(h) ==
    /\ hand[h].at = "folder"
    /\ folders' = [folders EXCEPT ![hand[h].folder].gone = TRUE]
    /\ Holds(h, Resting)
    /\ UNCHANGED <<standing, items, copies, wrote, opened>>

\* A request is refused, or one of its statements fails.
LetGo(h) ==
    /\ hand[h] # Resting /\ Holds(h, Resting)
    /\ UNCHANGED <<standing, folders, items, copies, wrote, opened>>

Inputs == {Input(f.dept, f.vis, folder) : f \in Forms, folder \in {0} \cup DOMAIN folders}

DriveNext ==
    \/ \E p \in Readers, s \in Standings : StandingChanges(p, s)
    \/ \E h \in Hands, p \in Readers :
          \/ \E page \in {"command", "members"} : Look(h, p, page)
          \/ \E doing \in {"new", "edit", "remove"} : Start(h, p, doing)
    \/ \E h \in Hands :
          \/ InsertItem(h) \/ SaveDoc(h) \/ ArchiveItem(h) \/ ArchiveFolder(h) \/ LetGo(h)
          \/ ListDrive(h, 0)
          \/ \E f \in DOMAIN folders : ListDrive(h, f) \/ CountFolder(h, f)
          \/ \E i \in DOMAIN items : GetItem(h, i) \/ EditorOpens(h, i) \/ ServeFile(h, i) \/ OpenItem(h, i)
          \/ \E in \in Inputs :
                \/ CreateFolder(h, in)
                \/ \E text \in Texts :
                      \/ \E kind \in {"doc", "file"} : Place(h, in, text, kind)
                      \/ \E i \in DOMAIN items : OpenDoc(h, i, in, text)

-------------------------------------------------------------------------------
\* Nothing anybody wrote into a document is lost: its versions and its text are all it
\* ever said, in order, though several save it at once and over one another ("keeping
\* the previous text as a version", SaveDoc).
VersionsComplete == \A i \in DOMAIN items : wrote[i] = Append(copies[i], items[i].text)

\* "ArchiveFolder removes an empty folder": not so when something is put into it between
\* its two statements.
FoldersRemovedEmpty ==
    \A i \in DOMAIN items : ItemThere(i) /\ items[i].folder # 0 => FolderThere(items[i].folder)

\* "Members read as members, even if they also have the panel" (memberBase): not so of
\* the documents and files they download from there.
MembersReadAsMembers == "members" \notin opened

===============================================================================
