----------------------------- MODULE ContactBook -----------------------------
(***************************************************************************)
(* Contacts: their administration, and the import of Shopify customers     *)
(* into them.  An import looks for the contact by address, then by         *)
(* document, and updates the one it found from the copy it read, or        *)
(* creates one; each of these is a statement or a transaction of its own,  *)
(* and a step here, so imports and requests overlap.                       *)
(***************************************************************************)
EXTENDS Integers, FiniteSets

CONSTANTS
    Contacts,      \* contact ids
    Emails,        \* e-mail addresses
    Documents,     \* document numbers, with their type
    Customers,     \* customers of one shop
    ContactTasks,  \* requests and imports under way
    NoDocument,    \* no document number
    NoContact      \* no contact, no address, no customer

ASSUME ContactAssumption ==
    /\ NoDocument \notin Documents
    /\ NoContact \notin Contacts \cup Emails \cup Customers

VARIABLES
    contact,      \* contacts and contact_metadata
    customerLink, \* shopify_sync_links of kind contact
    contactTask,  \* the requests and imports
    outrun,       \* requests whose contact was written since they read it
    droppedNotes  \* contacts that lost metadata to an import nobody outran

contactVars == <<contact, customerLink, contactTask, outrun, droppedNotes>>

------------------------------------------------------------------------------
(* Rows *)

\* Metadata: the keys an import writes, and those set here.
Notes == {"shop", "own"}
AnyDocument == Documents \cup {NoDocument}

Contact == [state : {"unused", "live", "deleted"}, email : Emails \cup {NoContact},
            document : AnyDocument, notes : SUBSET Notes]
NewContact == [state |-> "unused", email |-> NoContact, document |-> NoDocument, notes |-> {}]

LiveContact(c) == contact[c].state = "live"

ByEmail(e) == {c \in Contacts : LiveContact(c) /\ contact[c].email = e}
ByDocument(d) == {c \in Contacts : LiveContact(c) /\ contact[c].document = d}

\* The unique indexes see deleted rows too; a missing document is no value.
ContactFits(c, e, d) ==
    \A o \in Contacts \ {c} :
        contact[o].state # "unused" =>
            /\ contact[o].email # e
            /\ d # NoDocument => contact[o].document # d

\* Mutant: the keys of the customer replace those of the contact.
ReplacedNotes(own, given) == given

\* An import adds its keys to those of the copy it found.
MergedNotes(own, given) == own \cup given

------------------------------------------------------------------------------
(* Requests *)

ContactStages == {"idle", "findEmail", "findDocument", "create", "save", "link"}
ContactTask == [at : ContactStages, customer : Customers \cup {NoContact},
                on : Contacts \cup {NoContact}, email : Emails \cup {NoContact},
                document : AnyDocument, notes : SUBSET Notes,
                search : {"first", "again"}]
NoRequest == [at |-> "idle", customer |-> NoContact, on |-> NoContact,
              email |-> NoContact, document |-> NoDocument, notes |-> {},
              search |-> "first"]

Importing(t) == contactTask[t].customer # NoContact
ContactGoto(t, stage) == contactTask' = [contactTask EXCEPT ![t].at = stage]
ContactDone(t) == contactTask' = [contactTask EXCEPT ![t] = NoRequest]

\* A write of contact c outruns the others that have read it.
Outruns(t, c) == (outrun \cup {u \in ContactTasks : contactTask[u].on = c}) \ {t}

NothingWritten ==
    UNCHANGED <<contact, customerLink, droppedNotes>>

\* A step fails, or its request is given up: nothing more happens.
GiveUpContact(t) ==
    /\ contactTask[t].at # "idle"
    /\ ContactDone(t)
    /\ outrun' = outrun \ {t}
    /\ NothingWritten

RequestCreate(t) ==
    /\ contactTask[t].at = "idle"
    /\ \E e \in Emails, d \in AnyDocument :
         contactTask' = [contactTask EXCEPT ![t] =
             [NoRequest EXCEPT !.at = "create", !.email = e, !.document = d, !.notes = {"own"}]]
    /\ NothingWritten
    /\ UNCHANGED outrun

\* Update: the contact is loaded; fields and metadata that are not given keep
\* the values loaded.
RequestUpdate(t, c) ==
    /\ contactTask[t].at = "idle"
    /\ LiveContact(c)
    /\ \E e \in Emails, d \in AnyDocument, n \in {contact[c].notes, {"own"}} :
         contactTask' = [contactTask EXCEPT ![t] =
             [NoRequest EXCEPT !.at = "save", !.on = c, !.email = e, !.document = d, !.notes = n]]
    /\ NothingWritten
    /\ UNCHANGED outrun

\* Delete: the row is marked and its metadata deleted, in one transaction.
DeleteContact(c) ==
    /\ LiveContact(c)
    /\ contact' = [contact EXCEPT ![c].state = "deleted", ![c].notes = {}]
    /\ outrun' = outrun \cup {u \in ContactTasks : contactTask[u].on = c}
    /\ UNCHANGED <<customerLink, contactTask, droppedNotes>>

\* A customer as Shopify has it now; the document is what its company holds.
ImportCustomer(t, k) ==
    /\ contactTask[t].at = "idle"
    /\ \E e \in Emails, d \in AnyDocument :
         contactTask' = [contactTask EXCEPT ![t] =
             [NoRequest EXCEPT !.at = "findEmail", !.customer = k, !.email = e,
                               !.document = d, !.notes = {"shop"}]]
    /\ NothingWritten
    /\ UNCHANGED outrun

------------------------------------------------------------------------------
(* The import's search *)

Found(t, c) ==
    contactTask' = [contactTask EXCEPT
        ![t].at = "save", ![t].on = c,
        ![t].notes = MergedNotes(contact[c].notes, contactTask[t].notes)]

\* Nobody found: the contact is created, or the conflict that made the import
\* search again is its error.
NotFound(t) == IF contactTask[t].search = "first" THEN ContactGoto(t, "create") ELSE ContactDone(t)

FindByEmail(t) ==
    LET hits == ByEmail(contactTask[t].email)
    IN  /\ contactTask[t].at = "findEmail"
        /\ \/ \E c \in hits : Found(t, c)
           \/ /\ hits = {}
              /\ IF contactTask[t].document = NoDocument
                 THEN NotFound(t)
                 ELSE ContactGoto(t, "findDocument")
        /\ NothingWritten
        /\ UNCHANGED outrun

FindByDocument(t) ==
    LET hits == ByDocument(contactTask[t].document)
    IN  /\ contactTask[t].at = "findDocument"
        /\ \/ \E c \in hits : Found(t, c)
           \/ hits = {} /\ NotFound(t)
        /\ NothingWritten
        /\ UNCHANGED outrun

------------------------------------------------------------------------------
(* Writes *)

\* The row is written and the event published; when publishing fails the
\* request fails, and the row stays.
Written(t, c) ==
    /\ \/ Importing(t) /\ contactTask' = [contactTask EXCEPT ![t].at = "link", ![t].on = c]
       \/ ContactDone(t)
    /\ outrun' = Outruns(t, c)

\* An import that meets a conflict it recognises searches once more, and
\* updates; the message of not every database is recognised.
CreateContact(t) ==
    /\ contactTask[t].at = "create"
    /\ UNCHANGED <<customerLink, droppedNotes>>
    /\ \/ \E c \in Contacts :
            /\ contact[c].state = "unused"
            /\ ContactFits(c, contactTask[t].email, contactTask[t].document)
            /\ contact' = [contact EXCEPT ![c] =
                             [state |-> "live", email |-> contactTask[t].email,
                              document |-> contactTask[t].document,
                              notes |-> contactTask[t].notes]]
            /\ Written(t, c)
       \/ /\ ~ContactFits(NoContact, contactTask[t].email, contactTask[t].document)
          /\ \/ /\ Importing(t)
                /\ contactTask' = [contactTask EXCEPT ![t].at = "findEmail", ![t].search = "again"]
             \/ ContactDone(t)
          /\ UNCHANGED <<contact, outrun>>

\* Update's transaction touches a live row only, and its metadata with it: no
\* row, no metadata either.
SaveContact(t) ==
    LET c == contactTask[t].on
    IN  /\ contactTask[t].at = "save"
        /\ UNCHANGED customerLink
        /\ \/ /\ LiveContact(c)
              /\ ContactFits(c, contactTask[t].email, contactTask[t].document)
              /\ contact' = [contact EXCEPT
                               ![c].email = contactTask[t].email,
                               ![c].document = contactTask[t].document,
                               ![c].notes = contactTask[t].notes]
              /\ Written(t, c)
              /\ droppedNotes' =
                   droppedNotes \cup
                   (IF Importing(t) /\ t \notin outrun
                       /\ ~(contact[c].notes \subseteq contactTask[t].notes)
                    THEN {c} ELSE {})
           \/ /\ ~LiveContact(c) \/ ~ContactFits(c, contactTask[t].email, contactTask[t].document)
              /\ ContactDone(t)
              /\ outrun' = outrun \ {t}
              /\ UNCHANGED <<contact, droppedNotes>>

\* UpsertLink writes the row of the customer or the row of the contact; when
\* both exist and differ, the unique indexes refuse it.
LinkCustomer(t) ==
    LET k == contactTask[t].customer
        c == contactTask[t].on
        holders == {h \in Customers : customerLink[h] = c}
    IN  /\ contactTask[t].at = "link"
        /\ \/ /\ customerLink[k] = NoContact \/ holders \subseteq {k}
              /\ customerLink' = [h \in Customers |->
                                    IF h = k THEN c
                                    ELSE IF h \in holders THEN NoContact
                                    ELSE customerLink[h]]
           \/ /\ customerLink[k] # NoContact
              /\ ~(holders \subseteq {k})
              /\ UNCHANGED customerLink
        /\ ContactDone(t)
        /\ outrun' = outrun \ {t}
        /\ UNCHANGED <<contact, droppedNotes>>

------------------------------------------------------------------------------

ContactInit ==
    /\ contact = [c \in Contacts |-> NewContact]
    /\ customerLink = [k \in Customers |-> NoContact]
    /\ contactTask = [t \in ContactTasks |-> NoRequest]
    /\ outrun = {}
    /\ droppedNotes = {}

ContactNext ==
    \/ \E t \in ContactTasks :
         \/ RequestCreate(t) \/ GiveUpContact(t)
         \/ \E c \in Contacts : RequestUpdate(t, c)
         \/ \E k \in Customers : ImportCustomer(t, k)
         \/ FindByEmail(t) \/ FindByDocument(t)
         \/ CreateContact(t) \/ SaveContact(t) \/ LinkCustomer(t)
    \/ \E c \in Contacts : DeleteContact(c)

ContactSpec == ContactInit /\ [][ContactNext]_contactVars

------------------------------------------------------------------------------
(* Properties *)

ContactTypes ==
    /\ contact \in [Contacts -> Contact]
    /\ customerLink \in [Customers -> Contacts \cup {NoContact}]
    /\ contactTask \in [ContactTasks -> ContactTask]
    /\ outrun \subseteq ContactTasks
    /\ droppedNotes \subseteq Contacts

\* A contact that is not there has no metadata, although imports and updates
\* that read it before it was deleted go on (repository.go, Update).
NotesOfTheLiving ==
    \A c \in Contacts : contact[c].notes # {} => LiveContact(c)

\* A person is one contact, deleted ones included: neither an address nor a
\* document names two, whatever searches miss each other's inserts.
OneContactEach ==
    \A c, d \in Contacts :
        (contact[c].state # "unused" /\ contact[d].state # "unused" /\ c # d) =>
            /\ contact[c].email # contact[d].email
            /\ contact[c].document = contact[d].document => contact[c].document = NoDocument

\* A customer is linked to a contact that was written, and a contact to one
\* customer, also when two customers turn out to be one person (upsert.go,
\* UpsertContact; store, UpsertLink).
LinkedToOne ==
    \A k \in Customers :
        customerLink[k] # NoContact =>
            /\ contact[customerLink[k]].state # "unused"
            /\ \A h \in Customers \ {k} : customerLink[h] # customerLink[k]

\* An import that nobody outran leaves the contact all the metadata it had
\* (upsert.go, mergeMetadata into a copy read before).
ImportsKeepNotes == droppedNotes = {}

ContactSafety ==
    ContactTypes /\ NotesOfTheLiving /\ OneContactEach /\ LinkedToOne /\ ImportsKeepNotes
==============================================================================
