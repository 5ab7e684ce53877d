--------------------------- MODULE FederateLinks ---------------------------
(***************************************************************************)
(* The two-sided links a Federate keeps: to its FederateIO_Handler and to  *)
(* its PostOffice.  Each object holds a pointer to the other, both may     *)
(* change the link, and each of the three setters of a side does part of   *)
(* the work.  The handler's and the post office's side is outside the      *)
(* source: it is the same generated code, as the calls made to it show.    *)
(*                                                                         *)
(* Federates are constructed, relinked and destroyed in any order; the     *)
(* destructor deletes the handler and, of a federate that is an HLA one at *)
(* that time, the post office.  A call takes only objects that are there.  *)
(***************************************************************************)

CONSTANTS
  Federates,
  Handlers, PostOffices,   \* the objects a federate may be linked to
  NoObject                 \* NULL

Partners == Handlers \cup PostOffices

ASSUME LinksAssumption ==
  /\ Handlers \cap PostOffices = {}
  /\ Federates \cap Partners = {}
  /\ NoObject \notin Federates \cup Partners

VARIABLES
  itsFederateIO_Handler,   \* federate -> handler or NoObject
  thePostOffice,           \* federate -> post office or NoObject
  itsFederate,             \* handler or post office -> federate or NoObject
  federateFrameworkType,   \* federate -> "HLA" or "OASIS"
  there                    \* the objects constructed and not yet destroyed

pointers == <<itsFederateIO_Handler, thePostOffice, itsFederate>>
linkVars == <<pointers, federateFrameworkType, there>>

FrameworkTypes == {"HLA", "OASIS"}

(* One link: the federates' pointers and their partners'.                  *)
Link(ours, theirs) == [ours |-> ours, theirs |-> theirs]

LinksInit ==
  /\ itsFederateIO_Handler = [f \in Federates |-> NoObject]
  /\ thePostOffice = [f \in Federates |-> NoObject]
  /\ itsFederate = [p \in Partners |-> NoObject]
  /\ federateFrameworkType = [f \in Federates |-> "OASIS"]
  /\ there = {}
----------------------------------------------------------------------------
(* The setters, as functions of a link.                                    *)

(* __set: the pointer alone.                                               *)
PointTo(l, f, p) == [l EXCEPT !.ours = [@ EXCEPT ![f] = p]]
PointBack(l, p, f) == [l EXCEPT !.theirs = [@ EXCEPT ![p] = f]]

(* _set: the partner that is left forgets the link.  Mutant: it does not.  *)
LeaveAndPointMutant(l, f, p) == PointTo(l, f, p)
LeaveAndPoint(l, f, p) ==
  PointTo(IF l.ours[f] # NoObject THEN PointBack(l, l.ours[f], NoObject) ELSE l, f, p)

LeaveAndPointBack(l, p, f) ==
  PointBack(IF l.theirs[p] # NoObject THEN PointTo(l, l.theirs[p], NoObject) ELSE l, p, f)

(* set: first the new partner's side, then one's own.                      *)
SetPartner(l, f, p) ==
  LeaveAndPoint(IF p # NoObject THEN LeaveAndPointBack(l, p, f) ELSE l, f, p)

SetFederate(l, p, f) ==
  LeaveAndPointBack(IF f # NoObject THEN LeaveAndPoint(l, f, p) ELSE l, p, f)

(* cleanUpRelations of either side.                                        *)
CleanUp(l, f) ==
  PointTo(IF l.ours[f] # NoObject /\ l.theirs[l.ours[f]] # NoObject
            THEN PointBack(l, l.ours[f], NoObject) ELSE l,
          f, NoObject)

CleanUpBack(l, p) ==
  PointBack(IF l.theirs[p] # NoObject /\ l.ours[l.theirs[p]] # NoObject
              THEN PointTo(l, l.theirs[p], NoObject) ELSE l,
            p, NoObject)

HandlerLink == Link(itsFederateIO_Handler, [h \in Handlers |-> itsFederate[h]])
OfficeLink == Link(thePostOffice, [o \in PostOffices |-> itsFederate[o]])

Become(handlerLink, officeLink) ==
  /\ itsFederateIO_Handler' = handlerLink.ours
  /\ thePostOffice' = officeLink.ours
  /\ itsFederate' = [p \in Partners |->
       IF p \in Handlers THEN handlerLink.theirs[p] ELSE officeLink.theirs[p]]
----------------------------------------------------------------------------
There(S) == S \cap there
New(S) == S \ there

(* The constructor makes the post office, of an HLA federate, and the      *)
(* handler; the link to the handler is set from both sides.                *)
ConstructFederate(f, h, o, type) ==
  /\ f \in New(Federates)
  /\ h \in New(Handlers)
  /\ o \in New(PostOffices)
  /\ Become(SetFederate(SetPartner(HandlerLink, f, h), h, f),
            IF type = "HLA" THEN SetPartner(OfficeLink, f, o) ELSE OfficeLink)
  /\ federateFrameworkType' = [federateFrameworkType EXCEPT ![f] = type]
  /\ there' = there \cup {f, h} \cup (IF type = "HLA" THEN {o} ELSE {})

(* The type may change later; what was made for the old one stays.         *)
setFederateFrameworkType(f, type) ==
  /\ f \in There(Federates)
  /\ federateFrameworkType' = [federateFrameworkType EXCEPT ![f] = type]
  /\ UNCHANGED <<pointers, there>>

(* The destructor deletes the handler it has now, then the post office of  *)
(* an HLA federate, and cleans up what is left.                            *)
DestroyFederate(f) ==
  LET h == itsFederateIO_Handler[f]
      o == IF federateFrameworkType[f] = "HLA" THEN thePostOffice[f] ELSE NoObject
  IN
  /\ f \in There(Federates)
  /\ Become(CleanUp(IF h # NoObject THEN CleanUpBack(HandlerLink, h) ELSE HandlerLink, f),
            CleanUp(IF o # NoObject THEN CleanUpBack(OfficeLink, o) ELSE OfficeLink, f))
  /\ there' = there \ {f, h, o}
  /\ federateFrameworkType' = [federateFrameworkType EXCEPT ![f] = "OASIS"]

(* A handler or a post office made by somebody else.                       *)
ConstructPartner(p) ==
  /\ p \in New(Partners)
  /\ there' = there \cup {p}
  /\ UNCHANGED <<pointers, federateFrameworkType>>

setItsFederateIO_Handler(f, h) ==
  /\ f \in There(Federates)
  /\ h \in There(Handlers) \cup {NoObject}
  /\ Become(SetPartner(HandlerLink, f, h), OfficeLink)
  /\ UNCHANGED <<federateFrameworkType, there>>

setThePostOffice(f, o) ==
  /\ f \in There(Federates)
  /\ o \in There(PostOffices) \cup {NoObject}
  /\ Become(HandlerLink, SetPartner(OfficeLink, f, o))
  /\ UNCHANGED <<federateFrameworkType, there>>

(* setItsFederate of a handler, setTheFederate of a post office.           *)
setItsFederate(p, f) ==
  /\ p \in There(Partners)
  /\ f \in There(Federates) \cup {NoObject}
  /\ IF p \in Handlers THEN Become(SetFederate(HandlerLink, p, f), OfficeLink)
                       ELSE Become(HandlerLink, SetFederate(OfficeLink, p, f))
  /\ UNCHANGED <<federateFrameworkType, there>>

LinksNext ==
  \/ \E f \in Federates, h \in Handlers, o \in PostOffices, type \in FrameworkTypes :
       ConstructFederate(f, h, o, type)
  \/ \E f \in Federates, type \in FrameworkTypes : setFederateFrameworkType(f, type)
  \/ \E f \in Federates : DestroyFederate(f)
  \/ \E p \in Partners : ConstructPartner(p)
  \/ \E f \in Federates, h \in Handlers \cup {NoObject} : setItsFederateIO_Handler(f, h)
  \/ \E f \in Federates, o \in PostOffices \cup {NoObject} : setThePostOffice(f, o)
  \/ \E p \in Partners, f \in Federates \cup {NoObject} : setItsFederate(p, f)

LinksSpec == LinksInit /\ [][LinksNext]_linkVars
----------------------------------------------------------------------------
(* Properties *)

Mutual(l) ==
  \A f \in DOMAIN l.ours, p \in DOMAIN l.theirs : l.ours[f] = p <=> l.theirs[p] = f

(* In whatever order links are set from either side, replaced, cleared and *)
(* torn down, the two pointers of a link agree, and no object that is      *)
(* there points to one that is not.                                        *)
LinksAgree ==
  /\ Mutual(HandlerLink)
  /\ Mutual(OfficeLink)
  /\ \A f \in There(Federates) :
       {itsFederateIO_Handler[f], thePostOffice[f]} \subseteq there \cup {NoObject}
  /\ \A p \in There(Partners) : itsFederate[p] \in there \cup {NoObject}
=============================================================================
