----------------------------- MODULE EntityStore -----------------------------
(***************************************************************************)
(* Entities that commands change and a store saves: as their last state,   *)
(* or as the stream of their events.  Saving emits the events afterwards,  *)
(* to listeners that may throw.  Several callers work on one entity.       *)
(***************************************************************************)
EXTENDS Integers, SequencesExt

CONSTANTS
  Caller,
  MaxEvents   \* bound on events that commands commit

ASSUME EntityAssumption == MaxEvents \in Nat

VARIABLES
  kind,       \* memoryState or memoryStream
  present,    \* the store has the entity
  saved,      \* the events of the stream, or those that the saved state comes from
  savedRev,   \* the revision that memoryState keeps
  entity,     \* the object of each caller
  doing,      \* what each caller is in
  result,     \* the revision that the save of each caller resolved with
  emitted,    \* history: events that listeners got
  overlapped, \* history: a save by someone who had not seen what others did
  repeated,   \* history: a save was repeated that had been rejected after its effect
  pulled,     \* history: the entity was removed while others worked with it
  made

entityVars ==
  <<kind, present, saved, savedRev, entity, doing, result, emitted, overlapped, repeated, pulled, made>>

\* reconstitute: the fold of the events over the state; a state is the events in it.
Reconstitute_withoutFold(state, events, rev) == [state |-> state, events |-> <<>>, revision |-> rev]
Reconstitute(state, events, rev) == [state |-> state \o events, events |-> <<>>, revision |-> rev]

-----------------------------------------------------------------------------
Create(c) ==
  /\ doing[c] = "nothing"
  /\ doing' = [doing EXCEPT ![c] = "working"]
  /\ entity' = [entity EXCEPT ![c] = Reconstitute(<<>>, <<>>, -1)]
  /\ UNCHANGED <<kind, present, saved, savedRev, result, emitted, overlapped, repeated, pulled, made>>

\* A stream is loaded without a state, a state without events.
LoadEntity(c) ==
  /\ doing[c] \in {"nothing", "working", "rejected"} /\ present
  /\ doing' = [doing EXCEPT ![c] = "working"]
  /\ entity' = [entity EXCEPT ![c] = IF kind = "stream" THEN Reconstitute(<<>>, saved, Len(saved))
                                                        ELSE Reconstitute(saved, <<>>, savedRev)]
  /\ UNCHANGED <<kind, present, saved, savedRev, result, emitted, overlapped, repeated, pulled, made>>

\* A command commits an event: mutate first, then push.
Execute(c) ==
  /\ doing[c] \in {"working", "rejected"} /\ made < MaxEvents
  /\ made' = made + 1
  /\ entity' = [entity EXCEPT ![c].state = Append(@, made'), ![c].events = Append(@, made')]
  /\ UNCHANGED <<kind, present, saved, savedRev, doing, result, emitted, overlapped, repeated, pulled>>

\* crud.save, with or without events: nobody compares revisions; a state starts
\* counting from the object's.  (Bound: one save is repeated.)
SaveEntity(c) ==
  LET e == entity[c]
  IN  /\ doing[c] \in {"working", "rejected"}
      /\ doing[c] = "rejected" => ~repeated
      /\ present' = TRUE
      /\ IF kind = "stream" THEN saved' = saved \o e.events /\ savedRev' = Len(saved')
                            ELSE saved' = e.state /\ savedRev' = e.revision + Len(e.events)
      /\ overlapped' = (overlapped \/ (e.state # saved \o e.events /\ doing[c] # "rejected"))
      /\ repeated' = (repeated \/ doing[c] = "rejected")
      /\ doing' = [doing EXCEPT ![c] = "emitting"]
      /\ result' = [result EXCEPT ![c] = savedRev']
      /\ UNCHANGED <<kind, entity, emitted, pulled, made>>

\* emitEvents, clearEvents and reconstitute: the caller goes on with a new object.
Saved(c) ==
  /\ doing[c] = "emitting"
  /\ emitted' = emitted \o entity[c].events
  /\ entity' = [entity EXCEPT ![c] = Reconstitute(@.state, <<>>, result[c])]
  /\ doing' = [doing EXCEPT ![c] = "working"]
  /\ UNCHANGED <<kind, present, saved, savedRev, result, overlapped, repeated, pulled, made>>

\* A listener throws: later events are not told; the caller has the old object, with
\* its events and the revision it had.
ListenerThrows(c) ==
  /\ doing[c] = "emitting"
  /\ \E n \in 1 .. Len(entity[c].events) : emitted' = emitted \o SubSeq(entity[c].events, 1, n)
  /\ doing' = [doing EXCEPT ![c] = "rejected"]
  /\ UNCHANGED <<kind, present, saved, savedRev, entity, result, overlapped, repeated, pulled, made>>

RemoveEntity(c) ==
  /\ doing[c] = "working" /\ present
  /\ present' = FALSE /\ saved' = <<>>
  /\ doing' = [doing EXCEPT ![c] = "nothing"]
  /\ pulled' = (pulled \/ \E d \in Caller \ {c} : doing[d] # "nothing")
  /\ emitted' = <<>>
  /\ UNCHANGED <<kind, savedRev, entity, result, overlapped, repeated, made>>

EntityInit ==
  /\ kind \in {"state", "stream"}
  /\ present = FALSE /\ saved = <<>> /\ savedRev = -1 /\ emitted = <<>>
  /\ result = [c \in Caller |-> -1]
  /\ entity = [c \in Caller |-> Reconstitute(<<>>, <<>>, -1)]
  /\ doing = [c \in Caller |-> "nothing"]
  /\ overlapped = FALSE /\ repeated = FALSE /\ pulled = FALSE /\ made = 0

EntityNext ==
  \E c \in Caller : \/ Create(c) \/ LoadEntity(c) \/ Execute(c) \/ SaveEntity(c)
                    \/ Saved(c) \/ ListenerThrows(c) \/ RemoveEntity(c)

-----------------------------------------------------------------------------
(* Properties *)

\* Type correctness of the entity store.
EntityTypeOK ==
  /\ doing \in [Caller -> {"nothing", "working", "emitting", "rejected"}]
  /\ ToSet(saved) \cup ToSet(emitted) \subseteq 1 .. MaxEvents
  /\ savedRev \in Nat \cup {-1}

\* Nobody saves again what was rejected, or has the entity while another removes it.
Untouched == ~repeated /\ ~pulled

\* The saves of a stream may overlap, those of a state must not.
EventsAreKept == Untouched /\ (kind = "stream" \/ ~overlapped)

TurnsAreTaken == Untouched /\ ~overlapped

\* Every event is stored once and told listeners once at most, and what they were told
\* is stored, however saves of a stream overlap.
ToldIsStored ==
  EventsAreKept => IsInjective(saved) /\ IsInjective(emitted) /\ ToSet(emitted) \subseteq ToSet(saved)

\* While callers take turns, an object holds, besides its own events, the beginning of
\* what is stored, exactly as long as its revision says.
ObjectsFollow ==
  TurnsAreTaken => \A c \in Caller : doing[c] = "working" =>
    LET own == Len(entity[c].events)
        seen == SubSeq(entity[c].state, 1, Len(entity[c].state) - own)
    IN  /\ IsPrefix(seen, saved)
        /\ entity[c].revision \in IF kind = "state" THEN {Len(seen) - 1}
                                  ELSE IF seen = <<>> THEN {-1, 0} ELSE {Len(seen)}

\* Callers and store agree: on the events always, on the objects between overlaps.
EntityFollowsStore == EntityTypeOK /\ ToldIsStored /\ ObjectsFollow
=============================================================================
