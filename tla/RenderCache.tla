----------------------------- MODULE RenderCache -----------------------------
(***************************************************************************)
(* The render engine: jobs rendered by a chain of renderers, whose results *)
(* a storage keeps by the hash of the job.  Jobs run at the same time; the *)
(* storage of recently used entries drops what is too old or too much      *)
(* between the question whether it has an entry and the answer.            *)
(***************************************************************************)
EXTENDS Naturals, SequencesExt

CONSTANTS
  Job,
  Variables(_),  \* pieces of text: the variables of a job as a query string
  Template(_),   \* pieces of text
  Suitable(_),   \* the renderers of the chain that support the syntax of a job
  MaxEntries, MaxRetries

ASSUME RenderAssumption == \A j \in Job : Suitable(j) \in Seq(STRING)

VARIABLES
  storage,    \* "lru" or "memory"
  entries,    \* hashes in the storage, least recently used first
  content,    \* hash -> what is stored under it
  job,        \* where render of each job is, how often it was rendered, its template
  retries

renderVars == <<storage, entries, content, job, retries>>

\* What is hashed: one text after the other, with nothing between, and no syntax.
Hash(j) == Variables(j) \o Template(j)

\* Content is variables, template and the renderers that went over them; no content
\* where no renderer is suitable.
Source(j) == <<Variables(j), Template(j)>>
Rendered(j) == IF Suitable(j) = <<>> THEN <<>> ELSE Source(j) \o Suitable(j)

Touched(s, h) ==
  Append(IF Contains(s, h) THEN RemoveAt(s, CHOOSE i \in DOMAIN s : s[i] = h) ELSE s, h)

-----------------------------------------------------------------------------
Has(j) ==
  /\ job[j].pc = "has"
  /\ job' = [job EXCEPT ![j].pc = IF Contains(entries, Hash(j)) THEN "hydrate" ELSE "render"]
  /\ UNCHANGED <<storage, entries, content, retries>>

\* The entry may be gone by now; else it is the one used last.
Hydrate(j) ==
  /\ job[j].pc = "hydrate"
  /\ IF Contains(entries, Hash(j))
     THEN /\ entries' = IF storage = "lru" THEN Touched(entries, Hash(j)) ELSE entries
          /\ job' = [job EXCEPT ![j] = [@ EXCEPT !.pc = "hydrated", !.content = content[Hash(j)],
                                             !.template = content[Hash(j)]]]
     ELSE /\ job' = [job EXCEPT ![j].pc = "missed"]
          /\ UNCHANGED entries
  /\ UNCHANGED <<storage, content, retries>>

\* The template becomes what the renderer before made of it.
Chained_fromTemplate(j) == Append(Source(j), Suitable(j)[job[j].done + 1])
Chained(j) == Append(job[j].template, Suitable(j)[job[j].done + 1])

\* ChainRenderer: the next renderer resolves, or rejects and leaves the job half done.
RenderNext(j) ==
  /\ job[j].pc = "render" /\ job[j].done < Len(Suitable(j))
  /\ \/ job' = [job EXCEPT ![j].done = @ + 1, ![j].template = Chained(j), ![j].content = Chained(j)]
     \/ job' = [job EXCEPT ![j].pc = "rejected"]
  /\ UNCHANGED <<storage, entries, content, retries>>

RenderEnds(j) ==
  /\ job[j].pc = "render" /\ job[j].done = Len(Suitable(j))
  /\ job' = [job EXCEPT ![j].pc = "store"]
  /\ UNCHANGED <<storage, entries, content, retries>>

\* The memory storage does not look at maxEntries.
Stored(j) ==
  LET all == Touched(entries, Hash(j))
  IN  IF storage = "lru" /\ Len(all) > MaxEntries THEN Tail(all) ELSE all

StoreEntry(j) ==
  /\ job[j].pc = "store"
  /\ entries' = IF storage = "memory" /\ Contains(entries, Hash(j)) THEN entries ELSE Stored(j)
  /\ content' = [content EXCEPT ![Hash(j)] = job[j].content]
  /\ job' = [job EXCEPT ![j].pc = "rendered"]
  /\ UNCHANGED <<storage, retries>>

\* An entry is too old.
EntryExpires ==
  /\ storage = "lru"
  /\ \E i \in DOMAIN entries : entries' = RemoveAt(entries, i)
  /\ UNCHANGED <<storage, content, job, retries>>

\* The caller tries the same job again after a rejection.
RenderAgain(j) ==
  /\ job[j].pc \in {"rejected", "missed"} /\ retries < MaxRetries
  /\ retries' = retries + 1
  /\ job' = [job EXCEPT ![j] = [@ EXCEPT !.pc = "has", !.done = 0, !.again = TRUE]]
  /\ UNCHANGED <<storage, entries, content>>

RenderInit ==
  /\ storage \in {"lru", "memory"}
  /\ entries = <<>> /\ retries = 0
  /\ content = [h \in {Hash(j) : j \in Job} |-> <<>>]
  /\ job = [j \in Job |-> [pc |-> "has", done |-> 0, template |-> Source(j), content |-> <<>>, again |-> FALSE]]

RenderRuns(j) == Has(j) \/ Hydrate(j) \/ RenderNext(j) \/ RenderEnds(j) \/ StoreEntry(j)

RenderStep == EntryExpires \/ \E j \in Job : RenderRuns(j) \/ RenderAgain(j)

-----------------------------------------------------------------------------
(* Properties *)

\* Type correctness of the cache.
RenderTypeOK ==
  /\ IsInjective(entries) /\ ToSet(entries) \subseteq DOMAIN content
  /\ \A j \in Job : job[j].pc \in {"has", "hydrate", "render", "store", "hydrated", "rendered", "rejected", "missed"}

SameHash(j) == {k \in Job : Hash(k) = Hash(j)}

\* Unless the job was tried again with the template a failed chain left, rendering gives
\* its own content; the cache gives the content of a job with its hash that was
\* rendered, which is its own if these are jobs of one source and one syntax.
ContentIsOwn ==
  \A j \in Job :
    /\ job[j].pc = "rendered" /\ ~job[j].again => job[j].content = Rendered(j)
    /\ job[j].pc = "hydrated" /\ (\A k \in SameHash(j) : ~job[k].again) =>
         \E k \in SameHash(j) : job[k].pc = "rendered" /\ job[j].content = Rendered(k)

\* The storage that never drops an entry never misses one it has.
MemoryNeverMisses == storage = "memory" => \A j \in Job : job[j].pc # "missed"

\* With the cache a job ends as some job of its hash does without, however jobs
\* interleave with each other and with what the storage drops.
CacheIsTransparent == RenderTypeOK /\ ContentIsOwn /\ MemoryNeverMisses
=============================================================================
