------------------------------- MODULE Balloon ------------------------------
(***************************************************************************)
(* The memory balloon: update_balloon_size_func of virtio_balloon.c on the *)
(* workqueue's runner, over the pages, lists and frames of linuxkpi        *)
(* (page.rs, list.rs, dma.rs) and the pool of Frames, beside a host that   *)
(* changes the target and takes and returns the pages it is told of, and   *)
(* other drivers that allocate frames for DMA.                             *)
(*                                                                         *)
(* A struct page is named by its frame.  The lists are their pointers.     *)
(* The host reads vb->pfns when it serves the request, not when it is      *)
(* made.  The two queues have one request at a time (ShimQueue).  Wakeup   *)
(* events and the managed-page count have no effect here, and the queue    *)
(* callbacks, the statistics among them, are never invoked.                *)
(***************************************************************************)
EXTENDS Frames

CONSTANTS ARRAY,        \* VIRTIO_BALLOON_ARRAY_PFNS_MAX
          Pages,        \* every frame that a map can have
          VB, OWN,      \* list heads: vb_dev_info.pages, and a call's own
          MaxTarget,    \* bound: the largest target the host sets
          MaxChanges,   \* bound: how often it does
          MaxDma        \* bound: frames other drivers have at once

ASSUME PagesAssumption ==
    IsFiniteSet(Pages) /\ VB \notin Pages /\ OWN \notin Pages /\ VB # OWN

VARIABLES
    next, prev,     \* struct list_head of the heads and of each page's lru
    ref,            \* _refcount of each struct page, 0 when there is none
    num_pages,      \* vb->num_pages
    pfns,           \* vb->pfns, up to num_pfns
    num,            \* the pages this call wants
    bpc,            \* next step of the body
    state,          \* of update_balloon_size_work
    target, actual, \* the device's configuration
    irq,            \* a configuration change is not yet handled
    changes,        \* how often the target has changed
    told,           \* the request in the inflate or deflate queue
    host,           \* the pages the host has
    dma             \* frames other drivers have

listVars == <<next, prev, ref>>
bodyVars == <<num_pages, pfns, num, bpc, state, actual>>
hostVars == <<target, irq, changes, host>>
balloonVars == <<free, listVars, bodyVars, hostVars, told, dma>>

Nodes == Pages \cup {VB, OWN}

BalloonInit ==
    /\ next = [n \in Nodes |-> n] /\ prev = [n \in Nodes |-> n]
    /\ ref = [p \in Pages |-> 0]
    /\ num_pages = 0 /\ pfns = <<>> /\ num = 0
    /\ bpc = "probe" /\ state = "IDLE"
    /\ target \in 0 .. MaxTarget /\ actual = 0
    /\ irq = FALSE /\ changes = 0
    /\ told = "none" /\ host = {} /\ dma = {}

-----------------------------------------------------------------------------
(* A list is its next and prev pointers.                                    *)
Links == [next |-> next, prev |-> prev]
Relink(l) == next' = l.next /\ prev' = l.prev

(* Mutant of InsertBetween: the link back from the next node is forgotten.  *)
InsertBetweenForgets(l, new, before, after) ==
    [next |-> [l.next EXCEPT ![new] = after, ![before] = new],
     prev |-> [l.prev EXCEPT ![new] = before]]

(* __list_add, list_add, list_add_tail and list_del.                        *)
InsertBetween(l, new, before, after) ==
    [next |-> [l.next EXCEPT ![new] = after, ![before] = new],
     prev |-> [l.prev EXCEPT ![after] = new, ![new] = before]]

ListAdd(l, new, head) == InsertBetween(l, new, head, l.next[head])
ListAddTail(l, new, head) == InsertBetween(l, new, l.prev[head], head)
ListDel(l, entry) ==
    [next |-> [l.next EXCEPT ![l.prev[entry]] = l.next[entry], ![entry] = entry],
     prev |-> [l.prev EXCEPT ![l.next[entry]] = l.prev[entry], ![entry] = entry]]

Empty(head) == next[head] = head

-----------------------------------------------------------------------------
QueueWork == state' = IF state = "IDLE" THEN "PENDING" ELSE state

(* The end of virtballoon_probe: a target that is already set.              *)
Probe ==
    /\ bpc = "probe"
    /\ bpc' = "idle"
    /\ IF target # num_pages THEN QueueWork ELSE UNCHANGED state
    /\ UNCHANGED <<free, listVars, num_pages, pfns, num, actual, hostVars, told, dma>>

(* The configuration interrupt: virtballoon_changed.                        *)
Changed ==
    /\ irq /\ bpc # "probe"
    /\ irq' = FALSE
    /\ QueueWork
    /\ UNCHANGED <<free, listVars, num_pages, pfns, num, bpc, actual, target, changes,
                   host, told, dma>>

(* The runner starts update_balloon_size_func: towards_target, and the      *)
(* start of fill_balloon or leak_balloon.                                   *)
UpdateBegins ==
    /\ bpc = "idle" /\ state = "PENDING"
    /\ state' = "RUNNING"
    /\ pfns' = <<>>
    /\ \/ /\ target > num_pages
          /\ num' = Min({target - num_pages, ARRAY})
          /\ bpc' = "alloc"
       \/ /\ target < num_pages
          /\ num' = Min({num_pages - target, ARRAY})
          /\ bpc' = "dequeue"
       \/ /\ target = num_pages
          /\ num' = 0
          /\ bpc' = "end"
    /\ UNCHANGED <<free, listVars, num_pages, actual, hostVars, told, dma>>

(* alloc_pages: a frame and a descriptor, or NULL when there is no frame,   *)
(* or no memory for the descriptor; the frame then goes back.               *)
AllocPage(p) ==
    /\ AllocFrame(p)
    /\ ref' = [ref EXCEPT ![p] = 1]

AllocFails == UNCHANGED <<free, ref>>

(* The members of a list, by following next from its head.                  *)
Members(head) ==
    LET at[k \in 0 .. Cardinality(Nodes)] == IF k = 0 THEN head ELSE next[at[k - 1]]
        back == {k \in 1 .. Cardinality(Nodes) : at[k] = head}
    IN  IF back = {} THEN {} ELSE {at[k] : k \in 1 .. (Min(back) - 1)}

(* fill_balloon's first loop, which ends early when there is no page.       *)
FillAlloc ==
    /\ bpc = "alloc"
    /\ IF Cardinality(Members(OWN)) = num
       THEN bpc' = "enqueue" /\ UNCHANGED <<free, listVars>>
       ELSE \/ /\ \E p \in Pages : AllocPage(p) /\ Relink(ListAdd(Links, p, OWN))
               /\ UNCHANGED bpc
            \/ /\ AllocFails
               /\ bpc' = "enqueue"
               /\ UNCHANGED <<next, prev>>
    /\ UNCHANGED <<num_pages, pfns, num, state, actual, hostVars, told, dma>>

(* Its second loop: a page joins the balloon.                               *)
FillEnqueue ==
    /\ bpc = "enqueue"
    /\ \/ /\ ~Empty(OWN)
          /\ LET p == next[OWN]
             IN  /\ Relink(ListAddTail(ListDel(Links, p), p, VB))
                 /\ pfns' = Append(pfns, p)
          /\ num_pages' = num_pages + 1
          /\ UNCHANGED bpc
       \/ /\ Empty(OWN)
          /\ bpc' = IF pfns = <<>> THEN "report" ELSE "inflate"
          /\ UNCHANGED <<next, prev, pfns, num_pages>>
    /\ UNCHANGED <<free, ref, num, state, actual, hostVars, told, dma>>

(* Mutant of LeakDequeue: the pages are released before the host is told.   *)
LeakDequeueReleases ==
    /\ bpc = "dequeue"
    /\ IF Len(pfns) < num /\ ~Empty(VB)
       THEN LET p == next[VB]
            IN  /\ Relink(ListDel(Links, p))
                /\ ref' = [ref EXCEPT ![p] = 0]
                /\ FreeFrame(p)
                /\ pfns' = Append(pfns, p)
                /\ num_pages' = num_pages - 1
                /\ UNCHANGED bpc
       ELSE /\ bpc' = IF pfns = <<>> THEN "release" ELSE "deflate"
            /\ UNCHANGED <<free, listVars, pfns, num_pages>>
    /\ UNCHANGED <<num, state, actual, hostVars, told, dma>>

(* leak_balloon's loop: a page leaves the balloon.                          *)
LeakDequeue ==
    /\ bpc = "dequeue"
    /\ IF Len(pfns) < num /\ ~Empty(VB)
       THEN LET p == next[VB]
            IN  /\ Relink(ListAdd(ListDel(Links, p), p, OWN))
                /\ pfns' = Append(pfns, p)
                /\ num_pages' = num_pages - 1
                /\ UNCHANGED bpc
       ELSE /\ bpc' = IF pfns = <<>> THEN "release" ELSE "deflate"
            /\ UNCHANGED <<next, prev, pfns, num_pages>>
    /\ UNCHANGED <<free, ref, num, state, actual, hostVars, told, dma>>

(* tell_host: the request, and the wait until it comes back.                *)
TellHost ==
    /\ bpc \in {"inflate", "deflate"}
    /\ told' = bpc
    /\ bpc' = IF bpc = "inflate" THEN "inflating" ELSE "deflating"
    /\ UNCHANGED <<free, listVars, num_pages, pfns, num, state, actual, hostVars, dma>>

HostTold ==
    /\ bpc \in {"inflating", "deflating"}
    /\ told = "done"
    /\ told' = "none"
    /\ bpc' = IF bpc = "inflating" THEN "report" ELSE "release"
    /\ UNCHANGED <<free, listVars, num_pages, pfns, num, state, actual, hostVars, dma>>

(* release_pages_balloon: put_page drops the last reference of each.        *)
Release ==
    /\ bpc = "release"
    /\ \/ /\ ~Empty(OWN)
          /\ LET p == next[OWN]
             IN  /\ Relink(ListDel(Links, p))
                 /\ ref' = [ref EXCEPT ![p] = @ - 1]
                 /\ FreeFrame(p)
          /\ UNCHANGED bpc
       \/ /\ Empty(OWN)
          /\ bpc' = "report"
          /\ UNCHANGED <<free, listVars>>
    /\ UNCHANGED <<num_pages, pfns, num, state, actual, hostVars, told, dma>>

(* update_balloon_size.                                                     *)
Report ==
    /\ bpc = "report"
    /\ actual' = num_pages
    /\ bpc' = "end"
    /\ UNCHANGED <<free, listVars, num_pages, pfns, num, state, hostVars, told, dma>>

(* The body queues itself when the target is not reached, which queue_work  *)
(* refuses while it runs; it returns, and the runner stores IDLE.           *)
UpdateEnds ==
    /\ bpc = "end"
    /\ bpc' = "idle"
    /\ state' = "IDLE"
    /\ pfns' = <<>> /\ num' = 0
    /\ UNCHANGED <<free, listVars, num_pages, actual, hostVars, told, dma>>

-----------------------------------------------------------------------------
(* The host serves a request: it takes the pages of an inflate request,     *)
(* whose contents are then lost, and returns those of a deflate request.    *)
HostServes ==
    /\ told \in {"inflate", "deflate"}
    /\ host' = IF told = "inflate" THEN host \cup Range(pfns) ELSE host \ Range(pfns)
    /\ told' = "done"
    /\ UNCHANGED <<free, listVars, bodyVars, target, irq, changes, dma>>

(* The host sets another target.                                            *)
HostRetargets ==
    /\ changes < MaxChanges
    /\ \E t \in (0 .. MaxTarget) \ {target} : target' = t
    /\ irq' = TRUE
    /\ changes' = changes + 1
    /\ UNCHANGED <<free, listVars, bodyVars, host, told, dma>>

(* dma_alloc_coherent and dma_free_coherent of other drivers.               *)
DmaAlloc ==
    /\ Cardinality(dma) < MaxDma
    /\ \E f \in Pages : AllocFrame(f) /\ dma' = dma \cup {f}
    /\ UNCHANGED <<listVars, bodyVars, hostVars, told>>

DmaFree ==
    /\ \E f \in dma : FreeFrame(f) /\ dma' = dma \ {f}
    /\ UNCHANGED <<listVars, bodyVars, hostVars, told>>

UpdateStep ==
    \/ UpdateBegins \/ FillAlloc \/ FillEnqueue \/ LeakDequeue \/ TellHost \/ HostTold
    \/ Release \/ Report \/ UpdateEnds

BalloonNext ==
    \/ Probe \/ Changed \/ UpdateStep \/ HostServes \/ HostRetargets \/ DmaAlloc \/ DmaFree

-----------------------------------------------------------------------------
(* The host has only pages of the balloon: while it has a page, the page is *)
(* allocated and on the balloon's list, or on its way out of it with the    *)
(* host not yet told.  So nothing the host discards is in use, and no page  *)
(* is reused before the host knows that it is.                              *)
HostHasOnlyBallooned ==
    host \subseteq Members(VB) \cup (IF bpc = "release" THEN {} ELSE Members(OWN))

(* The balloon's books are right: the lists of list.rs are consistent in    *)
(* both directions, every page is on exactly one list while it is           *)
(* allocated, num_pages counts the pages of the balloon, and between        *)
(* updates the device's configuration reports that number, also after an    *)
(* update that ran out of memory.                                           *)
BalloonConsistent ==
    /\ \A n \in Nodes : prev[next[n]] = n
    /\ Members(VB) \cap Members(OWN) = {}
    /\ Members(VB) \cup Members(OWN) = {p \in Pages : ref[p] = 1}
    /\ num_pages = Cardinality(Members(VB))
    /\ state # "RUNNING" => actual = num_pages
=============================================================================
