------------------------------- MODULE Epoll -------------------------------
(***************************************************************************)
(* The kernel's side of an epoll instance used edge triggered, as          *)
(* iomanager.cpp uses it: an interest list, a ready list, and what each    *)
(* file descriptor is ready for.  External to the repository.              *)
(***************************************************************************)
CONSTANTS Fds, Events, Hup    \* Hup stands for EPOLLHUP and EPOLLERR

VARIABLES interest,  \* the events each fd is armed for; {} if it is not there
          ready,     \* what a poll of the fd would report now
          rdlist     \* the fds epoll_wait will look at

epoll == <<interest, ready, rdlist>>

TypeOK ==
  /\ interest \in [Fds -> SUBSET Events]
  /\ ready \in [Fds -> SUBSET (Events \cup {Hup})]
  /\ rdlist \subseteq Fds

Init ==
  /\ interest = [fd \in Fds |-> {}]
  /\ ready = [fd \in Fds |-> {}]
  /\ rdlist = {}

\* Hangups and errors are reported whether asked for or not.
Reported(fd, mask) == ready[fd] \cap (mask \cup {Hup})

\* EPOLL_CTL_ADD needs an fd that is not there, EPOLL_CTL_MOD and EPOLL_CTL_DEL
\* one that is.
CtlFails(op, fd) == (op = "ADD") # (interest[fd] = {})

\* ADD and MOD look at the fd at once; DEL takes it off the ready list.
Ctl(op, fd, mask) ==
  /\ interest' = [interest EXCEPT ![fd] = mask]
  /\ rdlist' = IF op = "DEL" THEN rdlist \ {fd}
               ELSE IF Reported(fd, mask) # {} THEN rdlist \cup {fd} ELSE rdlist
  /\ UNCHANGED ready

\* The fd becomes ready, or more of the same arrives.
Arrive(fd, e) ==
  /\ ready' = [ready EXCEPT ![fd] = @ \cup {e}]
  /\ rdlist' = IF interest[fd] # {} /\ e \in interest[fd] \cup {Hup}
               THEN rdlist \cup {fd} ELSE rdlist
  /\ UNCHANGED interest

\* Somebody reads the input or fills the output buffer.
Drain(fd, e) ==
  /\ e \in ready[fd] \ {Hup}
  /\ ready' = [ready EXCEPT ![fd] = @ \ {e}]
  /\ UNCHANGED <<interest, rdlist>>

\* epoll_wait: what is still ready is reported, once.
Found == [fd \in Fds |-> IF fd \in rdlist THEN Reported(fd, interest[fd]) ELSE {}]

Wait == rdlist # {} /\ rdlist' = {} /\ UNCHANGED <<interest, ready>>
=============================================================================
