------------------------------- MODULE Errno -------------------------------
(***************************************************************************)
(* Error numbers.  The host has Linux's, the guest has those of WASI, and  *)
(* a host function answers with a number that TranslateErrno made.         *)
(***************************************************************************)
EXTENDS Integers

\* Numbers of the host, as its system calls return them.
Host ==
  [ok |-> 0, EPERM |-> 1, ENOENT |-> 2, EINTR |-> 4, EIO |-> 5, ENXIO |-> 6,
   EAGAIN |-> 11, EACCES |-> 13, EFAULT |-> 14, ENOTDIR |-> 20, EINVAL |-> 22,
   EMFILE |-> 24, ETXTBSY |-> 26, EFBIG |-> 27, ENOSPC |-> 28, EROFS |-> 30,
   EPIPE |-> 32, EDOM |-> 33, ELOOP |-> 40, EDESTADDRREQ |-> 89, ENOPROTOOPT |-> 92,
   EOPNOTSUPP |-> 95, EADDRINUSE |-> 98, EADDRNOTAVAIL |-> 99, ENETUNREACH |-> 101,
   ECONNRESET |-> 104, EISCONN |-> 106, ENOTCONN |-> 107, ETIMEDOUT |-> 110,
   ECONNREFUSED |-> 111, EINPROGRESS |-> 115, ECANCELED |-> 125]

\* The numbers that the guest's code compares with, by name.
Guest ==
  [ok |-> 0, EAGAIN |-> 6, ECANCELED |-> 11, ECONNREFUSED |-> 14, EDOM |-> 18,
   EINPROGRESS |-> 26, EINTR |-> 27, EINVAL |-> 28, EIO |-> 29, EISCONN |-> 30,
   EMFILE |-> 33, ENOENT |-> 44, ENOPROTOOPT |-> 50, ENOTCONN |-> 53,
   EOPNOTSUPP |-> 58, ETIMEDOUT |-> 73]

\* The table: EADDRNOTAVAIL keeps the host's number, 0x63.
mapped_NoAgain ==                                        \* mutant: a forgotten entry
  [n \in {Host[e] : e \in DOMAIN Guest \ {"EAGAIN"}} |->
     Guest[CHOOSE e \in DOMAIN Guest : Host[e] = n]]
mapped ==
  [n \in {Host[e] : e \in DOMAIN Guest} \cup {Host.EADDRNOTAVAIL} |->
     IF n = Host.EADDRNOTAVAIL THEN 99
     ELSE Guest[CHOOSE e \in DOMAIN Guest : Host[e] = n]]

\* A number that the table lacks goes to the guest as it is.
ErrnoTranslate_Negated(n) ==                             \* mutant: as the kernel has them
  IF n \in DOMAIN mapped THEN mapped[n] ELSE -n
ErrnoTranslate(n) == IF n \in DOMAIN mapped THEN mapped[n] ELSE n

\* Errors of the host that the table lacks, with numbers that mean e to the guest.
Namesakes(e) == {h \in DOMAIN Host : Host[h] = Guest[e] /\ Host[h] \notin DOMAIN mapped}

\* The Go errors that a host function meets, other than numbers.
Causes == {"canceled", "deadline", "closed", "timeout", "other"}

\* A cause that is no number and none of these panics.
Panic == -1
makeErrnoSlow(cause) ==
  CASE cause = "canceled" -> Host.ECANCELED
    [] cause \in {"deadline", "timeout"} -> Host.ETIMEDOUT
    [] cause = "closed" -> Host.EIO
    [] OTHER -> Panic

Errno(cause) == IF cause \in Causes THEN makeErrnoSlow(cause) ELSE Host[cause]

TranslateErrno(cause) ==
  IF Errno(cause) = Panic THEN Panic ELSE ErrnoTranslate(Errno(cause))

\* What a host function returns by name, without a translation.
Untranslated(e) == Host[e]
=============================================================================
