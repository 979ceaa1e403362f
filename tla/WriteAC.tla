------------------------------- MODULE WriteAC ------------------------------
(***************************************************************************)
(* How a VOMS server writes an attribute certificate: load_credentials     *)
(* (sslutils/sslutils.c) for the server's own certificate, then createac   *)
(* and writeac (ac/create.cc, ac/write.c), as operators.  The records are  *)
(* those of module Validate, which decides about the result elsewhere.     *)
(***************************************************************************)
EXTENDS Validate

\* The server's files: the certificates of the one named by x509_user_cert, in
\* their order, and whether the key is in that file too.
HostFiles(certs, together) == [certs |-> certs, together |-> together]

\* load_credentials: the first certificate, and as the stack the others if the
\* key is in the same file; proxy_load_user_proxy leaves out the first.
OwnCertOf(files) == Head(files.certs)

OwnStack(files) == IF files.together THEN Tail(files.certs) ELSE <<>>

\* The holder's serial number with the name of its issuer or, in the old format,
\* its own.
HolderOf(holder, old) ==
    [form |-> "baseid", serial |-> holder.serial,
     name |-> IF old THEN holder.subject ELSE holder.issuer]

\* Mutant: the holder's name is written in the place of the issuer's.
WriteACNamingHolder(issuer, stack, holder, old, targeted, valid, time) ==
    [signer |-> issuer.key, chain |-> Append(stack, issuer),
     holder |-> HolderOf(holder, old), issuer |-> holder.subject,
     keyid |-> [form |-> "hash", key |-> issuer.key],
     notBefore |-> time, notAfter |-> time + valid,
     flaws |-> IF targeted THEN {"target"} ELSE {}]

\* createac and writeac.  The issuer's certificate comes last in certseq, after
\* the stack.  targeted: there are targets, and the host that will look at the
\* AC is none of them.
WriteAC(issuer, stack, holder, old, targeted, valid, time) ==
    [signer |-> issuer.key, chain |-> Append(stack, issuer),
     holder |-> HolderOf(holder, old), issuer |-> issuer.subject,
     keyid |-> [form |-> "hash", key |-> issuer.key],
     notBefore |-> time, notAfter |-> time + valid,
     flaws |-> IF targeted THEN {"target"} ELSE {}]

=============================================================================
