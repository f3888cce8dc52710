-------------------------------- MODULE Signer --------------------------------
(***************************************************************************)
(* impl/sign/Signer.hpp: signs a document.  The source is read twice: once *)
(* for the digest that the signer callback signs, and once more while the  *)
(* signed document is written behind a placeholder for the signature,      *)
(* which is overwritten at last.  Meanwhile other processes may change the *)
(* source, and writing may fail.                                           *)
(*                                                                         *)
(* A file is a record: does it begin with a byte order mark, which         *)
(* signature is in its first line, and the text behind it.                 *)
(***************************************************************************)
EXTENDS Naturals

CONSTANTS
  Bodies,   \* the texts of documents
  NoText,   \* the empty one
  Torn,     \* a text that was only partly written
  Invalid   \* a text with an encoding error or too long a line

ASSUME BodiesAssumption == {NoText, Invalid} \subseteq Bodies /\ Torn \notin Bodies

VARIABLES
  files,         \* the source and another file
  destination,   \* which of the two is the destination
  step,          \* the part of sign() that comes next
  digest,        \* the digest that was signed, or NoDigest
  streamFailed,  \* the fail or bad bit of the output stream
  result         \* how sign() ended: "none", "ok" or the category of the error

signerVars == <<files, destination, step, digest, streamFailed, result>>

Digests == [mark : BOOLEAN, body : Bodies \cup {Torn}]
NoDigest == [mark |-> FALSE, body |-> Torn]
Signatures == {"none", "old", "placeholder", "real"}  \* the last one for digest
SignerFiles == [mark : BOOLEAN, signature : Signatures, body : Bodies \cup {Torn}]
SourceDocuments == [mark : BOOLEAN, signature : {"none", "old"}, body : Bodies]
EmptyFile == [mark |-> FALSE, signature |-> "none", body |-> NoText]

Steps == {"digest", "sign", "open", "write", "signature", "end"}
Categories == {"IO", "Encoding", "Signature"}

SignerTypeOK ==
  /\ files \in [{"source", "other"} -> SignerFiles]
  /\ \A p \in {"source", "other"} \ {destination} : files[p] \in SourceDocuments
  /\ destination \in {"source", "other"}
  /\ step \in Steps
  /\ digest \in Digests
  /\ streamFailed \in BOOLEAN
  /\ result \in {"none", "ok"} \cup Categories

SignerInit ==
  /\ files \in [{"source", "other"} -> SourceDocuments]
  /\ destination \in {"source", "other"}
  /\ step = "digest"
  /\ digest = NoDigest
  /\ streamFailed = FALSE
  /\ result = "none"

-----------------------------------------------------------------------------

\* What CharStream hashes with enableHash(): the whole file, with a byte order
\* mark, or all that follows the first line if that is a signature.
DigestOf(file) ==
  [mark |-> file.mark /\ file.signature = "none", body |-> file.body]

End(how) == step' = "end" /\ result' = how
GoOn(next) == step' = next /\ UNCHANGED result

\* Writes to a stream that has failed are ignored; nobody looks at its state.
Write(file) ==
  \/ /\ ~streamFailed
     /\ files' = [files EXCEPT ![destination] = file]
     /\ UNCHANGED streamFailed
  \/ /\ streamFailed' = TRUE
     /\ UNCHANGED files

\* validateAndCreateSource and buildDigest
BuildDigest ==
  /\ step = "digest"
  /\ \/ End("IO") /\ UNCHANGED digest
     \/ files["source"].body = Invalid /\ End("Encoding") /\ UNCHANGED digest
     \/ /\ files["source"].body # Invalid
        /\ digest' = DigestOf(files["source"])
        /\ GoOn("sign")
  /\ UNCHANGED <<files, destination, streamFailed>>

\* Mutant: the destination is opened before the callback is asked.
SignAfterOpening ==
  /\ step = "sign"
  /\ Write(EmptyFile)
  /\ End("Signature") \/ GoOn("write")
  /\ UNCHANGED <<destination, digest>>

\* The callback, and validateAndEscapeSignatureText
Sign ==
  /\ step = "sign"
  /\ End("Signature") \/ GoOn("open")
  /\ UNCHANGED <<files, destination, digest, streamFailed>>

\* The destination is opened, which makes it empty.  The placeholder is in the
\* buffer of the stream when the source is opened again.
OpenDestination ==
  /\ step = "open"
  /\ Write(EmptyFile)
  /\ GoOn("write")
  /\ UNCHANGED <<destination, digest>>

WithPlaceholder(text) ==
  [mark |-> FALSE, signature |-> "placeholder", body |-> text]

\* A write that fails half way leaves a part of the text behind.
WriteText(text) ==
  \/ Write(WithPlaceholder(text))
  \/ /\ ~streamFailed
     /\ streamFailed' = TRUE
     /\ files' = [files EXCEPT ![destination] = WithPlaceholder(Torn)]

\* Mutant: the digest of what is written is not compared.
DigestIsTrusted == TRUE

DigestIsUnchanged == DigestOf(files["source"]) = digest

\* writeConfiguration: the mark and the signature line of the source are
\* skipped, the rest is copied.  If the source cannot be read any more, or its
\* digest is not the one that was signed, what was written stays.
WriteConfiguration ==
  /\ step = "write"
  /\ \/ End("IO") /\ \E text \in {NoText, Torn} : WriteText(text)
     \/ /\ files["source"].body = Invalid
        /\ End("Encoding") /\ WriteText(Torn)
     \/ /\ files["source"].body # Invalid
        /\ WriteText(files["source"].body)
        /\ IF DigestIsUnchanged THEN GoOn("signature")
           ELSE End("Signature")
  /\ UNCHANGED <<destination, digest>>

\* Mutant: the placeholder is not overwritten.
KeepPlaceholder ==
  /\ step = "signature"
  /\ End("ok")
  /\ UNCHANGED <<files, destination, digest, streamFailed>>

\* The placeholder is overwritten, and sign() returns.
WriteRealSignature ==
  /\ step = "signature"
  /\ Write([files[destination] EXCEPT !.signature = "real"])
  /\ End("ok")
  /\ UNCHANGED <<destination, digest>>

\* Another process saves the source.
SourceChanges ==
  /\ destination # "source"
  /\ step # "end"
  /\ \E file \in SourceDocuments : files' = [files EXCEPT !["source"] = file]
  /\ UNCHANGED <<destination, step, digest, streamFailed, result>>

SignerNext ==
  \/ BuildDigest
  \/ Sign
  \/ OpenDestination
  \/ WriteConfiguration
  \/ WriteRealSignature
  \/ SourceChanges

SignerSpec == SignerInit /\ [][SignerNext]_signerVars

-----------------------------------------------------------------------------
\* Properties

\* At no time, not even if the program is stopped between two writes, is there a
\* signature in front of another text than the one that was signed with it.
SignatureFitsText ==
  files[destination].signature = "real" => files[destination].body = digest.body

\* When sign() returns without an error and everything was written, the text is
\* complete and is the one the callback was asked to sign, whatever happened to
\* the source in the meantime.
SignedIsWritten ==
  result = "ok" /\ ~streamFailed =>
    /\ files[destination].signature = "real"
    /\ files[destination].body = digest.body
    /\ files[destination].body \in Bodies \ {Invalid}

\* A call that fails before the signature was given leaves the destination
\* alone, and every call leaves a source alone that is not the destination.
OnlyDestinationIsWritten ==
  [][/\ step \in {"digest", "sign"} => UNCHANGED files \/ SourceChanges
     /\ step' # step => \A p \in DOMAIN files \ {destination} : files'[p] = files[p]]_signerVars

\* Signer.hpp: sign() throws an error "in case of any problem with the signing
\* process".
ProblemsAreReported == result = "ok" => ~streamFailed

\* Signer.hpp: it "signs a given document": the digest of the document that was
\* written, which a parser compares, is the one that was signed.
WrittenDigestIsSigned ==
  result = "ok" /\ ~streamFailed => DigestOf(files[destination]) = digest
=============================================================================
