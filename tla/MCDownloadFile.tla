--------------------------- MODULE MCDownloadFile ----------------------------
(* Instances of DownloadFile for TLC.                                       *)
EXTENDS DownloadFile

\* What any upload may leave recorded.
AnyParts == SUBSET Parts

\* An upload lost a part between others.
WithAGap == {{0, Total - 1}}

\* Answers in full only; answers in full or not at all; anything.
SoundNetwork == {{"whole"}}
AnyNetwork == {{"whole"}, {"whole", "refused"}, AllAnswers}

\* Every account has its token file; or any of them may lack one.
AllLinked == {0..(NumAccounts - 1)}
AnyLinked == SUBSET (0..(NumAccounts - 1))
==============================================================================
