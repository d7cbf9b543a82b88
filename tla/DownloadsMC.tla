----------------------------- MODULE DownloadsMC -----------------------------
EXTENDS Downloads, TLC
=============================================================================
