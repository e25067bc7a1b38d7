------------------------------ MODULE MCFat32 ------------------------------
EXTENDS Fat32

MCOnDisk == <<"a">>
=============================================================================
