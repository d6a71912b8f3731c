CONSTANTS
 na=na
 nb=nb
 nt=nt
 da=da
 db=db
 scan1=scan1
 scan2=scan2
 Names={na,nb,nt}
 TestNames={nt}
 Alike<-AlikeNames
 Identifiers={da,db}
 NoIdentifier=NoIdentifier
 Vacant=Vacant
 Unassigned=Unassigned
 Removed=Removed
 NoImport=NoImport
 Clerks={"h1","h2"}
 InboxNames<-NamesInInbox
 Uploads<-TwoUploads
 FileContents={scan1,scan2}
 Archives<-TwoArchives
 MaxWorkers=3
 MaxPapers=3
 MaxRosterEdits=3
SPECIFICATION SpecRoster

PROPERTIES PapersFollowIdentifiers
CHECK_DEADLOCK FALSE
