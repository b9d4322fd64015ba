SPECIFICATION Spec
INVARIANTS TypeOK ReportWasRight DoctorAgrees
